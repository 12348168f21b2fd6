--------------------------- MODULE EffectLifecycle --------------------------
(***************************************************************************)
(* What the gate promises about every effect, whoever asks and whichever   *)
(* plug answers: an effect starts at most once, only after it was          *)
(* requested, and a halt ends every effect that is held for a decision and *)
(* admits no new one.  An effect that was requested before the halt may    *)
(* still start.                                                            *)
(***************************************************************************)
CONSTANT Effect

VARIABLES stage, stopped

Stage == {"new", "requested", "held", "released", "running", "over"}

Init == stage = [f \in Effect |-> "new"] /\ stopped = FALSE

Goes(f, from, to) == /\ stage[f] \in from
                     /\ stage' = [stage EXCEPT ![f] = to]
                     /\ UNCHANGED stopped

Request(f) == ~stopped /\ Goes(f, {"new"}, "requested")
Hold(f)    == ~stopped /\ Goes(f, {"requested"}, "held")
Release(f) == ~stopped /\ Goes(f, {"held"}, "released")
Start(f)   == Goes(f, {"requested", "released"}, "running")
Finish(f)  == Goes(f, {"running"}, "over")
Refuse(f)  == Goes(f, {"requested", "released"}, "over")
Reject(f)  == stopped /\ Goes(f, {"new"}, "over")

Halt ==
  /\ stopped' = TRUE
  /\ stage' = [f \in Effect |-> IF stage[f] = "held" THEN "over" ELSE stage[f]]

Next == \/ Halt
        \/ \E f \in Effect : \/ Request(f) \/ Hold(f) \/ Release(f) \/ Start(f)
                             \/ Finish(f) \/ Refuse(f) \/ Reject(f)

Spec == Init /\ [][Next]_<<stage, stopped>>
=============================================================================
