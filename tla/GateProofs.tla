----------------------------- MODULE GateProofs -----------------------------
(***************************************************************************)
(* Theorems about Gate for every set of effects, every plug and any number *)
(* of decisions and halts, and about the plug LocalGuards for every        *)
(* command line.                                                           *)
(***************************************************************************)
EXTENDS Gate, LocalGuards, FiniteSetTheorems, SequenceTheorems, NaturalsInduction,
        WellFoundedInduction, TLAPS

(* The inductive invariant.  A call that has not been dispatched yet has   *)
(* started nothing; the waiters are the calls that wait; a call on its way *)
(* is in the in-flight table until a halt has reported it.                 *)
NotYet == {"new", "asked", "waiting", "asked_again", "blocked", "ended"}

StartedOnce ==
  \A f \in Effect : /\ pc[f] \in NotYet => started[f] = 0
                    /\ started[f] <= 1

WaitersWait == \A f \in Effect : pc[f] = "waiting" <=> f \in waiting /\ ~halted

HaltedNobodyWaits == halted => waiting = {}

UnderWay == {"asked", "waiting", "asked_again", "running"}

InFlightOrReported ==
  \A f \in Effect : pc[f] \in UnderWay =>
    IF halted THEN \E s \in Status : <<f, s>> \in reported
              ELSE inFlight[f] # "none"

(* A denied effect is about to be blocked, or was.                         *)
DenialHolds ==
  \A f \in Effect :
    /\ pc[f] \in {"new", "asked", "waiting"} => said[f] = "undefined"
    /\ said[f] = "deny" => /\ started[f] = 0
                           /\ pc[f] \in {"asked_again", "blocked", "ended"}
                           /\ pc[f] = "asked_again" => answer[f] = "block"

GateInv == /\ TypeOK /\ StartedOnce /\ WaitersWait /\ HaltedNobodyWaits
           /\ InFlightOrReported /\ DenialHolds

-----------------------------------------------------------------------------
(* Every variable keeps its type.                                          *)

(* A gate that nobody has called yet has well-typed variables. *)
LEMMA InitType == Init => TypeOK
<1> SUFFICES ASSUME Init PROVE TypeOK
  OBVIOUS
<1> USE DEF Init, PC, Answer, Status, Decision
<1>1. pc \in [Effect -> PC] /\ answer \in [Effect -> Answer]
  OBVIOUS
<1>2. halted \in BOOLEAN /\ inFlight \in [Effect -> Status]
  OBVIOUS
<1>3. waiting \subseteq Effect /\ decision \in [Effect -> Decision]
  OBVIOUS
<1>4. reported \subseteq Effect \X {"dispatching", "pending"}
  OBVIOUS
<1>5. started \in [Effect -> Nat] /\ said \in [Effect -> Decision]
  OBVIOUS
<1>6. resolves \in Nat /\ halts \in Nat
  OBVIOUS
<1>7. QED
  BY <1>1, <1>2, <1>3, <1>4, <1>5, <1>6 DEF TypeOK

(* A step, a halt included, keeps the types: a halt empties the waiters. *)
LEMMA StepType == TypeOK /\ [Next]_vars => TypeOK'
<1> SUFFICES ASSUME TypeOK, [Next]_vars PROVE TypeOK'
  OBVIOUS
<1> USE DEF TypeOK, PC, Answer, Status, Decision
<1>1. CASE Halt
  <2>1. Entries \subseteq Effect \X {"dispatching", "pending"}
    BY DEF Entries
  <2>2. QED BY <1>1, <2>1 DEF Halt
<1>2. ASSUME NEW f \in Effect, Call(f) PROVE TypeOK'
  BY <1>2 DEF Call, Ask, Answers, UseUp
<1>3. ASSUME NEW f \in Effect, Allowed(f) PROVE TypeOK'
  BY <1>3 DEF Allowed, Dispatch, Leave
<1>4. ASSUME NEW f \in Effect, Blocked(f) PROVE TypeOK'
  BY <1>4 DEF Blocked, Leave
<1>5. ASSUME NEW f \in Effect, Unavailable(f) PROVE TypeOK'
  BY <1>5 DEF Unavailable, Leave
<1>6. ASSUME NEW f \in Effect, Pending(f) PROVE TypeOK'
  BY <1>6 DEF Pending, Leave
<1>7. ASSUME NEW f \in Effect, AllowedAgain(f) PROVE TypeOK'
  BY <1>7 DEF AllowedAgain, Dispatch, Leave
<1>8. ASSUME NEW f \in Effect, Return(f) PROVE TypeOK'
  BY <1>8 DEF Return, Leave
<1>9. ASSUME NEW f \in Effect, NEW d \in Decision, Resolve(f, d) PROVE TypeOK'
  BY <1>9 DEF Resolve, Known, Ask, Answers, UseUp
<1>10. CASE UNCHANGED vars
  BY <1>10 DEF vars
<1>11. QED
  BY <1>1, <1>2, <1>3, <1>4, <1>5, <1>6, <1>7, <1>8, <1>9, <1>10
     DEF Next, Continue

(* The gate's variables stay in their types.                               *)
THEOREM TypeCorrect == Spec => []TypeOK
BY InitType, StepType, PTL DEF Spec

-----------------------------------------------------------------------------
(* The invariant is inductive: one step per action, under it one step per  *)
(* conjunct.                                                               *)

(* The inductive invariant holds before the first call. *)
LEMMA InitInv == Init => GateInv
<1> SUFFICES ASSUME Init PROVE GateInv
  OBVIOUS
<1>1. TypeOK
  BY InitType
<1>2. StartedOnce /\ WaitersWait /\ HaltedNobodyWaits
  BY DEF Init, StartedOnce, NotYet, WaitersWait, HaltedNobodyWaits
<1>3. InFlightOrReported /\ DenialHolds
  BY DEF Init, InFlightOrReported, UnderWay, DenialHolds
<1>4. QED
  BY <1>1, <1>2, <1>3 DEF GateInv

(* Every step of a call, every decision and every halt keeps it. *)
LEMMA StepInv == GateInv /\ [Next]_vars => GateInv'
<1> SUFFICES ASSUME GateInv, [Next]_vars PROVE GateInv'
  OBVIOUS
<1> TypeOK /\ TypeOK'
  BY StepType DEF GateInv
<1> USE DEF GateInv, TypeOK, PC, Answer, Status, Decision
<1>1. CASE Halt
  <2>1. StartedOnce'
    <3>1. \A f \in Effect : pc'[f] = IF f \in waiting THEN "ended" ELSE pc[f]
      BY <1>1 DEF Halt
    <3>2. \A f \in Effect : f \in waiting => pc[f] = "waiting"
      BY <1>1 DEF WaitersWait, HaltedNobodyWaits
    <3>3. started' = started
      BY <1>1 DEF Halt
    <3>4. QED BY <3>1, <3>2, <3>3 DEF StartedOnce, NotYet
  <2>2. WaitersWait'
    BY <1>1 DEF Halt, Entries, WaitersWait
  <2>3. HaltedNobodyWaits'
    BY <1>1 DEF Halt, Entries, HaltedNobodyWaits
  <2>4. InFlightOrReported'
    BY <1>1 DEF Halt, Entries, InFlightOrReported, UnderWay
  <2>5. DenialHolds'
    BY <1>1 DEF Halt, Entries, DenialHolds
  <2>6. QED BY <2>1, <2>2, <2>3, <2>4, <2>5
<1>2. ASSUME NEW f \in Effect, Call(f) PROVE GateInv'
  <2>1. StartedOnce'
    BY <1>2 DEF Call, Ask, Answers, UseUp, StartedOnce, NotYet
  <2>2. WaitersWait'
    BY <1>2 DEF Call, Ask, Answers, UseUp, WaitersWait
  <2>3. HaltedNobodyWaits'
    BY <1>2 DEF Call, Ask, Answers, UseUp, HaltedNobodyWaits
  <2>4. InFlightOrReported'
    BY <1>2 DEF Call, Ask, Answers, UseUp, InFlightOrReported, UnderWay
  <2>5. DenialHolds'
    BY <1>2 DEF Call, Ask, Answers, UseUp, DenialHolds
  <2>6. QED BY <2>1, <2>2, <2>3, <2>4, <2>5
<1>3. ASSUME NEW f \in Effect, Allowed(f) PROVE GateInv'
  <2>1. StartedOnce'
    BY <1>3 DEF Allowed, Dispatch, Leave, StartedOnce, NotYet
  <2>2. WaitersWait'
    BY <1>3 DEF Allowed, Dispatch, Leave, WaitersWait
  <2>3. HaltedNobodyWaits'
    BY <1>3 DEF Allowed, Dispatch, Leave, HaltedNobodyWaits
  <2>4. InFlightOrReported'
    BY <1>3 DEF Allowed, Dispatch, Leave, InFlightOrReported, UnderWay
  <2>5. DenialHolds'
    BY <1>3 DEF Allowed, Dispatch, Leave, DenialHolds
  <2>6. QED BY <2>1, <2>2, <2>3, <2>4, <2>5
<1>4. ASSUME NEW f \in Effect, Blocked(f) PROVE GateInv'
  <2>1. StartedOnce'
    BY <1>4 DEF Blocked, Leave, StartedOnce, NotYet
  <2>2. WaitersWait'
    BY <1>4 DEF Blocked, Leave, WaitersWait
  <2>3. HaltedNobodyWaits'
    BY <1>4 DEF Blocked, Leave, HaltedNobodyWaits
  <2>4. InFlightOrReported'
    BY <1>4 DEF Blocked, Leave, InFlightOrReported, UnderWay
  <2>5. DenialHolds'
    BY <1>4 DEF Blocked, Leave, DenialHolds
  <2>6. QED BY <2>1, <2>2, <2>3, <2>4, <2>5
<1>5. ASSUME NEW f \in Effect, Unavailable(f) PROVE GateInv'
  <2>1. StartedOnce'
    BY <1>5 DEF Unavailable, Leave, StartedOnce, NotYet
  <2>2. WaitersWait'
    BY <1>5 DEF Unavailable, Leave, WaitersWait
  <2>3. HaltedNobodyWaits'
    BY <1>5 DEF Unavailable, Leave, HaltedNobodyWaits
  <2>4. InFlightOrReported'
    BY <1>5 DEF Unavailable, Leave, InFlightOrReported, UnderWay
  <2>5. DenialHolds'
    BY <1>5 DEF Unavailable, Leave, DenialHolds
  <2>6. QED BY <2>1, <2>2, <2>3, <2>4, <2>5
<1>6. ASSUME NEW f \in Effect, Pending(f) PROVE GateInv'
  <2>1. StartedOnce'
    BY <1>6 DEF Pending, Leave, StartedOnce, NotYet
  <2>2. WaitersWait'
    BY <1>6 DEF Pending, Leave, WaitersWait
  <2>3. HaltedNobodyWaits'
    BY <1>6 DEF Pending, Leave, HaltedNobodyWaits
  <2>4. InFlightOrReported'
    BY <1>6 DEF Pending, Leave, InFlightOrReported, UnderWay
  <2>5. DenialHolds'
    BY <1>6 DEF Pending, Leave, DenialHolds
  <2>6. QED BY <2>1, <2>2, <2>3, <2>4, <2>5
<1>7. ASSUME NEW f \in Effect, AllowedAgain(f) PROVE GateInv'
  <2>1. StartedOnce'
    BY <1>7 DEF AllowedAgain, Dispatch, Leave, StartedOnce, NotYet
  <2>2. WaitersWait'
    BY <1>7 DEF AllowedAgain, Dispatch, Leave, WaitersWait
  <2>3. HaltedNobodyWaits'
    BY <1>7 DEF AllowedAgain, Dispatch, Leave, HaltedNobodyWaits
  <2>4. InFlightOrReported'
    BY <1>7 DEF AllowedAgain, Dispatch, Leave, InFlightOrReported, UnderWay
  <2>5. DenialHolds'
    BY <1>7 DEF AllowedAgain, Dispatch, Leave, DenialHolds
  <2>6. QED BY <2>1, <2>2, <2>3, <2>4, <2>5
<1>8. ASSUME NEW f \in Effect, Return(f) PROVE GateInv'
  <2>1. StartedOnce'
    BY <1>8 DEF Return, Leave, StartedOnce, NotYet
  <2>2. WaitersWait'
    BY <1>8 DEF Return, Leave, WaitersWait
  <2>3. HaltedNobodyWaits'
    BY <1>8 DEF Return, Leave, HaltedNobodyWaits
  <2>4. InFlightOrReported'
    BY <1>8 DEF Return, Leave, InFlightOrReported, UnderWay
  <2>5. DenialHolds'
    BY <1>8 DEF Return, Leave, DenialHolds
  <2>6. QED BY <2>1, <2>2, <2>3, <2>4, <2>5
<1>9. ASSUME NEW f \in Effect, NEW d \in Decision, Resolve(f, d) PROVE GateInv'
  \* What the step does to the call, whether it waits or the decision is late.
  <2>1. CASE f \notin waiting
    <3>1. UNCHANGED <<pc, answer, halted, inFlight, waiting, reported, started, said>>
      BY <1>9, <2>1 DEF Resolve
    <3>2. QED
      BY <3>1 DEF StartedOnce, NotYet, WaitersWait, HaltedNobodyWaits,
                  InFlightOrReported, UnderWay, DenialHolds
  <2>2. CASE f \in waiting
    <3>1. pc[f] = "waiting" /\ ~halted /\ halted' = FALSE
      BY <1>9, <2>2 DEF Resolve, WaitersWait, HaltedNobodyWaits
    <3>2. /\ pc' = [pc EXCEPT ![f] = "asked_again"]
          /\ said' = [said EXCEPT ![f] = d]
          /\ waiting' = waiting \ {f}
          /\ UNCHANGED <<inFlight, reported, started>>
      BY <1>9, <2>2 DEF Resolve, Ask
    <3>3. StartedOnce'
      BY <3>1, <3>2 DEF StartedOnce, NotYet
    <3>4. WaitersWait' /\ HaltedNobodyWaits'
      BY <3>1, <3>2 DEF WaitersWait, HaltedNobodyWaits
    <3>5. InFlightOrReported'
      BY <3>1, <3>2 DEF InFlightOrReported, UnderWay
    <3>6. DenialHolds'
      \* A denial that the plug knows leaves it one answer.
      <4>1. \E a \in Answers(f, Known(decision, f, d)) :
              answer' = [answer EXCEPT ![f] = a]
        BY <1>9, <2>2 DEF Resolve, Ask
      <4>2. d = "deny" => Answers(f, Known(decision, f, d)) = {"block"}
        BY DEF Answers, Known
      <4>3. d = "deny" => answer'[f] = "block"
        BY <4>1, <4>2
      <4>4. \A g \in Effect \ {f} : answer'[g] = answer[g]
        BY <4>1
      <4>5. started[f] = 0
        BY <3>1 DEF StartedOnce, NotYet
      <4>6. QED
        BY <3>1, <3>2, <4>3, <4>4, <4>5 DEF DenialHolds
    <3>7. QED BY <3>3, <3>4, <3>5, <3>6
  <2>3. QED BY <2>1, <2>2
<1>10. CASE UNCHANGED vars
  BY <1>10 DEF vars, StartedOnce, NotYet, WaitersWait, HaltedNobodyWaits,
                 InFlightOrReported, UnderWay, DenialHolds
<1>11. QED
  BY <1>1, <1>2, <1>3, <1>4, <1>5, <1>6, <1>7, <1>8, <1>9, <1>10
     DEF Next, Continue

(* The gate's inductive invariant holds in every reachable state.          *)
THEOREM Invariance == Spec => []GateInv
BY InitInv, StepInv, PTL DEF Spec

(* One answered descriptor is dispatched at most once (gate.ts execute,    *)
(* egress, resolvePending), with any number of late or repeated decisions. *)
THEOREM DispatchedOnce == Spec => []SingleDispatch
<1>1. GateInv => SingleDispatch
  BY DEF GateInv, StartedOnce, SingleDispatch
<1>2. QED BY <1>1, Invariance, PTL

(* What the user denied never starts: the decision reaches the question    *)
(* that follows it (gate.ts resolve, localguards.ts resolve and request).  *)
THEOREM DenialIsFinal == Spec => []DeniedNeverStarts
<1>1. GateInv => DeniedNeverStarts
  BY DEF GateInv, DenialHolds, DeniedNeverStarts
<1>2. QED BY <1>1, Invariance, PTL

(* The halted event names every effect that is still on its way (gate.ts   *)
(* halt, collectInFlight).                                                 *)
THEOREM HaltIsComplete == Spec => []HaltReportsAll
<1>1. GateInv => HaltReportsAll
  BY DEF GateInv, InFlightOrReported, UnderWay, HaltReportsAll
<1>2. QED BY <1>1, Invariance, PTL

(* resolve() and halt() find every call that waits (gate.ts                *)
(* waitForResolve), and none waits on a halted gate.                       *)
THEOREM WaitersAreRegistered == Spec => []NoLostWaiter
<1>1. GateInv => NoLostWaiter
  BY DEF GateInv, WaitersWait, NoLostWaiter
<1>2. QED BY <1>1, Invariance, PTL

-----------------------------------------------------------------------------
(* Refinement: every step of the gate is a step of the life cycle or a     *)
(* stutter.                                                                *)

(* Before the first call the life cycle is at its start. *)
LEMMA RefinesInit == Init => L!Init
BY DEF Init, L!Init, stageOf, Over

(* The stage of a call is a function of its place; a call that stays put   *)
(* keeps its stage.                                                        *)
StageAt(p) == CASE p = "asked" -> "requested"
                [] p = "waiting" -> "held"
                [] p = "asked_again" -> "released"
                [] p \in Over -> "over"
                [] OTHER -> p

(* The refinement mapping, one call at a time. *)
LEMMA StageOf == /\ stageOf = [f \in Effect |-> StageAt(pc[f])]
                 /\ stageOf' = [f \in Effect |-> StageAt(pc'[f])]
BY DEF stageOf, StageAt

(* A call that goes to another place changes its own stage only. *)
LEMMA MoveStage ==
  ASSUME TypeOK, NEW f \in Effect, NEW p \in PC, pc' = [pc EXCEPT ![f] = p]
  PROVE  stageOf' = [stageOf EXCEPT ![f] = StageAt(p)]
BY StageOf DEF TypeOK

(* A step of the gate is one of the life cycle or none. *)
LEMMA RefinesNext == GateInv /\ [Next]_vars => [L!Next]_<<stageOf, halted>>
<1> SUFFICES ASSUME GateInv, [Next]_vars PROVE [L!Next]_<<stageOf, halted>>
  OBVIOUS
<1> TypeOK
  BY DEF GateInv
<1> DEFINE Step == [L!Next]_<<stageOf, halted>>
<1>a. ASSUME NEW f \in Effect PROVE stageOf[f] = StageAt(pc[f])
  BY StageOf
<1>1. CASE Halt
  <2>1. \A f \in Effect : f \in waiting <=> StageAt(pc[f]) = "held"
    BY <1>1 DEF GateInv, WaitersWait, HaltedNobodyWaits, TypeOK, PC, StageAt, Over
  <2>2. \A f \in Effect : pc'[f] = IF f \in waiting THEN "ended" ELSE pc[f]
    BY <1>1 DEF Halt
  <2>3. StageAt("ended") = "over"
    BY DEF StageAt, Over
  <2>4. stageOf' = [f \in Effect |-> IF stageOf[f] = "held" THEN "over"
                                                          ELSE stageOf[f]]
    BY <2>1, <2>2, <2>3, StageOf
  <2>5. L!Halt
    BY <1>1, <2>4 DEF Halt, L!Halt
  <2>6. QED BY <2>5 DEF L!Next
<1>2. ASSUME NEW f \in Effect, Call(f) PROVE Step
  <2>1. CASE halted
    <3>1. L!Reject(f)
      BY <1>2, <2>1, <1>a, MoveStage DEF Call, L!Reject, L!Goes, StageAt, Over, PC
    <3>2. QED BY <3>1 DEF L!Next
  <2>2. CASE ~halted
    <3>1. L!Request(f)
      BY <1>2, <2>2, <1>a, MoveStage
         DEF Call, Ask, L!Request, L!Goes, StageAt, Over, PC
    <3>2. QED BY <3>1 DEF L!Next
  <2>3. QED BY <2>1, <2>2
<1>3. ASSUME NEW f \in Effect, Allowed(f) \/ AllowedAgain(f) PROVE Step
  <2>1. CASE pc' = [pc EXCEPT ![f] = "running"]
    <3>1. L!Start(f)
      BY <1>3, <2>1, <1>a, MoveStage
         DEF Allowed, AllowedAgain, L!Start, L!Goes, StageAt, Over, PC
    <3>2. QED BY <3>1 DEF L!Next
  <2>2. CASE pc' = [pc EXCEPT ![f] = "blocked"]
    <3>1. L!Refuse(f)
      BY <1>3, <2>2, <1>a, MoveStage
         DEF Allowed, AllowedAgain, L!Refuse, L!Goes, StageAt, Over, PC
    <3>2. QED BY <3>1 DEF L!Next
  <2>3. QED BY <1>3, <2>1, <2>2 DEF Allowed, AllowedAgain, Dispatch, Leave
<1>4. ASSUME NEW f \in Effect, Blocked(f) PROVE Step
  <2>1. L!Refuse(f)
    BY <1>4, <1>a, MoveStage DEF Blocked, Leave, L!Refuse, L!Goes, StageAt, Over, PC
  <2>2. QED BY <2>1 DEF L!Next
<1>5. ASSUME NEW f \in Effect, Unavailable(f) PROVE Step
  <2>1. L!Refuse(f)
    BY <1>5, <1>a, MoveStage
       DEF Unavailable, Leave, L!Refuse, L!Goes, StageAt, Over, PC
  <2>2. QED BY <2>1 DEF L!Next
<1>6. ASSUME NEW f \in Effect, Pending(f) PROVE Step
  <2>1. CASE halted
    <3>1. L!Refuse(f)
      BY <1>6, <2>1, <1>a, MoveStage
         DEF Pending, Leave, L!Refuse, L!Goes, StageAt, Over, PC
    <3>2. QED BY <3>1 DEF L!Next
  <2>2. CASE ~halted
    <3>1. L!Hold(f)
      BY <1>6, <2>2, <1>a, MoveStage DEF Pending, L!Hold, L!Goes, StageAt, Over, PC
    <3>2. QED BY <3>1 DEF L!Next
  <2>3. QED BY <2>1, <2>2
<1>7. ASSUME NEW f \in Effect, Return(f) PROVE Step
  <2>1. L!Finish(f)
    BY <1>7, <1>a, MoveStage DEF Return, Leave, L!Finish, L!Goes, StageAt, Over, PC
  <2>2. QED BY <2>1 DEF L!Next
<1>8. ASSUME NEW f \in Effect, NEW d \in Decision, Resolve(f, d) PROVE Step
  <2>1. CASE f \in waiting
    <3>1. pc[f] = "waiting" /\ ~halted
      BY <2>1 DEF GateInv, WaitersWait, HaltedNobodyWaits
    <3>2. L!Release(f)
      BY <1>8, <2>1, <3>1, <1>a, MoveStage
         DEF Resolve, Ask, L!Release, L!Goes, StageAt, Over, PC
    <3>3. QED BY <3>2 DEF L!Next
  <2>2. CASE f \notin waiting
    <3>1. UNCHANGED <<pc, halted>>
      BY <1>8, <2>2 DEF Resolve
    <3>2. QED BY <3>1, StageOf
  <2>3. QED BY <2>1, <2>2
<1>9. CASE UNCHANGED vars
  BY <1>9, StageOf DEF vars
<1>10. QED
  BY <1>1, <1>2, <1>3, <1>4, <1>5, <1>6, <1>7, <1>8, <1>9 DEF Next, Continue

(* The gate implements the life cycle of EffectLifecycle.                  *)
THEOREM Refinement == Spec => Implements
BY RefinesInit, RefinesNext, Invariance, PTL DEF Spec, Implements, L!Spec

-----------------------------------------------------------------------------
\* Among some natural numbers there is a least one.
LEMMA LeastNatural ==
  ASSUME NEW T, T \subseteq Nat, T # {} PROVE \E n \in T : \A m \in T : n <= m
<1> DEFINE R == {ss \in Nat \X Nat : ss[1] < ss[2]}
<1>1. IsWellFoundedOn(R, Nat)
  BY NatLessThanWellFounded DEF OpToRel
<1> HIDE DEF R
<1>2. PICK x \in T : \A y \in T : ~(<<y, x>> \in R)
  BY <1>1, WFMin
<1>3. ASSUME NEW m \in T, m < x PROVE FALSE
  <2>1. <<m, x>> \in R
    BY <1>3 DEF R
  <2>2. QED BY <1>2, <2>1
<1>4. \A m \in T : x <= m
  BY <1>3
<1>5. QED BY <1>4

\* Induction: a set that holds 0 and the successors of its numbers holds all.
LEMMA NaturalInduction ==
  ASSUME NEW S, 0 \in S, \A n \in Nat : n \in S => n + 1 \in S PROVE Nat \subseteq S
<1> SUFFICES ASSUME Nat \ S # {} PROVE FALSE
  OBVIOUS
<1>1. PICK n \in Nat \ S : \A m \in Nat \ S : n <= m
  BY LeastNatural
<1>2. n # 0 /\ n - 1 \in Nat /\ n - 1 \in S
  BY <1>1
<1>3. QED BY <1>1, <1>2

(***************************************************************************)
(* The guards: the scan finds the statements that the units of a command   *)
(* line make.                                                              *)
(***************************************************************************)
LEMMA LeastOf ==
  ASSUME NEW T, T \subseteq Nat, T # {} PROVE Min(T) \in T /\ \A n \in T : Min(T) <= n
<1>1. \E n \in T : \A m \in T : n =< m
  BY LeastNatural
<1>2. QED BY <1>1 DEF Min

\* Two characters that are one separator.
Doubled(c, i) == c[i] \in {"&", "|"} /\ i < Len(c) /\ c[i + 1] = c[i]

\* Where a quotation ends, at its next quote or with the line.
LEMMA QuotationEnds ==
  ASSUME NEW c \in Seq(Chars), NEW i \in 1 .. Len(c)
  PROVE LET e == Min(QuoteEnds(c, i) \cup {Len(c)})
        IN  /\ e \in QuoteEnds(c, i) \cup {Len(c)} /\ e \in i .. Len(c)
            /\ \A j \in QuoteEnds(c, i) : j \in i + 1 .. Len(c) /\ e <= j
<1> DEFINE E == QuoteEnds(c, i)
           T == E \cup {Len(c)}
<1>1. E \subseteq i + 1 .. Len(c) /\ Len(c) \in Nat /\ i \in Nat /\ i <= Len(c)
  BY DEF QuoteEnds
<1> HIDE DEF E
<1>2. T \subseteq Nat /\ T # {} /\ T \subseteq i .. Len(c)
  <2>1. i + 1 .. Len(c) \subseteq i .. Len(c) /\ i .. Len(c) \subseteq Nat /\ Len(c) \in i .. Len(c)
    BY <1>1
  <2>2. QED BY <1>1, <2>1
<1> HIDE DEF T
<1>3. Min(T) \in T /\ \A n \in T : Min(T) <= n
  BY <1>2, LeastOf
<1>4. Min(T) \in i .. Len(c)
  BY <1>2, <1>3
<1>5. QED BY <1>1, <1>3, <1>4 DEF T, E

\* The unit after the one that begins at i.
LEMMA AfterIs ==
  ASSUME NEW c \in Seq(Chars), NEW i \in 1 .. Len(c)
  PROVE /\ c[i] \in Quotes => After(c, i) = Min(QuoteEnds(c, i) \cup {Len(c)}) + 1
        /\ c[i] = "backtick" \/ Doubled(c, i) => After(c, i) = i + 2
        /\ c[i] \notin Quotes /\ c[i] # "backtick" /\ ~Doubled(c, i) => After(c, i) = i + 1
        /\ After(c, i) \in Nat /\ After(c, i) > i
<1> DEFINE e == Min(QuoteEnds(c, i) \cup {Len(c)})
<1>1. e \in Nat /\ e >= i
  <2>1. e \in i .. Len(c)
    BY QuotationEnds
  <2> HIDE DEF e
  <2>2. QED BY <2>1
<1> HIDE DEF e
<1>2. After(c, i) = CASE c[i] \in Quotes -> e + 1
                      [] c[i] = "backtick" \/ Doubled(c, i) -> i + 2
                      [] OTHER -> i + 1
  BY DEF After, Doubled, e
<1>3. CASE c[i] \in Quotes
  <2>1. ~(c[i] = "backtick" \/ Doubled(c, i))
    BY <1>3 DEF Quotes, Doubled
  <2>2. After(c, i) = e + 1
    BY <1>2, <1>3, <2>1
  <2>3. QED BY <1>1, <1>3, <2>1, <2>2 DEF e
<1>4. CASE c[i] = "backtick" \/ Doubled(c, i)
  <2>1. c[i] \notin Quotes
    BY <1>4 DEF Quotes, Doubled
  <2>2. After(c, i) = i + 2
    BY <1>2, <1>4, <2>1
  <2>3. QED BY <1>4, <2>1, <2>2
<1>5. CASE c[i] \notin Quotes /\ ~(c[i] = "backtick" \/ Doubled(c, i))
  <2>1. After(c, i) = i + 1
    BY <1>2, <1>5
  <2>2. QED BY <1>5, <2>1
<1>6. QED BY <1>3, <1>4, <1>5

UnitsTo(c, U, n) ==
  /\ U \subseteq 1 .. n
  /\ \A i \in 1 .. n : i \in U <=> i = 1 \/ \E j \in U : j < i /\ After(c, j) = i

\* The units begin at the first character and behind each other.
LEMMA UnitsAre == ASSUME NEW c \in Seq(Chars) PROVE UnitsTo(c, Units(c), Len(c))
<1> DEFINE size == Len(c)
           Is(g, i) == i = 1 \/ \E j \in 1 .. i - 1 : g[j] /\ After(c, j) = i
           Marks(g) == g = [i \in 1 .. size |-> Is(g, i)]
           S == {k \in Nat : \E U : UnitsTo(c, U, k)}
<1>1. size \in Nat
  OBVIOUS
<1>2. Units(c) = {i \in 1 .. size : (CHOOSE g : Marks(g))[i]}
  BY DEF Units
<1> HIDE DEF size
<1>3. 0 \in S
  <2>1. UnitsTo(c, {}, 0)
    BY DEF UnitsTo
  <2>2. QED BY <2>1
<1>4. ASSUME NEW k \in Nat, k \in S PROVE k + 1 \in S
  <2>1. PICK U : UnitsTo(c, U, k)
    BY <1>4
  <2> DEFINE next == k + 1 = 1 \/ \E j \in U : After(c, j) = k + 1
             P == IF next THEN U \cup {k + 1} ELSE U
  <2>2. P \subseteq 1 .. k + 1 /\ \A i \in 1 .. k : i \in P <=> i \in U
    BY <2>1 DEF UnitsTo
  <2>3. k + 1 \in P <=> next
    BY <2>1 DEF UnitsTo
  <2> HIDE DEF P
  <2>4. \A i \in 1 .. k + 1 : \A j \in 1 .. k + 1 : j < i => (j \in P <=> j \in U)
    BY <2>2
  <2>5. ASSUME NEW i \in 1 .. k + 1
        PROVE i \in P <=> i = 1 \/ \E j \in P : j < i /\ After(c, j) = i
    <3>1. (\E j \in P : j < i /\ After(c, j) = i) <=> (\E j \in U : j < i /\ After(c, j) = i)
      BY <2>1, <2>2, <2>4 DEF UnitsTo
    <3>2. CASE i = k + 1
      <4>1. \A j \in U : j < i
        BY <2>1, <3>2 DEF UnitsTo
      <4>2. QED BY <2>3, <3>1, <3>2, <4>1
    <3>3. CASE i # k + 1
      <4>1. i \in 1 .. k
        BY <3>3
      <4>2. QED BY <2>1, <2>2, <3>1, <4>1 DEF UnitsTo
    <3>4. QED BY <3>2, <3>3
  <2>6. UnitsTo(c, P, k + 1)
    BY <2>2, <2>5 DEF UnitsTo
  <2>7. QED BY <2>6
<1> HIDE DEF S
<1>5. Nat \subseteq S
  BY <1>3, <1>4, NaturalInduction
<1>6. PICK U : UnitsTo(c, U, size)
  BY <1>1, <1>5 DEF S
<1>7. Marks([i \in 1 .. size |-> i \in U])
  <2> DEFINE g == [i \in 1 .. size |-> i \in U]
  <2>1. ASSUME NEW i \in 1 .. size PROVE (i \in U) = Is(g, i)
    <3>1. \A j \in 1 .. i - 1 : g[j] <=> j \in U
      <4>1. \A j \in 1 .. i - 1 : j \in 1 .. size
        BY <1>1
      <4>2. \A j \in 1 .. size : g[j] <=> j \in U
        OBVIOUS
      <4>3. QED BY <4>1, <4>2
    <3>2. U \subseteq 1 .. size
      BY <1>6 DEF UnitsTo
    <3>3. \A j \in Int : j \in 1 .. i - 1 <=> j \in 1 .. size /\ j < i
      BY <1>1
    <3> HIDE DEF g
    <3>4. (\E j \in 1 .. i - 1 : g[j] /\ After(c, j) = i) <=> (\E j \in U : j < i /\ After(c, j) = i)
      BY <1>1, <3>1, <3>2, <3>3
    <3>5. QED BY <1>6, <3>4 DEF UnitsTo, g
  <2>2. g = [i \in 1 .. size |-> Is(g, i)]
    BY <2>1
  <2>3. QED BY <2>2
<1>8. PICK g : Marks(g) /\ Units(c) = {i \in 1 .. size : g[i]}
  BY <1>2, <1>7
<1>9. \A i \in 1 .. size : g[i] = Is(g, i)
  BY <1>8
<1>10. ASSUME NEW i \in 1 .. size
       PROVE i \in Units(c) <=> i = 1 \/ \E j \in Units(c) : j < i /\ After(c, j) = i
  <2>1. \A j \in Int : j \in 1 .. i - 1 <=> j \in 1 .. size /\ j < i
    BY <1>1
  <2>2. Units(c) = {j \in 1 .. size : g[j]}
    BY <1>8
  <2>3. (\E j \in 1 .. i - 1 : g[j] /\ After(c, j) = i) <=> (\E j \in Units(c) : j < i /\ After(c, j) = i)
    BY <2>1, <2>2
  <2>4. QED BY <1>9, <2>2, <2>3
<1>11. Units(c) \subseteq 1 .. size
  BY <1>8
<1>12. QED BY <1>10, <1>11 DEF UnitsTo, size

\* Units do not overlap.
LEMMA UnitsAreApart ==
  ASSUME NEW c \in Seq(Chars), NEW i \in Units(c), NEW j \in Units(c), j < i
  PROVE After(c, j) <= i
<1> DEFINE U == Units(c)
           S == {n \in Nat : \A p, q \in U : p <= n /\ q < p => After(c, q) <= p}
<1>1. /\ U \subseteq 1 .. Len(c) /\ Len(c) \in Nat
      /\ \A p \in U : p = 1 \/ \E q \in U : q < p /\ After(c, q) = p
  BY UnitsAre DEF UnitsTo
<1> HIDE DEF U
<1>2. \A p \in U : p \in Nat /\ p > 0 /\ After(c, p) \in Nat /\ After(c, p) > p
  <2> SUFFICES ASSUME NEW p \in U PROVE p \in Nat /\ p > 0 /\ After(c, p) \in Nat /\ After(c, p) > p
    OBVIOUS
  <2>1. p \in 1 .. Len(c)
    BY <1>1
  <2>2. After(c, p) \in Nat /\ After(c, p) > p
    BY <2>1, AfterIs
  <2>3. QED BY <2>1, <2>2
<1>3. 0 \in S
  BY <1>2
<1>4. ASSUME NEW n \in Nat, n \in S PROVE n + 1 \in S
  <2> SUFFICES ASSUME NEW p \in U, NEW q \in U, p <= n + 1, q < p PROVE After(c, q) <= p
    OBVIOUS
  <2>1. CASE p <= n
    BY <1>4, <2>1
  <2>2. CASE p = n + 1
    <3>1. p # 1
      BY <1>2
    <3>2. PICK r \in U : r < p /\ After(c, r) = p
      BY <1>1, <3>1
    <3>3. CASE q < r
      <4>1. r <= n
        BY <1>2, <2>2, <3>2
      <4>2. After(c, q) <= r
        BY <1>4, <3>3, <4>1
      <4>3. QED BY <1>2, <3>2, <4>2
    <3>4. CASE r < q
      <4>1. q <= n
        BY <1>2, <2>2
      <4>2. After(c, r) <= q
        BY <1>4, <3>4, <4>1
      <4>3. QED BY <1>2, <3>2, <4>2
    <3>5. CASE q = r
      BY <1>2, <3>2, <3>5
    <3>6. QED BY <1>2, <3>3, <3>4, <3>5
  <2>3. QED BY <1>2, <2>1, <2>2
<1> HIDE DEF S
<1>5. Nat \subseteq S
  BY <1>3, <1>4, NaturalInduction
<1>6. i \in S /\ i \in Nat
  BY <1>2, <1>5 DEF U
<1>7. QED BY <1>6 DEF S, U

ScanOK(s) ==
  /\ s = [f \in {"pieces", "current", "quote", "escaped", "skip"} |-> s[f]]
  /\ s.pieces \in Seq(Seq(Chars)) /\ s.current \in Seq(Chars)
  /\ s.escaped \in BOOLEAN /\ s.skip \in BOOLEAN

Keeps(s, t, ch) == t.pieces = s.pieces /\ t.current = Append(s.current, ch) /\ ~t.skip
Cuts(s, t) ==
  /\ t.pieces = Append(s.pieces, s.current) /\ t.current = <<>>
  /\ t.quote = s.quote /\ t.escaped = s.escaped
Skips(s, t) ==
  /\ t.pieces = s.pieces /\ t.current = s.current
  /\ t.quote = s.quote /\ t.escaped = s.escaped /\ ~t.skip

\* What one character does to the scan.
CharEffect(s, t, ch, next) ==
  /\ ScanOK(t)
  /\ s.skip => Skips(s, t)
  /\ ~s.skip /\ s.escaped => Keeps(s, t, ch) /\ t.quote = s.quote /\ ~t.escaped
  /\ ~s.skip /\ ~s.escaped /\ ch = "backtick" /\ s.quote # "single" =>
       Keeps(s, t, ch) /\ t.quote = s.quote /\ t.escaped
  /\ ~s.skip /\ ~s.escaped /\ s.quote # "" /\ ~(ch = "backtick" /\ s.quote # "single") =>
       Keeps(s, t, ch) /\ t.quote = (IF ch = s.quote THEN "" ELSE s.quote) /\ ~t.escaped
  /\ ~s.skip /\ ~s.escaped /\ s.quote = "" =>
       /\ ch \in Quotes => Keeps(s, t, ch) /\ t.quote = ch /\ ~t.escaped
       /\ ch \in {"&", "|"} /\ next = ch => Cuts(s, t) /\ t.skip
       /\ ch \in {"|", ";"} /\ ~(ch \in {"&", "|"} /\ next = ch) => Cuts(s, t) /\ ~t.skip
       /\ /\ ch \notin Quotes /\ ch # "backtick" /\ ch \notin {"|", ";"}
          /\ ~(ch \in {"&", "|"} /\ next = ch)
          => Keeps(s, t, ch) /\ t.quote = "" /\ ~t.escaped

LEMMA CharScanned ==
  ASSUME NEW s, ScanOK(s), NEW ch \in Chars, NEW next
  PROVE CharEffect(s, ScanChar(s, ch, next), ch, next)
<1> DEFINE more == Append(s.current, ch)
           pieces == Append(s.pieces, s.current)
           kept == [s EXCEPT !.current = more]
           cut == [s EXCEPT !.pieces = pieces, !.current = <<>>]
           q == IF ch = s.quote THEN "" ELSE s.quote
           t == ScanChar(s, ch, next)
           tick == ch = "backtick" /\ s.quote # "single"
           double == ch \in {"&", "|"} /\ next = ch
<1>1. more \in Seq(Chars) /\ pieces \in Seq(Seq(Chars)) /\ <<>> \in Seq(Chars)
  BY DEF ScanOK
<1>2. t = IF s.skip THEN [s EXCEPT !.skip = FALSE]
          ELSE IF s.escaped THEN [kept EXCEPT !.escaped = FALSE]
          ELSE IF tick THEN [kept EXCEPT !.escaped = TRUE]
          ELSE IF s.quote # "" THEN [kept EXCEPT !.quote = q]
          ELSE IF ch \in Quotes THEN [kept EXCEPT !.quote = ch]
          ELSE IF double THEN [cut EXCEPT !.skip = TRUE]
          ELSE IF ch \in {"|", ";"} THEN cut
          ELSE kept
  <2>1. kept.quote = s.quote
    BY DEF ScanOK
  <2> HIDE DEF tick, double
  <2>2. QED BY <2>1 DEF ScanChar, tick, double
<1>3. /\ kept = [f \in {"pieces", "current", "quote", "escaped", "skip"} |-> kept[f]]
      /\ kept.pieces = s.pieces /\ kept.current = more /\ kept.quote = s.quote
      /\ kept.escaped = s.escaped /\ kept.skip = s.skip
  <2> HIDE DEF more
  <2>1. QED BY DEF ScanOK
<1>4. /\ cut = [f \in {"pieces", "current", "quote", "escaped", "skip"} |-> cut[f]]
      /\ cut.pieces = pieces /\ cut.current = <<>> /\ cut.quote = s.quote
      /\ cut.escaped = s.escaped /\ cut.skip = s.skip
  <2> HIDE DEF pieces
  <2>1. QED BY DEF ScanOK
<1>5. /\ s.pieces \in Seq(Seq(Chars)) /\ s.current \in Seq(Chars)
      /\ s.escaped \in BOOLEAN /\ s.skip \in BOOLEAN
  BY DEF ScanOK
<1>6. ch = "backtick" => ch \notin Quotes /\ ch \notin {"|", ";"} /\ ~double
  BY DEF Quotes
<1>7. ch \in Quotes => ch \notin {"|", ";"} /\ ~double
  BY DEF Quotes
<1>q. "single" # ""
  OBVIOUS
<1>8. ASSUME s.skip
      PROVE ScanOK(t) /\ Skips(s, t)
  <2>1. t = [s EXCEPT !.skip = FALSE]
    BY <1>2, <1>8
  <2> HIDE DEF t, tick, double, q
  <2>2. ScanOK(t) /\ Skips(s, t)
    BY <2>1 DEF ScanOK, Skips
  <2>3. QED BY <2>2
<1>9. ASSUME ~s.skip /\ s.escaped
      PROVE ScanOK(t) /\ Keeps(s, t, ch) /\ t.quote = s.quote /\ ~t.escaped
  <2>1. t = [kept EXCEPT !.escaped = FALSE]
    BY <1>2, <1>9
  <2> HIDE DEF t, tick, double, q, kept
  <2>2. ScanOK(t) /\ Keeps(s, t, ch) /\ t.quote = s.quote /\ ~t.escaped
    BY <1>1, <1>3, <1>5, <1>9, <2>1 DEF ScanOK, Keeps
  <2>3. QED BY <2>2
<1>10. ASSUME ~s.skip /\ ~s.escaped /\ tick
       PROVE ScanOK(t) /\ Keeps(s, t, ch) /\ t.quote = s.quote /\ t.escaped
  <2>1. t = [kept EXCEPT !.escaped = TRUE]
    BY <1>2, <1>10
  <2> HIDE DEF t, tick, double, q, kept
  <2>2. ScanOK(t) /\ Keeps(s, t, ch) /\ t.quote = s.quote /\ t.escaped
    BY <1>1, <1>3, <1>5, <1>10, <2>1 DEF ScanOK, Keeps
  <2>3. QED BY <2>2
<1>11. ASSUME ~s.skip /\ ~s.escaped /\ ~tick /\ s.quote # ""
       PROVE ScanOK(t) /\ Keeps(s, t, ch) /\ t.quote = q /\ ~t.escaped
  <2>1. t = [kept EXCEPT !.quote = q]
    BY <1>2, <1>11
  <2> HIDE DEF t, tick, double, q, kept
  <2>2. ScanOK(t) /\ Keeps(s, t, ch) /\ t.quote = q /\ ~t.escaped
    BY <1>1, <1>3, <1>5, <1>11, <2>1 DEF ScanOK, Keeps
  <2>3. QED BY <2>2
<1>12. ASSUME ~s.skip /\ ~s.escaped /\ ~tick /\ s.quote = "" /\ ch \in Quotes
       PROVE ScanOK(t) /\ Keeps(s, t, ch) /\ t.quote = ch /\ ~t.escaped
  <2>1. t = [kept EXCEPT !.quote = ch]
    BY <1>2, <1>12
  <2> HIDE DEF t, tick, double, q, kept
  <2>2. ScanOK(t) /\ Keeps(s, t, ch) /\ t.quote = ch /\ ~t.escaped
    BY <1>1, <1>3, <1>5, <1>12, <2>1 DEF ScanOK, Keeps
  <2>3. QED BY <2>2
<1>13. ASSUME ~s.skip /\ ~s.escaped /\ ~tick /\ s.quote = "" /\ double
       PROVE ScanOK(t) /\ Cuts(s, t) /\ t.skip
  <2>1. t = [cut EXCEPT !.skip = TRUE]
    BY <1>2, <1>7, <1>13
  <2> HIDE DEF t, tick, double, q, cut
  <2>2. ScanOK(t) /\ Cuts(s, t) /\ t.skip
    BY <1>1, <1>4, <1>5, <1>13, <2>1 DEF ScanOK, Cuts
  <2>3. QED BY <2>2
<1>14. ASSUME ~s.skip /\ ~s.escaped /\ ~tick /\ s.quote = "" /\ ~double /\ ch \in {"|", ";"}
       PROVE ScanOK(t) /\ Cuts(s, t) /\ ~t.skip
  <2>1. t = cut
    BY <1>2, <1>7, <1>14
  <2> HIDE DEF t, tick, double, q, cut
  <2>2. ScanOK(t) /\ Cuts(s, t) /\ ~t.skip
    BY <1>1, <1>4, <1>5, <1>14, <2>1 DEF ScanOK, Cuts
  <2>3. QED BY <2>2
<1>15. ASSUME ~s.skip /\ ~s.escaped /\ ~tick /\ s.quote = "" /\ ~double,
              ch \notin {"|", ";"} /\ ch \notin Quotes
       PROVE ScanOK(t) /\ Keeps(s, t, ch) /\ t.quote = "" /\ ~t.escaped
  <2>1. t = kept
    BY <1>2, <1>15
  <2> HIDE DEF t, tick, double, q, kept
  <2>2. ScanOK(t) /\ Keeps(s, t, ch) /\ t.quote = "" /\ ~t.escaped
    BY <1>1, <1>3, <1>5, <1>15, <2>1 DEF ScanOK, Keeps
  <2>3. QED BY <2>2
<1>16. /\ ScanOK(t)
       /\ s.skip => Skips(s, t)
       /\ ~s.skip /\ s.escaped => Keeps(s, t, ch) /\ t.quote = s.quote /\ ~t.escaped
       /\ ~s.skip /\ ~s.escaped /\ tick => Keeps(s, t, ch) /\ t.quote = s.quote /\ t.escaped
       /\ ~s.skip /\ ~s.escaped /\ s.quote # "" /\ ~tick => Keeps(s, t, ch) /\ t.quote = q /\ ~t.escaped
  <2> HIDE DEF t, tick, double, q
  <2>1. QED BY <1>8, <1>9, <1>10, <1>11, <1>12, <1>13, <1>14, <1>15
<1>17. ~s.skip /\ ~s.escaped /\ s.quote = "" =>
         /\ ch \in Quotes => Keeps(s, t, ch) /\ t.quote = ch /\ ~t.escaped
         /\ double => Cuts(s, t) /\ t.skip
         /\ ch \in {"|", ";"} /\ ~double => Cuts(s, t) /\ ~t.skip
         /\ ch \notin Quotes /\ ch # "backtick" /\ ch \notin {"|", ";"} /\ ~double =>
              Keeps(s, t, ch) /\ t.quote = "" /\ ~t.escaped
  <2>1. tick => ch = "backtick"
    OBVIOUS
  <2> HIDE DEF t, tick, double, q
  <2>2. QED BY <1>6, <1>7, <1>12, <1>13, <1>14, <1>15, <2>1
<1>18. CharEffect(s, t, ch, next)
  <2> HIDE DEF t
  <2>1. QED BY <1>16, <1>17 DEF CharEffect
<1>19. QED BY <1>18

Following(c, n) == IF n < Len(c) THEN c[n + 1] ELSE ""

\* t is the scan s after the n-th character.
Stepped(c, s, t, n) == t = ScanChar(s, c[n], Following(c, n))

\* The scan of a line, character by character.
Scanned(c, f) ==
  /\ f[0] = Scan
  /\ \A n \in 1 .. Len(c) : Stepped(c, f[n - 1], f[n], n)

\* There is one scan, whose pieces are the statements.
LEMMA ScanExists ==
  ASSUME NEW c \in Seq(Chars)
  PROVE \E f : /\ Scanned(c, f)
               /\ LET pieces == Append(f[Len(c)].pieces, f[Len(c)].current)
                  IN  Split(c) = {Cleaned(pieces[i]) : i \in DOMAIN pieces} \ {<<>>}
<1> DEFINE size == Len(c)
           Is(g, n) == IF n = 0 THEN Scan ELSE ScanChar(g[n - 1], c[n], IF n < size THEN c[n + 1] ELSE "")
           Marks(g, k) == g = [n \in 0 .. k |-> Is(g, n)]
           S == {k \in Nat : \E g : Marks(g, k)}
           f == CHOOSE g : Marks(g, size)
           Cut(g) == LET pieces == Append(g[size].pieces, g[size].current)
                     IN  {Cleaned(pieces[i]) : i \in DOMAIN pieces} \ {<<>>}
<1>1. Split(c) = Cut(f)
  BY DEF Split
<1>2. size \in Nat
  OBVIOUS
<1> HIDE DEF size, Cut
<1>3. 0 \in S
  <2> DEFINE g == [n \in 0 .. 0 |-> Scan]
  <2>1. Marks(g, 0)
    OBVIOUS
  <2>2. QED BY <2>1
<1>4. ASSUME NEW k \in Nat, k \in S PROVE k + 1 \in S
  <2>1. PICK h : Marks(h, k)
    BY <1>4
  <2> DEFINE last == ScanChar(h[k], c[k + 1], IF k + 1 < size THEN c[(k + 1) + 1] ELSE "")
  <2> HIDE DEF Marks
  <2> DEFINE g == [n \in 0 .. (k + 1) |-> IF n <= k THEN h[n] ELSE last]
  <2>2. \A n \in 0 .. k : h[n] = Is(h, n)
    BY <2>1 DEF Marks
  <2> HIDE DEF last
  <2>3. \A n \in 0 .. (k + 1) : g[n] = IF n <= k THEN h[n] ELSE last
    OBVIOUS
  <2>4. g = [n \in 0 .. (k + 1) |-> g[n]]
    OBVIOUS
  <2> HIDE DEF g
  <2>5. ASSUME NEW n \in 0 .. (k + 1) PROVE g[n] = Is(g, n)
    <3>1. CASE n <= k
      <4>1. n \in 0 .. k /\ (n # 0 => n - 1 \in 0 .. (k + 1) /\ n - 1 <= k)
        BY <3>1
      <4>2. g[n] = h[n] /\ (n # 0 => g[n - 1] = h[n - 1])
        BY <2>3, <3>1, <4>1
      <4>3. QED BY <2>2, <4>1, <4>2
    <3>2. CASE ~(n <= k)
      <4>1. n = k + 1 /\ n # 0 /\ n - 1 = k /\ k \in 0 .. (k + 1) /\ k <= k
        BY <3>2
      <4>2. g[n] = last /\ g[n - 1] = h[k]
        BY <2>3, <3>2, <4>1
      <4>3. QED BY <4>1, <4>2 DEF last
    <3>3. QED BY <3>1, <3>2
  <2> HIDE DEF Is
  <2>6. Marks(g, k + 1)
    BY <2>4, <2>5 DEF Marks
  <2>7. QED BY <2>6
<1>5. size \in S
  <2> HIDE DEF S
  <2>1. QED BY <1>2, <1>3, <1>4, NaturalInduction
<1>6. Marks(f, size)
  <2>1. \E g : Marks(g, size)
    BY <1>5
  <2> HIDE DEF Marks
  <2>2. QED BY <2>1
<1> HIDE DEF f
<1>7. \A n \in 0 .. size : f[n] = Is(f, n)
  <2> HIDE DEF Is
  <2>1. QED BY <1>6
<1>8. f[0] = Scan /\ \A n \in 1 .. size : f[n] = ScanChar(f[n - 1], c[n], IF n < size THEN c[n + 1] ELSE "")
  <2>1. 0 \in 0 .. size /\ \A n \in 1 .. size : n \in 0 .. size /\ n # 0
    BY <1>2
  <2>2. QED BY <1>7, <2>1
<1>9. Scanned(c, f)
  BY <1>8 DEF Scanned, Stepped, Following, size
<1>10. QED BY <1>1, <1>9 DEF size, Cut
\* The places at which a unit may begin, the end of the line included.
Reached(c, i) == i = 1 \/ \E j \in Units(c) : After(c, j) = i

\* A unit begins at every place of the line that is reached, and goes on from there.
LEMMA UnitStarts ==
  ASSUME NEW c \in Seq(Chars)
  PROVE /\ \A i \in 1 .. Len(c) : i \in Units(c) <=> Reached(c, i)
        /\ Units(c) \subseteq 1 .. Len(c)
        /\ \A i \in Units(c) : After(c, i) \in Nat /\ After(c, i) > i
<1>1. /\ Units(c) \subseteq 1 .. Len(c)
      /\ \A i \in 1 .. Len(c) : i \in Units(c) <=> i = 1 \/ \E j \in Units(c) : j < i /\ After(c, j) = i
  BY UnitsAre DEF UnitsTo
<1>2. \A i \in Units(c) : After(c, i) \in Nat /\ After(c, i) > i
  <2> SUFFICES ASSUME NEW i \in Units(c) PROVE After(c, i) \in Nat /\ After(c, i) > i
    OBVIOUS
  <2>1. i \in 1 .. Len(c)
    BY <1>1
  <2>2. QED BY <2>1, AfterIs
<1>3. ASSUME NEW i \in 1 .. Len(c) PROVE i \in Units(c) <=> Reached(c, i)
  BY <1>1, <1>2 DEF Reached
<1>4. QED BY <1>1, <1>2, <1>3

\* The backticks that stand right in front of j in the quotation from i.
Ticks(c, i, j) == {k \in i + 1 .. j - 1 : \A l \in k .. j - 1 : c[l] = "backtick"}

\* A quote ends a quotation if it is the same one and nothing escapes it.
LEMMA QuotationEndsAt ==
  ASSUME NEW c \in Seq(Chars), NEW i \in 1 .. Len(c), NEW j
  PROVE j \in QuoteEnds(c, i) <=>
          /\ j \in i + 1 .. Len(c) /\ c[j] = c[i]
          /\ c[i] = "double" => Cardinality(Ticks(c, i, j)) % 2 = 0
BY DEF QuoteEnds, Ticks

\* One more backtick, or another character that ends their row.
LEMMA TicksGrow ==
  ASSUME NEW c \in Seq(Chars), NEW i \in Nat, NEW k \in Nat, i < k
  PROVE /\ Cardinality(Ticks(c, i, k)) \in Nat
        /\ c[k] = "backtick" => Cardinality(Ticks(c, i, k + 1)) = Cardinality(Ticks(c, i, k)) + 1
        /\ c[k] # "backtick" => Cardinality(Ticks(c, i, k + 1)) = 0
        /\ Cardinality(Ticks(c, i, i + 1)) = 0
<1>1. IsFiniteSet(Ticks(c, i, k))
  <2>1. IsFiniteSet(i + 1 .. k - 1)
    BY FS_Interval
  <2>2. Ticks(c, i, k) \subseteq i + 1 .. k - 1
    BY DEF Ticks
  <2>3. QED BY <2>1, <2>2, FS_Subset
<1>2. k \notin Ticks(c, i, k)
  BY DEF Ticks
<1>3. ASSUME c[k] = "backtick" PROVE Ticks(c, i, k + 1) = Ticks(c, i, k) \cup {k}
  <2>1. ASSUME NEW x PROVE x \in Ticks(c, i, k + 1) <=> x \in Ticks(c, i, k) \/ x = k
    <3>1. x \in Ticks(c, i, k + 1) <=> x \in i + 1 .. k /\ \A l \in x .. k : c[l] = "backtick"
      BY DEF Ticks
    <3>2. x \in Ticks(c, i, k) <=> x \in i + 1 .. k - 1 /\ \A l \in x .. k - 1 : c[l] = "backtick"
      BY DEF Ticks
    <3>3. x \in i + 1 .. k <=> x \in i + 1 .. k - 1 \/ x = k
      OBVIOUS
    <3>4. ASSUME x \in i + 1 .. k PROVE \A l : l \in x .. k <=> l \in x .. k - 1 \/ l = k
      BY <3>4
    <3>5. k .. k = {k}
      OBVIOUS
    <3>6. CASE x = k
      BY <1>3, <3>1, <3>3, <3>5, <3>6
    <3>7. CASE x # k
      BY <1>3, <3>1, <3>2, <3>3, <3>4, <3>7
    <3>8. QED BY <3>6, <3>7
  <2>2. QED BY <2>1
<1>4. ASSUME c[k] # "backtick" PROVE Ticks(c, i, k + 1) = {}
  <2> SUFFICES ASSUME NEW x \in i + 1 .. k, \A l \in x .. k : c[l] = "backtick" PROVE FALSE
    BY DEF Ticks
  <2>1. k \in x .. k
    OBVIOUS
  <2>2. QED BY <1>4, <2>1
<1>5. Ticks(c, i, i + 1) = {}
  BY DEF Ticks
<1>6. Cardinality(Ticks(c, i, k)) \in Nat
  BY <1>1, FS_CardinalityType
<1>7. Cardinality({}) = 0
  BY FS_EmptySet
<1>8. Cardinality(Ticks(c, i, k) \cup {k}) = Cardinality(Ticks(c, i, k)) + 1
  BY <1>1, <1>2, FS_AddElement
<1>9. QED BY <1>3, <1>4, <1>5, <1>6, <1>7, <1>8

\* Where the scan of the first k characters stands: between two units or in one.
Inside(c, s, k, j) ==
  /\ j \in Units(c) /\ j <= k /\ c[j] \in Quotes /\ s.quote = c[j] /\ ~s.skip
  /\ \A e \in QuoteEnds(c, j) : e > k
  /\ s.escaped <=> c[j] = "double" /\ Cardinality(Ticks(c, j, k + 1)) % 2 = 1

Outside(c, s, k) == s.quote = "" /\ ~s.escaped /\ ~s.skip /\ Reached(c, k + 1)
Skipping(c, s, k) == s.quote = "" /\ ~s.escaped /\ s.skip /\ k \in Units(c) /\ Doubled(c, k)
Escaping(c, s, k) == s.quote = "" /\ s.escaped /\ ~s.skip /\ k \in Units(c) /\ c[k] = "backtick"

Phase(c, s, k) ==
  Outside(c, s, k) \/ Skipping(c, s, k) \/ Escaping(c, s, k) \/ \E j \in Units(c) : Inside(c, s, k, j)

\* What the n-th character does: it ends a statement, belongs to one, or is the
\* second half of a separator.
Moves(c, s, t, n) ==
  \/ /\ Cuts(s, t) /\ n \in Separators(c) /\ ~s.skip
     /\ After(c, n) = IF t.skip THEN n + 2 ELSE n + 1
  \/ Keeps(s, t, c[n]) /\ n \notin Separators(c) /\ ~s.skip
  \/ /\ t.pieces = s.pieces /\ t.current = s.current
     /\ n \notin Separators(c) /\ s.skip /\ ~t.skip

\* The next character between two units begins one.
LEMMA OutsideMoves ==
  ASSUME NEW c \in Seq(Chars), NEW k \in Nat, k < Len(c), NEW s, ScanOK(s), Outside(c, s, k),
         NEW t, Stepped(c, s, t, k + 1)
  PROVE Phase(c, t, k + 1) /\ Moves(c, s, t, k + 1)
<1> DEFINE n == k + 1
           next == Following(c, n)
<1>1. n \in 1 .. Len(c) /\ n + 1 = k + 2 /\ c[n] \in Chars /\ n \in Nat
  <2>1. k + 1 \in 1 .. Len(c)
    OBVIOUS
  <2>2. QED BY <2>1
<1>c. CharEffect(s, t, c[n], next)
  <2>1. CharEffect(s, ScanChar(s, c[n], next), c[n], next)
    <3> HIDE DEF n, next
    <3>1. QED BY <1>1, CharScanned
  <2>2. QED BY <2>1 DEF Stepped
<1>2. n \in Units(c)
  BY <1>1, UnitStarts DEF Outside
<1>3. ~s.skip /\ ~s.escaped /\ s.quote = ""
  BY DEF Outside
<1>4. Doubled(c, n) <=> c[n] \in {"&", "|"} /\ next = c[n]
  <2>1. c[n] \in {"&", "|"} => c[n] # ""
    OBVIOUS
  <2>2. QED BY <1>1, <2>1 DEF Doubled, Following
<1> HIDE DEF n, next
<1>5. /\ c[n] = "backtick" => Keeps(s, t, c[n]) /\ t.quote = s.quote /\ t.escaped
      /\ c[n] \in Quotes => Keeps(s, t, c[n]) /\ t.quote = c[n] /\ ~t.escaped
      /\ Doubled(c, n) => Cuts(s, t) /\ t.skip
      /\ c[n] \in {"|", ";"} /\ ~Doubled(c, n) => Cuts(s, t) /\ ~t.skip
      /\ c[n] \notin Quotes /\ c[n] # "backtick" /\ c[n] \notin {"|", ";"} /\ ~Doubled(c, n) =>
           Keeps(s, t, c[n]) /\ t.quote = "" /\ ~t.escaped
  <2>1. s.quote # "single"
    BY <1>3
  <2>2. QED BY <1>c, <1>3, <1>4, <2>1 DEF CharEffect
<1>6. /\ c[n] = "backtick" \/ Doubled(c, n) => After(c, n) = n + 2
      /\ c[n] \notin Quotes /\ c[n] # "backtick" /\ ~Doubled(c, n) => After(c, n) = n + 1
  BY <1>1, AfterIs
<1>7. c[n] \in Quotes => c[n] # "backtick" /\ c[n] \notin {"|", ";", "&"} /\ ~Doubled(c, n)
  BY DEF Quotes, Doubled
<1>8. n \in Separators(c) <=> c[n] \in {"|", ";"} \/ (c[n] = "&" /\ After(c, n) = n + 2)
  BY <1>2 DEF Separators
<1>9. Doubled(c, n) => c[n] \in {"|", "&"}
  BY DEF Doubled
<1>10. CASE c[n] \in Quotes
  <2>1. ASSUME NEW e \in QuoteEnds(c, n) PROVE e > n
    <3>1. e \in n + 1 .. Len(c)
      BY <1>1, QuotationEndsAt
    <3>2. QED BY <1>1, <3>1
  <2>2. Cardinality(Ticks(c, n, n + 1)) = 0
    <3>1. n \in Nat /\ n < n + 1 /\ n + 1 \in Nat
      BY <1>1
    <3>2. QED BY <3>1, TicksGrow
  <2>3. Keeps(s, t, c[n]) /\ t.quote = c[n] /\ ~t.escaped /\ ~t.skip
    BY <1>5, <1>10 DEF Keeps
  <2>4. 0 % 2 = 0
    OBVIOUS
  <2>5. Inside(c, t, n, n)
    BY <1>1, <1>2, <1>10, <2>1, <2>2, <2>3, <2>4 DEF Inside
  <2>6. n \notin Separators(c)
    BY <1>7, <1>8, <1>10
  <2>7. Phase(c, t, n) /\ Moves(c, s, t, n)
    BY <1>2, <1>3, <2>3, <2>5, <2>6 DEF Phase, Moves
  <2>8. QED BY <2>7 DEF n
<1>11. CASE c[n] = "backtick"
  <2>1. Keeps(s, t, c[n]) /\ t.quote = "" /\ t.escaped /\ ~t.skip
    BY <1>3, <1>5, <1>11 DEF Keeps
  <2>2. Escaping(c, t, n)
    BY <1>2, <1>11, <2>1 DEF Escaping
  <2>3. n \notin Separators(c)
    BY <1>8, <1>11
  <2>4. Phase(c, t, n) /\ Moves(c, s, t, n)
    BY <1>3, <2>1, <2>2, <2>3 DEF Phase, Moves
  <2>5. QED BY <2>4 DEF n
<1>12. CASE Doubled(c, n)
  <2>1. Cuts(s, t) /\ t.skip /\ t.quote = "" /\ ~t.escaped
    BY <1>3, <1>5, <1>12 DEF Cuts
  <2>2. After(c, n) = n + 2 /\ n \in Separators(c)
    BY <1>6, <1>8, <1>9, <1>12
  <2>3. Skipping(c, t, n)
    BY <1>2, <1>12, <2>1 DEF Skipping
  <2>4. Phase(c, t, n) /\ Moves(c, s, t, n)
    BY <1>3, <2>1, <2>2, <2>3 DEF Phase, Moves
  <2>5. QED BY <2>4 DEF n
<1>13. CASE c[n] \in {"|", ";"} /\ ~Doubled(c, n)
  <2>1. Cuts(s, t) /\ ~t.skip /\ t.quote = "" /\ ~t.escaped
    BY <1>3, <1>5, <1>13 DEF Cuts
  <2>2. After(c, n) = n + 1 /\ n \in Separators(c)
    BY <1>6, <1>7, <1>8, <1>13
  <2>3. Outside(c, t, n)
    BY <1>2, <2>1, <2>2 DEF Outside, Reached
  <2>4. Phase(c, t, n) /\ Moves(c, s, t, n)
    BY <1>3, <2>1, <2>2, <2>3 DEF Phase, Moves
  <2>5. QED BY <2>4 DEF n
<1>14. CASE c[n] \notin Quotes /\ c[n] # "backtick" /\ c[n] \notin {"|", ";"} /\ ~Doubled(c, n)
  <2>1. Keeps(s, t, c[n]) /\ t.quote = "" /\ ~t.escaped /\ ~t.skip
    BY <1>5, <1>14 DEF Keeps
  <2>2. After(c, n) = n + 1
    BY <1>6, <1>14
  <2>3. n \notin Separators(c)
    <3>1. After(c, n) # n + 2
      BY <1>1, <2>2
    <3>2. QED BY <1>8, <1>14, <3>1
  <2>4. Outside(c, t, n)
    BY <1>2, <2>1, <2>2 DEF Outside, Reached
  <2>5. Phase(c, t, n) /\ Moves(c, s, t, n)
    BY <1>3, <2>1, <2>3, <2>4 DEF Phase, Moves
  <2>6. QED BY <2>5 DEF n
<1>15. QED BY <1>10, <1>11, <1>12, <1>13, <1>14

\* The next character in a unit of two ends it.
LEMMA PairMoves ==
  ASSUME NEW c \in Seq(Chars), NEW k \in Nat, k < Len(c), NEW s, ScanOK(s),
         Skipping(c, s, k) \/ Escaping(c, s, k), NEW t, Stepped(c, s, t, k + 1)
  PROVE Phase(c, t, k + 1) /\ Moves(c, s, t, k + 1)
<1>1. k \in Units(c) /\ k \in 1 .. Len(c) /\ (c[k] = "backtick" \/ Doubled(c, k))
  BY UnitStarts DEF Skipping, Escaping
<1>2. After(c, k) = k + 2
  BY <1>1, AfterIs
<1>3. k + 1 \notin Units(c)
  <2> SUFFICES ASSUME k + 1 \in Units(c) PROVE FALSE
    OBVIOUS
  <2>1. k < k + 1
    OBVIOUS
  <2>2. After(c, k) <= k + 1
    BY <1>1, <2>1, UnitsAreApart
  <2>3. QED BY <1>2, <2>2
<1>4. k + 1 \notin Separators(c)
  BY <1>3 DEF Separators
<1>5. Reached(c, (k + 1) + 1)
  BY <1>1, <1>2 DEF Reached
<1>6. CharEffect(s, t, c[k + 1], Following(c, k + 1))
  <2>1. k + 1 \in 1 .. Len(c)
    OBVIOUS
  <2>2. c[k + 1] \in Chars
    BY <2>1
  <2>3. QED BY <2>2, CharScanned DEF Stepped
<1>7. CASE Skipping(c, s, k)
  <2>1. s.skip /\ s.quote = "" /\ ~s.escaped
    BY <1>7 DEF Skipping
  <2>2. Skips(s, t)
    BY <1>6, <2>1 DEF CharEffect
  <2>3. Outside(c, t, k + 1)
    BY <1>5, <2>1, <2>2 DEF Outside, Skips
  <2>4. QED BY <1>4, <2>1, <2>2, <2>3 DEF Phase, Moves, Skips
<1>8. CASE Escaping(c, s, k)
  <2>1. ~s.skip /\ s.quote = "" /\ s.escaped
    BY <1>8 DEF Escaping
  <2>2. Keeps(s, t, c[k + 1]) /\ t.quote = s.quote /\ ~t.escaped /\ ~t.skip
    BY <1>6, <2>1 DEF CharEffect, Keeps
  <2>3. Outside(c, t, k + 1)
    BY <1>5, <2>1, <2>2 DEF Outside
  <2>4. QED BY <1>4, <2>1, <2>2, <2>3 DEF Phase, Moves
<1>9. QED BY <1>7, <1>8

\* The next character in a quotation belongs to it, and perhaps ends it.
LEMMA InsideMoves ==
  ASSUME NEW c \in Seq(Chars), NEW k \in Nat, k < Len(c), NEW s, ScanOK(s),
         NEW j \in Units(c), Inside(c, s, k, j), NEW t, Stepped(c, s, t, k + 1)
  PROVE Phase(c, t, k + 1) /\ Moves(c, s, t, k + 1)
<1> DEFINE n == k + 1
<1>1. /\ j \in 1 .. Len(c) /\ j <= k /\ c[j] \in Quotes /\ s.quote = c[j] /\ ~s.skip
      /\ \A e \in QuoteEnds(c, j) : e > k
      /\ s.escaped <=> c[j] = "double" /\ Cardinality(Ticks(c, j, n)) % 2 = 1
  BY UnitStarts DEF Inside
<1>2. n \in 1 .. Len(c) /\ n \in Nat /\ j < n /\ c[n] \in Chars /\ n \in j + 1 .. Len(c)
  BY <1>1
<1>3. n \notin Separators(c)
  <2>1. After(c, j) > n
    <3> DEFINE e == Min(QuoteEnds(c, j) \cup {Len(c)})
    <3>1. After(c, j) = e + 1
      BY <1>1, AfterIs
    <3>2. e \in QuoteEnds(c, j) \cup {Len(c)} /\ e \in j .. Len(c)
      BY <1>1, QuotationEnds
    <3> HIDE DEF e
    <3>3. e > k
      BY <1>1, <3>2
    <3>4. QED BY <3>1, <3>2, <3>3
  <2>2. n \notin Units(c)
    <3> SUFFICES ASSUME n \in Units(c) PROVE FALSE
      OBVIOUS
    <3>1. After(c, j) <= n
      BY <1>2, UnitsAreApart
    <3>2. After(c, j) \in Nat
      BY UnitStarts
    <3>3. QED BY <2>1, <3>1, <3>2
  <2>3. QED BY <2>2 DEF Separators
<1>4. n \in QuoteEnds(c, j) <=> c[n] = c[j] /\ (c[j] = "double" => Cardinality(Ticks(c, j, n)) % 2 = 0)
  BY <1>1, <1>2, QuotationEndsAt
<1>5. /\ Cardinality(Ticks(c, j, n)) \in Nat
      /\ c[n] = "backtick" => Cardinality(Ticks(c, j, n + 1)) = Cardinality(Ticks(c, j, n)) + 1
      /\ c[n] # "backtick" => Cardinality(Ticks(c, j, n + 1)) = 0
  BY <1>1, <1>2, TicksGrow
<1>6. c[j] # "" /\ c[j] # "backtick" /\ (c[j] = "single" \/ c[j] = "double")
  BY <1>1 DEF Quotes
<1>c. CharEffect(s, t, c[n], Following(c, n))
  BY <1>2, CharScanned DEF Stepped
<1>7. /\ s.escaped => Keeps(s, t, c[n]) /\ t.quote = c[j] /\ ~t.escaped
      /\ ~s.escaped /\ c[n] = "backtick" /\ c[j] = "double" =>
           Keeps(s, t, c[n]) /\ t.quote = c[j] /\ t.escaped
      /\ ~s.escaped /\ ~(c[n] = "backtick" /\ c[j] = "double") =>
           Keeps(s, t, c[n]) /\ t.quote = (IF c[n] = c[j] THEN "" ELSE c[j]) /\ ~t.escaped
  BY <1>c, <1>1, <1>6 DEF CharEffect
<1> DEFINE p == Cardinality(Ticks(c, j, n))
           q == Cardinality(Ticks(c, j, n + 1))
<1> HIDE DEF n, p, q
<1>8. Keeps(s, t, c[n]) /\ ~t.skip
  BY <1>7 DEF Keeps
<1>9. Moves(c, s, t, n)
  BY <1>1, <1>3, <1>8 DEF Moves
<1>10. p \in Nat /\ (c[n] = "backtick" => q = p + 1) /\ (c[n] # "backtick" => q = 0)
  BY <1>5 DEF p, q
<1>11. s.escaped <=> c[j] = "double" /\ p % 2 = 1
  BY <1>1 DEF p
<1>12. n \in QuoteEnds(c, j) <=> c[n] = c[j] /\ (c[j] = "double" => p % 2 = 0)
  BY <1>4 DEF p
<1>e. (p % 2 = 0 <=> p % 2 # 1) /\ (q = p + 1 => (q % 2 = 1 <=> p % 2 # 1)) /\ 0 % 2 # 1
  BY <1>10
<1>13. CASE n \in QuoteEnds(c, j)
  <2>1. ~s.escaped /\ c[n] = c[j] /\ c[n] # "backtick"
    BY <1>6, <1>e, <1>11, <1>12, <1>13
  <2>2. t.quote = "" /\ ~t.escaped
    BY <1>7, <2>1
  <2>3. After(c, j) = n + 1
    <3> DEFINE e == Min(QuoteEnds(c, j) \cup {Len(c)})
    <3>1. After(c, j) = e + 1
      BY <1>1, AfterIs
    <3>2. e \in QuoteEnds(c, j) \cup {Len(c)} /\ e \in j .. Len(c) /\ e <= n
      BY <1>1, <1>13, QuotationEnds
    <3> HIDE DEF e
    <3>3. e > k
      BY <1>1, <3>2
    <3>4. QED BY <1>1, <3>1, <3>2, <3>3 DEF n
  <2>4. Outside(c, t, n)
    BY <1>8, <2>2, <2>3 DEF Outside, Reached
  <2>5. QED BY <1>9, <2>4 DEF Phase, n
<1>14. CASE n \notin QuoteEnds(c, j)
  <2>1. \A e \in QuoteEnds(c, j) : e > n
    <3> SUFFICES ASSUME NEW e \in QuoteEnds(c, j) PROVE e > n
      OBVIOUS
    <3>1. e \in j + 1 .. Len(c)
      BY <1>1, QuotationEndsAt
    <3>2. e > k /\ e # n
      BY <1>1, <1>14
    <3>3. QED BY <1>1, <3>1, <3>2 DEF n
  <2>2. t.quote = c[j]
    <3>1. ~s.escaped => c[n] # c[j]
      BY <1>e, <1>11, <1>12, <1>14
    <3>2. QED BY <1>7, <3>1
  <2>3. t.escaped <=> c[j] = "double" /\ q % 2 = 1
    <3>1. CASE c[j] = "single"
      BY <1>7, <1>11, <3>1
    <3>2. CASE c[j] = "double" /\ c[n] = "backtick"
      <4>1. q % 2 = 1 <=> p % 2 # 1
        BY <1>10, <1>e, <3>2
      <4>2. QED BY <1>7, <1>11, <3>2, <4>1
    <3>3. CASE c[j] = "double" /\ c[n] # "backtick"
      <4>1. q % 2 # 1
        BY <1>10, <1>e, <3>3
      <4>2. ~t.escaped
        BY <1>7, <3>3
      <4>3. QED BY <4>1, <4>2
    <3>4. QED BY <1>6, <3>1, <3>2, <3>3
  <2>4. Inside(c, t, n, j)
    BY <1>1, <1>2, <1>8, <2>1, <2>2, <2>3 DEF Inside, q
  <2>5. QED BY <1>9, <2>4 DEF Phase, n
<1>15. QED BY <1>13, <1>14

\* The scan follows the units, wherever it stands.
LEMMA PhaseMoves ==
  ASSUME NEW c \in Seq(Chars), NEW k \in Nat, k < Len(c), NEW s, ScanOK(s), Phase(c, s, k),
         NEW t, Stepped(c, s, t, k + 1)
  PROVE ScanOK(t) /\ Phase(c, t, k + 1) /\ Moves(c, s, t, k + 1)
<1>1. ScanOK(t)
  <2>1. k + 1 \in 1 .. Len(c)
    OBVIOUS
  <2>2. c[k + 1] \in Chars
    BY <2>1
  <2>3. QED BY <2>2, CharScanned DEF Stepped, CharEffect
<1>2. CASE Outside(c, s, k)
  BY <1>1, <1>2, OutsideMoves
<1>3. CASE Skipping(c, s, k) \/ Escaping(c, s, k)
  BY <1>1, <1>3, PairMoves
<1>4. CASE \E j \in Units(c) : Inside(c, s, k, j)
  BY <1>1, <1>4, InsideMoves
<1>5. QED BY <1>2, <1>3, <1>4 DEF Phase

\* Where the statements begin that the first k characters show, and end.
Begun(c, k) == {1} \cup {After(c, i) : i \in {n \in Separators(c) : n <= k}}
NextEnd(c, b) == Min({e \in Separators(c) \cup {Len(c) + 1} : e >= b})
Piece(c, b) == SubSeq(c, b, NextEnd(c, b) - 1)
Pieces(c, B) == {Piece(c, b) : b \in B}

PiecesOK(c, s, k) ==
  \E b \in Begun(c, k) :
    /\ \A a \in Begun(c, k) : a <= b
    /\ b \in Nat /\ b > 0 /\ b <= (IF s.skip THEN k + 2 ELSE k + 1)
    /\ s.skip => b = k + 2
    /\ s.current = SubSeq(c, b, k)
    /\ {s.pieces[i] : i \in DOMAIN s.pieces} = Pieces(c, Begun(c, k) \ {b})

\* Separators are units.
LEMMA SeparatorsAre ==
  ASSUME NEW c \in Seq(Chars)
  PROVE /\ Separators(c) \subseteq 1 .. Len(c)
        /\ \A i \in Separators(c) : After(c, i) \in Nat /\ After(c, i) > i
BY UnitStarts DEF Separators

\* The statement from b on ends before the first separator that is not before b.
LEMMA EndOf ==
  ASSUME NEW c \in Seq(Chars), NEW b \in Nat, NEW e \in Separators(c) \cup {Len(c) + 1}, b <= e,
         \A i \in Separators(c) : i < e => i < b
  PROVE NextEnd(c, b) = e
<1> DEFINE T == {x \in Separators(c) \cup {Len(c) + 1} : x >= b}
<1>1. Separators(c) \subseteq 1 .. Len(c) /\ Len(c) \in Nat
  BY SeparatorsAre
<1>2. T \subseteq Nat /\ e \in T
  BY <1>1
<1>3. \A x \in T : x >= e
  BY <1>1
<1> HIDE DEF T
<1>4. Min(T) \in T /\ Min(T) <= e
  BY <1>2, LeastOf
<1>5. Min(T) = e
  <2> DEFINE m == Min(T)
  <2>1. m \in Nat /\ e \in Nat
    BY <1>2, <1>4
  <2>2. m >= e /\ m <= e
    BY <1>3, <1>4
  <2> HIDE DEF m
  <2>3. m = e
    BY <2>1, <2>2
  <2>4. QED BY <2>3 DEF m
<1>6. QED BY <1>5 DEF NextEnd, T

\* No separator of those so far is behind the statement that is being read.
LEMMA LastBegun ==
  ASSUME NEW c \in Seq(Chars), NEW k, NEW b \in Nat, \A a \in Begun(c, k) : a <= b,
         NEW i \in Separators(c), i <= k
  PROVE i < b
<1>1. After(c, i) \in Begun(c, k)
  BY DEF Begun
<1>2. i \in Nat /\ After(c, i) \in Nat /\ After(c, i) > i
  BY SeparatorsAre
<1>3. QED BY <1>1, <1>2

\* A piece with one more character, and one without any.
LEMMA LongerPiece ==
  ASSUME NEW c \in Seq(Chars), NEW b \in Nat, b > 0, NEW k \in Nat, k < Len(c)
  PROVE /\ b <= k + 1 => Append(SubSeq(c, b, k), c[k + 1]) = SubSeq(c, b, k + 1)
        /\ b > k => SubSeq(c, b, k) = <<>>
<1>1. ASSUME b <= k + 1 PROVE Append(SubSeq(c, b, k), c[k + 1]) = SubSeq(c, b, k + 1)
  <2> DEFINE x == Append(SubSeq(c, b, k), c[k + 1])
             y == SubSeq(c, b, k + 1)
  <2>1. /\ SubSeq(c, b, k) \in Seq(Chars) /\ Len(SubSeq(c, b, k)) = k - b + 1
        /\ \A i \in 1 .. k - b + 1 : SubSeq(c, b, k)[i] = c[b + i - 1]
    BY <1>1, SubSeqProperties
  <2>2. /\ y \in Seq(Chars) /\ Len(y) = (k + 1) - b + 1
        /\ \A i \in 1 .. (k + 1) - b + 1 : y[i] = c[b + i - 1]
    BY <1>1, SubSeqProperties
  <2>3. k + 1 \in 1 .. Len(c)
    OBVIOUS
  <2>4. c[k + 1] \in Chars
    BY <2>3
  <2>5. x \in Seq(Chars) /\ Len(x) = k - b + 2
    BY <1>1, <2>1, <2>4
  <2>6. ASSUME NEW i \in 1 .. k - b + 2 PROVE x[i] = y[i]
    <3>1. CASE i = k - b + 2
      <4>1. x[i] = c[k + 1] /\ b + i - 1 = k + 1
        BY <1>1, <2>1, <3>1
      <4>2. QED BY <2>2, <4>1
    <3>2. CASE i \in 1 .. k - b + 1
      <4>1. x[i] = SubSeq(c, b, k)[i]
        BY <1>1, <2>1, <3>2
      <4>2. QED BY <2>1, <2>2, <3>2, <4>1
    <3>3. QED BY <1>1, <3>1, <3>2
  <2> HIDE DEF x, y
  <2>7. Len(x) = Len(y)
    BY <1>1, <2>2, <2>5
  <2>8. x = y
    BY <1>1, <2>2, <2>5, <2>6, <2>7, SeqEqual
  <2>9. QED BY <2>8 DEF x, y
<1>2. ASSUME b > k PROVE SubSeq(c, b, k) = <<>>
  BY <1>2
<1>3. QED BY <1>1, <1>2

\* The pieces so far are the statements that have ended, and what is being read is
\* the beginning of the next one.
LEMMA PiecesMove ==
  ASSUME NEW c \in Seq(Chars), NEW k \in Nat, k < Len(c), NEW s, ScanOK(s), PiecesOK(c, s, k),
         NEW t, Moves(c, s, t, k + 1)
  PROVE PiecesOK(c, t, k + 1)
<1> DEFINE n == k + 1
           B == Begun(c, k)
<1>1. PICK b \in B :
         /\ \A a \in B : a <= b
         /\ b \in Nat /\ b > 0 /\ b <= (IF s.skip THEN k + 2 ELSE k + 1)
         /\ s.skip => b = k + 2
         /\ s.current = SubSeq(c, b, k)
         /\ {s.pieces[i] : i \in DOMAIN s.pieces} = Pieces(c, B \ {b})
  BY DEF PiecesOK
<1>2. n \in 1 .. Len(c) /\ n \in Nat
  OBVIOUS
<1>3. s.pieces \in Seq(Seq(Chars)) /\ s.current \in Seq(Chars)
  BY DEF ScanOK
<1>4. ASSUME n \notin Separators(c) PROVE Begun(c, n) = B
  <2>1. \A i \in Separators(c) : i <= n <=> i <= k
    BY <1>4, SeparatorsAre
  <2>2. QED BY <2>1 DEF Begun
<1>5. CASE Cuts(s, t) /\ n \in Separators(c) /\ ~s.skip /\ After(c, n) = IF t.skip THEN n + 2 ELSE n + 1
  <2> DEFINE e == After(c, n)
  <2>1. e \in Nat /\ e > n /\ e <= (IF t.skip THEN n + 2 ELSE n + 1) /\ (t.skip => e = n + 2)
    BY <1>2, <1>5
  <2>2. Begun(c, n) = B \cup {e}
    <3>1. {i \in Separators(c) : i <= n} = {i \in Separators(c) : i <= k} \cup {n}
      BY <1>5, SeparatorsAre
    <3>2. QED BY <3>1 DEF Begun
  <2> HIDE DEF e
  <2>3. \A a \in B : a <= b /\ a # e
    BY <1>1, <1>5, <2>1
  <2>4. NextEnd(c, b) = n
    <3>1. \A i \in Separators(c) : i < n => i < b
      <4> SUFFICES ASSUME NEW i \in Separators(c), i < n PROVE i < b
        OBVIOUS
      <4>1. i <= k
        BY SeparatorsAre
      <4>2. QED BY <1>1, <4>1, LastBegun
    <3>2. b <= n
      BY <1>1, <1>5
    <3>3. QED BY <1>1, <1>5, <3>1, <3>2, EndOf
  <2>5. Piece(c, b) = s.current
    BY <1>1, <1>2, <2>4 DEF Piece
  <2>6. {t.pieces[i] : i \in DOMAIN t.pieces} = {s.pieces[i] : i \in DOMAIN s.pieces} \cup {s.current}
    <3> DEFINE p == s.pieces
               q == Append(p, s.current)
    <3>1. t.pieces = q
      BY <1>5 DEF Cuts
    <3>2. /\ p \in Seq(Seq(Chars)) /\ Len(p) \in Nat /\ DOMAIN p = 1 .. Len(p) /\ DOMAIN q = 1 .. Len(p) + 1
          /\ q[Len(p) + 1] = s.current
      BY <1>3
    <3>3. \A i \in 1 .. Len(p) : q[i] = p[i]
      BY <1>3
    <3>4. \A i : i \in 1 .. Len(p) + 1 <=> i \in 1 .. Len(p) \/ i = Len(p) + 1
      BY <3>2
    <3> HIDE DEF p, q
    <3>5. {q[i] : i \in DOMAIN q} = {p[i] : i \in DOMAIN p} \cup {s.current}
      BY <3>2, <3>3, <3>4
    <3>6. QED BY <3>1, <3>5 DEF p
  <2>7. Pieces(c, Begun(c, n) \ {e}) = Pieces(c, B \ {b}) \cup {Piece(c, b)}
    <3>1. Begun(c, n) \ {e} = (B \ {b}) \cup {b}
      BY <1>1, <2>2, <2>3
    <3>2. QED BY <3>1 DEF Pieces
  <2>8. t.current = SubSeq(c, e, n)
    <3>1. t.current = <<>>
      BY <1>5 DEF Cuts
    <3>2. SubSeq(c, e, n) = <<>>
      BY <2>1
    <3>3. QED BY <3>1, <3>2
  <2>9. \A a \in Begun(c, n) : a <= e
    <3> SUFFICES ASSUME NEW a \in B PROVE a <= e
      BY <2>1, <2>2
    <3>1. a \in Nat
      BY SeparatorsAre DEF Begun
    <3>2. a <= b /\ b <= n
      BY <1>1, <1>5
    <3>3. QED BY <1>1, <2>1, <3>1, <3>2
  <2>10. e > 0 /\ e \in Begun(c, n)
    BY <2>1, <2>2
  <2>11. {t.pieces[i] : i \in DOMAIN t.pieces} = Pieces(c, Begun(c, n) \ {e})
    BY <1>1, <2>5, <2>6, <2>7
  <2> HIDE DEF n, B
  <2>12. PiecesOK(c, t, n)
    BY <2>1, <2>8, <2>9, <2>10, <2>11 DEF PiecesOK
  <2>13. QED BY <2>12 DEF n
<1>6. CASE Keeps(s, t, c[n]) /\ n \notin Separators(c) /\ ~s.skip
  <2>1. t.pieces = s.pieces /\ t.current = Append(s.current, c[n]) /\ ~t.skip
    BY <1>6 DEF Keeps
  <2>2. b <= n
    BY <1>1, <1>6
  <2>3. t.current = SubSeq(c, b, n)
    BY <1>1, <2>1, <2>2, LongerPiece
  <2>4. b <= n + 1
    BY <1>1, <2>2
  <2> HIDE DEF n, B
  <2>5. Begun(c, n) = B
    BY <1>4, <1>6
  <2>6. PiecesOK(c, t, n)
    BY <1>1, <2>1, <2>3, <2>4, <2>5 DEF PiecesOK
  <2>7. QED BY <2>6 DEF n
<1>7. CASE t.pieces = s.pieces /\ t.current = s.current /\ n \notin Separators(c) /\ s.skip /\ ~t.skip
  <2>1. b = n + 1
    BY <1>1, <1>7
  <2>2. SubSeq(c, b, k) = <<>> /\ SubSeq(c, b, n) = <<>>
    BY <2>1
  <2> HIDE DEF n, B
  <2>3. Begun(c, n) = B
    BY <1>4, <1>7
  <2>4. PiecesOK(c, t, n)
    BY <1>1, <1>2, <1>7, <2>1, <2>2, <2>3 DEF PiecesOK
  <2>5. QED BY <2>4 DEF n
<1>8. QED BY <1>5, <1>6, <1>7 DEF Moves

\* The scan finds the statements that the units make.
LEMMA ScanReaches ==
  ASSUME NEW c \in Seq(Chars), NEW f, Scanned(c, f)
  PROVE ScanOK(f[Len(c)]) /\ Phase(c, f[Len(c)], Len(c)) /\ PiecesOK(c, f[Len(c)], Len(c))
<1> DEFINE Good(k) == ScanOK(f[k]) /\ Phase(c, f[k], k) /\ PiecesOK(c, f[k], k)
           S == {k \in Nat : k <= Len(c) => Good(k)}
<1>1. 0 \in S
  <2>1. f[0] = Scan
    BY DEF Scanned
  <2>2. ScanOK(Scan)
    <3>1. <<>> \in Seq(Chars) /\ <<>> \in Seq(Seq(Chars))
      OBVIOUS
    <3>2. Scan = [x \in {"pieces", "current", "quote", "escaped", "skip"} |-> Scan[x]]
      BY DEF Scan
    <3>3. Scan.pieces = <<>> /\ Scan.current = <<>> /\ ~Scan.escaped /\ ~Scan.skip
          /\ Scan.escaped \in BOOLEAN /\ Scan.skip \in BOOLEAN
      BY DEF Scan
    <3>4. QED BY <3>1, <3>2, <3>3 DEF ScanOK
  <2>3. Outside(c, Scan, 0)
    BY DEF Outside, Scan, Reached
  <2>4. PiecesOK(c, Scan, 0)
    <3>1. Begun(c, 0) = {1}
      BY SeparatorsAre DEF Begun
    <3>2. SubSeq(c, 1, 0) = <<>>
      OBVIOUS
    <3>3. Scan.current = <<>> /\ Scan.pieces = <<>> /\ ~Scan.skip
      BY DEF Scan
    <3>4. {Scan.pieces[i] : i \in DOMAIN Scan.pieces} = Pieces(c, Begun(c, 0) \ {1})
      BY <3>1, <3>3 DEF Pieces
    <3>5. 1 \in Begun(c, 0) /\ \A a \in Begun(c, 0) : a <= 1
      BY <3>1
    <3>6. Scan.current = SubSeq(c, 1, 0)
      BY <3>2, <3>3
    <3> HIDE DEF Good, S
    <3> SUFFICES \E b \in Begun(c, 0) :
                   /\ \A a \in Begun(c, 0) : a <= b
                   /\ b \in Nat /\ b > 0 /\ b <= (IF Scan.skip THEN 0 + 2 ELSE 0 + 1)
                   /\ Scan.skip => b = 0 + 2
                   /\ Scan.current = SubSeq(c, b, 0)
                   /\ {Scan.pieces[i] : i \in DOMAIN Scan.pieces} = Pieces(c, Begun(c, 0) \ {b})
      BY DEF PiecesOK
    <3>7. 1 \in Begun(c, 0)
      BY <3>5
    <3> WITNESS 1 \in Begun(c, 0)
    <3>8. ~Scan.skip
      BY <3>3
    <3>9. 1 <= (IF Scan.skip THEN 0 + 2 ELSE 0 + 1) /\ (Scan.skip => 1 = 0 + 2) /\ 1 \in Nat /\ 1 > 0
      BY <3>8
    <3>10. QED BY <3>4, <3>5, <3>6, <3>9
  <2>5. QED BY <2>1, <2>2, <2>3, <2>4 DEF Phase
<1>2. ASSUME NEW k \in Nat, k \in S PROVE k + 1 \in S
  <2> SUFFICES ASSUME k + 1 <= Len(c) PROVE Good(k + 1)
    OBVIOUS
  <2>1. Good(k) /\ k < Len(c)
    BY <1>2
  <2>2. Stepped(c, f[k], f[k + 1], k + 1)
    <3>1. k + 1 \in 1 .. Len(c) /\ (k + 1) - 1 = k
      BY <2>1
    <3>2. Stepped(c, f[(k + 1) - 1], f[k + 1], k + 1)
      BY <3>1 DEF Scanned
    <3>3. QED BY <3>1, <3>2
  <2>3. ScanOK(f[k + 1]) /\ Phase(c, f[k + 1], k + 1) /\ Moves(c, f[k], f[k + 1], k + 1)
    BY <2>1, <2>2, PhaseMoves
  <2>4. PiecesOK(c, f[k + 1], k + 1)
    BY <2>1, <2>3, PiecesMove
  <2>5. QED BY <2>3, <2>4
<1>3. Nat \subseteq S
  <2> HIDE DEF S
  <2>1. QED BY <1>1, <1>2, NaturalInduction
<1>4. QED BY <1>3

\* What splitStatements returns is what the units say.
LEMMA SplitIsStatements == ASSUME NEW c \in Seq(Chars) PROVE Split(c) = Statements(c)
<1> DEFINE size == Len(c)
           found(x) == Append(x.pieces, x.current)
<1>1. PICK f : /\ Scanned(c, f)
               /\ Split(c) = {Cleaned(found(f[size])[i]) : i \in DOMAIN found(f[size])} \ {<<>>}
  BY ScanExists
<1> DEFINE s == f[size]
           p == s.pieces
           q == found(s)
           B == Begun(c, size)
<1>2. ScanOK(s) /\ Phase(c, s, size) /\ PiecesOK(c, s, size)
  BY <1>1, ScanReaches
<1>3. ~s.skip
  <2>1. ~(size < size)
    OBVIOUS
  <2> HIDE DEF s, size
  <2>2. ~Skipping(c, s, size)
    <3>1. ~Doubled(c, size)
      BY <2>1 DEF Doubled, size
    <3>2. QED BY <3>1 DEF Skipping
  <2>3. QED BY <1>2, <2>2 DEF Phase, Outside, Escaping, Inside
<1> HIDE DEF s
<1>4. PICK b \in B :
         /\ \A a \in B : a <= b
         /\ b \in Nat /\ b > 0 /\ b <= size + 1
         /\ s.current = SubSeq(c, b, size)
         /\ {p[i] : i \in DOMAIN p} = Pieces(c, B \ {b})
  BY <1>2, <1>3 DEF PiecesOK
<1>5. {q[i] : i \in DOMAIN q} = {p[i] : i \in DOMAIN p} \cup {s.current}
  <2>1. p \in Seq(Seq(Chars)) /\ s.current \in Seq(Chars)
    BY <1>2 DEF ScanOK
  <2>2. /\ Len(p) \in Nat /\ DOMAIN p = 1 .. Len(p) /\ DOMAIN q = 1 .. Len(p) + 1
        /\ q[Len(p) + 1] = s.current
    BY <2>1
  <2>3. \A i \in 1 .. Len(p) : q[i] = p[i]
    BY <2>1
  <2>4. \A i : i \in 1 .. Len(p) + 1 <=> i \in 1 .. Len(p) \/ i = Len(p) + 1
    BY <2>2
  <2> HIDE DEF p, q
  <2>5. QED BY <2>2, <2>3, <2>4
<1>6. Piece(c, b) = s.current
  <2>1. \A i \in Separators(c) : i < size + 1 => i < b
    <3> SUFFICES ASSUME NEW i \in Separators(c) PROVE i < b
      OBVIOUS
    <3>1. i <= size
      BY SeparatorsAre
    <3>2. QED BY <1>4, <3>1, LastBegun
  <2>2. NextEnd(c, b) = size + 1
    BY <1>4, <2>1, EndOf
  <2>3. QED BY <1>4, <2>2 DEF Piece
<1>7. {q[i] : i \in DOMAIN q} = Pieces(c, B)
  <2>1. Pieces(c, B) = Pieces(c, B \ {b}) \cup {Piece(c, b)}
    BY <1>4 DEF Pieces
  <2>2. QED BY <1>4, <1>5, <1>6, <2>1
<1>8. Statements(c) = {Cleaned(x) : x \in Pieces(c, B)} \ {<<>>}
  <2>1. B = {1} \cup {After(c, i) : i \in Separators(c)}
    <3>1. \A i \in Separators(c) : i <= size
      BY SeparatorsAre
    <3>2. QED BY <3>1 DEF Begun
  <2>2. Statements(c) = {Cleaned(Piece(c, x)) : x \in B} \ {<<>>}
    BY <2>1 DEF Statements, Piece, NextEnd
  <2>3. {Cleaned(Piece(c, x)) : x \in B} = {Cleaned(x) : x \in Pieces(c, B)}
    BY DEF Pieces
  <2>4. QED BY <2>2, <2>3
<1>9. Split(c) = {Cleaned(q[i]) : i \in DOMAIN q} \ {<<>>}
  BY <1>1 DEF s
<1> HIDE DEF q, B
<1>10. {Cleaned(q[i]) : i \in DOMAIN q} = {Cleaned(x) : x \in {q[i] : i \in DOMAIN q}}
  OBVIOUS
<1>11. QED BY <1>7, <1>8, <1>9, <1>10

\* What the plug has been asked, and where its answer comes from.
GuardInv ==
  /\ guard = [f \in {"line", "effect", "answer", "stored"} |-> guard[f]]
  /\ guard.line \in Seq(Chars)
  /\ guard.effect.tool = "command" =>
       /\ guard.effect \in Commands(guard.line)
       /\ \/ guard.answer = Judge(guard.effect)
          \/ Judge(guard.effect) = "pending" /\ guard.answer \in {"approved", "block"}
  /\ guard.effect.tool # "command" => guard.answer # "pending"

\* The answer to a command is the one that its statements deserve.
LEMMA JudgedCommand ==
  ASSUME NEW c \in Seq(Chars), NEW e \in Commands(c)
  PROVE /\ Judge(e) \in {"allow", "pending", "block"}
        /\ Judge(e) # "block" <=> CommandMayRun(e)
        /\ Judge(e) = "allow" <=> CommandMayRun(e) /\ CommandRunsUnasked(e)
<1>1. e.tool = "command" /\ e.line = c /\ e.key \in BOOLEAN /\ e.inside \in BOOLEAN
  BY DEF Commands
<1> DEFINE R == Split(c)
<1>2. Statements(c) = R
  BY SplitIsStatements
<1> HIDE DEF R
<1> DEFINE some(words) == \E s \in R : Begins(s, words)
           approved == R # {} /\ \A s \in R : Begins(s, Approved)
<1>3. Judge(e) = IF some(Denylist) \/ some(Wrappers) \/ e.key THEN "block"
                 ELSE IF e.approval = "off" THEN "allow"
                 ELSE IF e.approval = "unsafe" /\ approved /\ ~some(Network) /\ e.inside THEN "allow"
                 ELSE "pending"
  BY <1>1 DEF Judge, JudgeCommand, R
<1>4. \A s : Begins(s, Denylist \cup Wrappers) <=> Begins(s, Denylist) \/ Begins(s, Wrappers)
  BY DEF Begins
<1>5. CommandMayRun(e) <=> ~e.key /\ ~some(Denylist) /\ ~some(Wrappers)
  BY <1>1, <1>2, <1>4 DEF CommandMayRun
<1>6. CommandRunsUnasked(e) <=>
        e.approval = "off" \/ (e.approval = "unsafe" /\ e.inside /\ approved /\ ~some(Network))
  BY <1>1, <1>2 DEF CommandRunsUnasked
<1> HIDE DEF some, approved
<1>7. QED BY <1>3, <1>5, <1>6

\* The plug's answer stays the judgement of its effect, or the user's decision.
LEMMA GuardInvHolds == GuardSpec => []GuardInv
<1>1. GuardInit => GuardInv
  BY DEF GuardInit, GuardInv, NoEffect
<1>2. GuardInv /\ [GuardNext]_guard => GuardInv'
  <2> SUFFICES ASSUME GuardInv, [GuardNext]_guard PROVE GuardInv'
    OBVIOUS
  <2>1. CASE Types
    <3>1. PICK ch \in Chars : guard' = [guard EXCEPT !.line = Append(@, ch)]
      BY <2>1 DEF Types
    <3>2. Append(guard.line, ch) \in Seq(Chars)
      BY DEF GuardInv
    <3>3. guard.effect = NoEffect
      BY <2>1 DEF Types
    <3>4. guard.effect.tool # "command" /\ guard.answer # "pending"
      BY <3>3 DEF GuardInv, NoEffect
    <3>5. /\ guard'.line = Append(guard.line, ch) /\ guard'.effect = guard.effect /\ guard'.answer = guard.answer
          /\ guard' = [f \in {"line", "effect", "answer", "stored"} |-> guard'[f]]
      BY <3>1 DEF GuardInv
    <3>6. QED BY <3>2, <3>4, <3>5 DEF GuardInv
  <2>2. CASE Asks
    <3>1. PICK e \in Commands(guard.line) \cup (IF guard.line = <<>> THEN Paths \cup Webs ELSE {}) :
             guard' = [guard EXCEPT !.effect = e, !.answer = Judge(e)]
      BY <2>2 DEF Asks
    <3>2. CASE e \in Commands(guard.line)
      <4>1. e.tool = "command"
        BY <3>2 DEF Commands
      <4>2. QED BY <3>1, <3>2, <4>1 DEF GuardInv
    <3>3. CASE e \in Paths \cup Webs
      <4>1. e.tool # "command" /\ Judge(e) # "pending"
        BY <3>3 DEF Paths, Webs, Judge, JudgePath
      <4>2. QED BY <3>1, <4>1 DEF GuardInv
    <3>4. QED BY <3>1, <3>2, <3>3
  <2>3. CASE Decides
    BY <2>3 DEF Decides, GuardInv
  <2>4. CASE AsksAgain
    <3>1. guard.answer = "pending" /\ guard.effect.tool = "command"
      BY <2>4 DEF AsksAgain, GuardInv
    <3>2. Judge(guard.effect) = "pending"
      BY <3>1 DEF GuardInv
    <3>3. /\ guard'.line = guard.line /\ guard'.effect = guard.effect
          /\ guard' = [f \in {"line", "effect", "answer", "stored"} |-> guard'[f]]
          /\ guard'.answer \in {"approved", "block", Judge(guard.effect)}
      BY <2>4, <3>1 DEF AsksAgain, GuardInv
    <3>4. QED BY <3>1, <3>2, <3>3 DEF GuardInv
  <2>5. CASE UNCHANGED guard
    BY <2>5 DEF GuardInv
  <2>6. QED BY <2>1, <2>2, <2>3, <2>4, <2>5 DEF GuardNext
<1>3. QED BY <1>1, <1>2, PTL DEF GuardSpec

\* The invariant decides.
LEMMA GuardInvImplies == ASSUME GuardInv PROVE GuardsDecide
<1> SUFFICES ASSUME guard.effect.tool = "command"
             PROVE /\ guard.answer \in {"allow", "pending", "approved"} => CommandMayRun(guard.effect)
                   /\ guard.answer = "allow" <=> CommandMayRun(guard.effect) /\ CommandRunsUnasked(guard.effect)
  BY DEF GuardsDecide
<1> DEFINE e == guard.effect
<1>1. guard.line \in Seq(Chars) /\ e \in Commands(guard.line)
  BY DEF GuardInv
<1>2. guard.answer = Judge(e) \/ (Judge(e) = "pending" /\ guard.answer \in {"approved", "block"})
  BY DEF GuardInv
<1> HIDE DEF e
<1>3. /\ Judge(e) \in {"allow", "pending", "block"}
      /\ Judge(e) # "block" <=> CommandMayRun(e)
      /\ Judge(e) = "allow" <=> CommandMayRun(e) /\ CommandRunsUnasked(e)
  BY <1>1, JudgedCommand
<1>4. QED BY <1>2, <1>3 DEF e

\* A command line is judged by the statements that the shell will see, whatever
\* its length and its characters: none that may run has a forbidden one, and none
\* goes unasked but one of approved statements (localguards.ts:131-162, 262-307).
THEOREM GuardsAreRight == GuardSpec => []GuardsDecide
BY GuardInvHolds, GuardInvImplies, PTL
=============================================================================
