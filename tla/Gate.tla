-------------------------------- MODULE Gate --------------------------------
(***************************************************************************)
(* The gate of one process: the one way to an effect.  execute() (tools)   *)
(* and egress() (model calls, web fetches, child processes, memory writes) *)
(* run concurrently; each suspends while the plug decides, while a pending *)
(* effect waits for a decision and while the effect itself runs.  resolve()*)
(* and halt() arrive as messages between these suspensions.                *)
(*                                                                         *)
(* The plug may answer at once or take its time (Async).  With one that    *)
(* answers at once nothing arrives between question and answer.            *)
(***************************************************************************)
EXTENDS Naturals, FiniteSets

CONSTANTS
  Effect,      \* the descriptors, each with its own effect_id
  Tool,        \* those that go through execute(), the others through egress()
  Async,       \* the plug's request() suspends
  MaxResolves, \* bound: resolve() calls
  MaxHalts     \* bound: halt() calls

ASSUME ToolAssumption  == Tool \subseteq Effect
ASSUME AsyncAssumption == Async \in BOOLEAN
ASSUME BoundAssumption == MaxResolves \in Nat /\ MaxHalts \in Nat

VARIABLES
  pc,        \* where the call for an effect is suspended
  answer,    \* the plug's answer on its way to the call
  halted,    \* _halted
  inFlight,  \* _inFlight: the status of an effect, "none" if it has no entry
  waiting,   \* pendingResolvers: the effects that wait for resolve()
  decision,  \* the plug's storedDecisions
  reported,  \* what the halted events reported, as <<effect, status>> pairs
  started,   \* how often dispatch() was called for an effect
  said,      \* the decision that ended the wait of a pending effect
  resolves, halts   \* calls so far

vars == <<pc, answer, halted, inFlight, waiting, decision, reported, started,
          said, resolves, halts>>

Answer   == {"allow", "block", "pending", "unavailable"}
Decision == {"allow", "deny", "undefined"}
Status   == {"none", "dispatching", "pending"}
\* asked, asked_again: await provider.request(); ended: end_prompt is set
PC       == {"new", "asked", "waiting", "asked_again", "running",
             "done", "blocked", "ended"}
Over     == {"done", "blocked", "ended"}

(* A message is handled only while no call sits on an answer that is       *)
(* already there: those continue before the event loop turns.              *)
BetweenMessages == Async \/ \A f \in Effect : pc[f] \notin {"asked", "asked_again"}

(* LocalGuardsPlug.request: a stored decision for the effect wins and is   *)
(* used up; otherwise the policy decides, which may be any of the four.    *)
Answers(f, d) == IF d[f] = "allow" THEN {"allow"}
                 ELSE IF d[f] = "deny" THEN {"block"} ELSE Answer
UseUp(f, d)   == [d EXCEPT ![f] = "undefined"]

Ask(f, d, to) ==
  /\ \E a \in Answers(f, d) : answer' = [answer EXCEPT ![f] = a]
  /\ decision' = UseUp(f, d)
  /\ pc' = [pc EXCEPT ![f] = to]

(* The call returns without an effect, or after it.                        *)
Leave(f, how) ==
  /\ pc' = [pc EXCEPT ![f] = how]
  /\ inFlight' = [inFlight EXCEPT ![f] = "none"]

-----------------------------------------------------------------------------
(* Mutants: not recorded before the question; no look at _halted.          *)
CallUnrecorded(f) ==
  /\ BetweenMessages /\ pc[f] = "new"
  /\ IF halted THEN pc' = [pc EXCEPT ![f] = "ended"] /\ UNCHANGED <<answer, decision>>
               ELSE Ask(f, decision, "asked")
  /\ UNCHANGED <<inFlight, halted, waiting, reported, started, said, resolves, halts>>

CallAlthoughHalted(f) ==
  /\ BetweenMessages /\ pc[f] = "new"
  /\ inFlight' = [inFlight EXCEPT ![f] = "dispatching"]
  /\ Ask(f, decision, "asked")
  /\ UNCHANGED <<halted, waiting, reported, started, said, resolves, halts>>

(* execute(f), egress(f) up to the question to the plug.                   *)
Call(f) ==
  /\ BetweenMessages /\ pc[f] = "new"
  /\ IF halted
       THEN /\ pc' = [pc EXCEPT ![f] = "ended"]
            /\ UNCHANGED <<answer, decision, inFlight>>
       ELSE /\ inFlight' = [inFlight EXCEPT ![f] = "dispatching"]
            /\ Ask(f, decision, "asked")
  /\ UNCHANGED <<halted, waiting, reported, started, said, resolves, halts>>

(* allow: the descriptor is compared with its frozen hash, then dispatched.*)
Dispatch(f) ==
  /\ pc' = [pc EXCEPT ![f] = "running"]
  /\ started' = [started EXCEPT ![f] = @ + 1]

Allowed(f) ==
  /\ pc[f] = "asked" /\ answer[f] = "allow"
  /\ \/ /\ Dispatch(f)
        /\ inFlight' = IF f \in Tool THEN [inFlight EXCEPT ![f] = "dispatching"]
                                     ELSE inFlight
     \/ Leave(f, "blocked") /\ UNCHANGED started   \* it was changed meanwhile
  /\ UNCHANGED <<answer, halted, waiting, decision, reported, said, resolves,
                 halts>>

Blocked(f) ==
  /\ pc[f] \in {"asked", "asked_again"} /\ answer[f] = "block"
  /\ Leave(f, "blocked")
  /\ UNCHANGED <<answer, halted, waiting, decision, reported, started, said,
                 resolves, halts>>

(* unavailable; after a resolve also a second pending.                     *)
Unavailable(f) ==
  /\ \/ pc[f] \in {"asked", "asked_again"} /\ answer[f] = "unavailable"
     \/ pc[f] = "asked_again" /\ answer[f] = "pending"
  /\ Leave(f, "ended")
  /\ UNCHANGED <<answer, halted, waiting, decision, reported, started, said,
                 resolves, halts>>

(* Mutant: waitForResolve registers the call on a halted gate.             *)
PendingAlthoughHalted(f) ==
  /\ pc[f] = "asked" /\ answer[f] = "pending"
  /\ pc' = [pc EXCEPT ![f] = "waiting"]
  /\ inFlight' = [inFlight EXCEPT ![f] = "pending"]
  /\ waiting' = waiting \cup {f}
  /\ UNCHANGED <<answer, halted, decision, reported, started, said, resolves,
                 halts>>

(* pending: the user is asked and the call waits, not when already halted. *)
Pending(f) ==
  /\ pc[f] = "asked" /\ answer[f] = "pending"
  /\ IF halted
       THEN Leave(f, "ended") /\ UNCHANGED waiting
       ELSE /\ pc' = [pc EXCEPT ![f] = "waiting"]
            /\ inFlight' = [inFlight EXCEPT ![f] = "pending"]
            /\ waiting' = waiting \cup {f}
  /\ UNCHANGED <<answer, halted, decision, reported, started, said, resolves,
                 halts>>

AllowedAgain(f) ==
  /\ pc[f] = "asked_again" /\ answer[f] = "allow"
  /\ \/ Dispatch(f) /\ UNCHANGED inFlight
     \/ Leave(f, "blocked") /\ UNCHANGED started
  /\ UNCHANGED <<answer, halted, waiting, decision, reported, said, resolves,
                 halts>>

(* dispatch() settles, whatever its outcome.                               *)
Return(f) ==
  /\ BetweenMessages /\ pc[f] = "running"
  /\ Leave(f, "done")
  /\ UNCHANGED <<answer, halted, waiting, decision, reported, started, said,
                 resolves, halts>>

-----------------------------------------------------------------------------
(* resolve(f, d): the plug learns the decision; the call that waits wakes  *)
(* up and asks the plug again before the next message.  It may come for an *)
(* effect that waits no more: the same question answered twice, or late.   *)

(* Mutant: the plug forgets the decision.                                  *)
Forgotten(d, f, new) == d
Known(d, f, new) == IF new = "undefined" THEN d ELSE [d EXCEPT ![f] = new]

(* Mutant: the waiter is not deleted, so a second decision wakes it again. *)
ResolveKeepsWaiter(f, d) ==
  /\ BetweenMessages /\ pc[f] \notin {"new", "asked"}
  /\ resolves < MaxResolves
  /\ resolves' = resolves + 1
  /\ IF f \in waiting
       THEN /\ said' = [said EXCEPT ![f] = d]
            /\ Ask(f, Known(decision, f, d), "asked_again")
       ELSE decision' = Known(decision, f, d) /\ UNCHANGED <<said, answer, pc>>
  /\ UNCHANGED <<waiting, halted, inFlight, reported, started, halts>>

Resolve(f, d) ==
  /\ BetweenMessages /\ pc[f] \notin {"new", "asked"}
  /\ resolves < MaxResolves
  /\ resolves' = resolves + 1
  /\ IF f \in waiting
       THEN /\ waiting' = waiting \ {f}
            /\ said' = [said EXCEPT ![f] = d]
            /\ Ask(f, Known(decision, f, d), "asked_again")
       ELSE /\ decision' = Known(decision, f, d)
            /\ UNCHANGED <<waiting, said, answer, pc>>
  /\ UNCHANGED <<halted, inFlight, reported, started, halts>>

(* halt(), then collectInFlight() for the halted event, in one handler; the*)
(* calls that waited wake up after it and end.                             *)
Entries == {<<f, inFlight[f]>> : f \in {g \in Effect : inFlight[g] # "none"}}

(* Mutant: the calls that wait are not woken.                              *)
HaltWakesNobody ==
  /\ BetweenMessages
  /\ halts < MaxHalts
  /\ halts' = halts + 1
  /\ halted' = TRUE
  /\ reported' = reported \cup Entries
  /\ inFlight' = [f \in Effect |-> "none"]
  /\ UNCHANGED <<pc, waiting, answer, decision, started, said, resolves>>

Halt ==
  /\ BetweenMessages
  /\ halts < MaxHalts
  /\ halts' = halts + 1
  /\ halted' = TRUE
  /\ reported' = reported \cup Entries
  /\ inFlight' = [f \in Effect |-> "none"]
  /\ pc' = [f \in Effect |-> IF f \in waiting THEN "ended" ELSE pc[f]]
  /\ waiting' = {}
  /\ UNCHANGED <<answer, decision, started, said, resolves>>

-----------------------------------------------------------------------------
Init ==
  /\ pc = [f \in Effect |-> "new"]
  /\ answer = [f \in Effect |-> "unavailable"]
  /\ halted = FALSE
  /\ inFlight = [f \in Effect |-> "none"]
  /\ waiting = {}
  /\ decision = [f \in Effect |-> "undefined"]
  /\ reported = {}
  /\ started = [f \in Effect |-> 0]
  /\ said = [f \in Effect |-> "undefined"]
  /\ resolves = 0 /\ halts = 0

(* What follows without anybody outside: the plug answers, effects settle. *)
Continue(f) == \/ Allowed(f) \/ Blocked(f) \/ Unavailable(f) \/ Pending(f)
               \/ AllowedAgain(f) \/ Return(f)

Next == \/ Halt
        \/ \E f \in Effect : \/ Call(f) \/ Continue(f)
                             \/ \E d \in Decision : Resolve(f, d)

Spec == Init /\ [][Next]_vars

(* The plug's promises resolve and an effect that was started settles.     *)
FairSpec == Spec /\ \A f \in Effect : WF_vars(Continue(f))

-----------------------------------------------------------------------------
TypeOK ==
  /\ pc \in [Effect -> PC]
  /\ answer \in [Effect -> Answer]
  /\ halted \in BOOLEAN
  /\ inFlight \in [Effect -> Status]
  /\ waiting \subseteq Effect
  /\ decision \in [Effect -> Decision]
  /\ reported \subseteq Effect \X {"dispatching", "pending"}
  /\ started \in [Effect -> Nat]
  /\ said \in [Effect -> Decision]
  /\ resolves \in Nat /\ halts \in Nat

(* Single dispatch (README): one answered descriptor, at most one dispatch,*)
(* with decisions that come twice or late and with halts in between.       *)
SingleDispatch == \A f \in Effect : started[f] <= 1

(* A denied effect never runs: the decision is kept for the effect it      *)
(* answers until the plug is asked again, whatever else is resolved.       *)
DeniedNeverStarts == \A f \in Effect : said[f] = "deny" => started[f] = 0

(* The halted event leaves nothing out: an effect that is still on its way *)
(* after the halt, and may even start, was reported by it.                 *)
HaltReportsAll ==
  halted => \A f \in Effect :
              pc[f] \in {"asked", "asked_again", "running"}
                => \E s \in Status : <<f, s>> \in reported

(* A waiting call is registered, so that resolve() and halt() find it, and *)
(* no call waits on a halted gate.                                         *)
NoLostWaiter ==
  \A f \in Effect : pc[f] = "waiting" <=> f \in waiting /\ ~halted

(* A halt ends every call: none stays suspended in the gate.               *)
HaltReleases ==
  halted ~> \A f \in Effect : pc[f] \in Over \cup {"new"}

(* The statuses of the halted event are true: an effect reported as        *)
(* pending has not been dispatched.                                        *)
PendingIsNotRunning ==
  \A f \in Effect : <<f, "pending">> \in reported => started[f] = 0

-----------------------------------------------------------------------------
(* The gate implements the life cycle.                                     *)
stageOf == [f \in Effect |->
  CASE pc[f] = "asked" -> "requested"
    [] pc[f] = "waiting" -> "held"
    [] pc[f] = "asked_again" -> "released"
    [] pc[f] \in Over -> "over"
    [] OTHER -> pc[f]]

L == INSTANCE EffectLifecycle WITH stage <- stageOf, stopped <- halted
Implements == L!Spec
=============================================================================
