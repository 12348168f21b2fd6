------------------------------- MODULE Reviews -------------------------------
(***************************************************************************)
(* The Supervisor's reviews (supervisor/review.ts, supervisor/core.ts):    *)
(* the triggers that copies of the Executor's events and its heartbeats    *)
(* fire, the reviewer that runs one review at a time and hands on what was *)
(* fired meanwhile, the re-seed of the counts from a resumed session, and  *)
(* the shutdown.                                                           *)
(*                                                                         *)
(* A review is the set of its reasons; what it says is left out.           *)
(***************************************************************************)
EXTENDS Integers, Sequences, FiniteSets

CONSTANTS
  ReviewEveryCalls, \* supervisor.review_every_calls
  StreakLength,     \* errors in a row that fire a trigger (3)
  SameEdits,        \* edits of one file in a turn that fire a trigger (3)
  MaxReviewEvents   \* bound: events the Supervisor sees

ASSUME ReviewBounds == {ReviewEveryCalls, StreakLength, SameEdits, MaxReviewEvents} \subseteq Nat \ {0}

VARIABLES
  triggers, \* ReviewTriggers: the calls of the turn and the counts
  reviewer, \* Reviewer: what is under review and what waits for the next one
  seed,     \* the re-seed: calls since the last note in the session file
  seen      \* events so far (bound)

reviewVars == <<triggers, reviewer, seed, seen>>

Reasons == {"every_n_calls", "error_streak", "repeated_edit", "cost_spike"}
Targets == {"file", "other", "none"}  \* file of an edit; none: not an edit

ReviewInit ==
  /\ triggers = [calls |-> <<>>, since |-> 0, streak |-> 0, alerted |-> FALSE]
  /\ reviewer = [running |-> {}, asked |-> FALSE, pending |-> {}, stopped |-> FALSE]
  /\ seed \in [done : {FALSE}, since : 0 .. ReviewEveryCalls - 1]
  /\ seen = 0

(***************************************************************************)
(* The reviewer.                                                           *)
(***************************************************************************)
\* A review starts: before the re-seed is over it does nothing at all.
Starts(r, reasons) == [r EXCEPT !.running = reasons, !.asked = seed.done, !.pending = {}]

\* schedule, once for every reason of an event, in order.
Scheduled(r, reasons) ==
  IF r.stopped \/ reasons = <<>> THEN r
  ELSE LET all == {reasons[i] : i \in DOMAIN reasons}
       IN  IF r.running # {} THEN [r EXCEPT !.pending = @ \cup all]
           ELSE [Starts(r, {Head(reasons)}) EXCEPT !.pending = all \ {Head(reasons)}]

\* Mutant: drain reviews once and leaves the rest to the next trigger.
DrainedOnce(r) == [r EXCEPT !.running = {}, !.asked = FALSE]

\* drain goes on while there is something pending.
Drained(r) ==
  IF r.pending # {} /\ ~r.stopped THEN Starts(r, r.pending)
  ELSE [r EXCEPT !.running = {}, !.asked = FALSE]

\* A review that asks the model waits for it, one that does not is over
\* before anything else happens.
Quiet == reviewer.running # {} => reviewer.asked

\* The review ends, with a note that is injected, without one, or failing.
ReviewEnds ==
  /\ reviewer.running # {}
  /\ reviewer' = Drained(reviewer)
  /\ UNCHANGED <<triggers, seed, seen>>

(***************************************************************************)
(* The triggers.                                                           *)
(***************************************************************************)
Sees(t, reasons) ==
  /\ Quiet /\ seen < MaxReviewEvents
  /\ seen' = seen + 1
  /\ triggers' = t
  /\ reviewer' = Scheduled(reviewer, reasons)
  /\ UNCHANGED seed

If(condition, reason) == IF condition THEN <<reason>> ELSE <<>>

\* user_message: a new turn.
NewTurn == Sees([triggers EXCEPT !.calls = <<>>, !.streak = 0, !.alerted = FALSE], <<>>)

OpenCall == triggers.calls # <<>> /\ triggers.calls[Len(triggers.calls)].status = "pending"

\* tool_call_requested.
CallRequested ==
  /\ ~OpenCall
  /\ \E target \in Targets :
       LET calls == Append(triggers.calls, [target |-> target, status |-> "pending"])
           every == triggers.since + 1 >= ReviewEveryCalls
           same == Cardinality({i \in DOMAIN calls : calls[i].target = target})
       IN  Sees([triggers EXCEPT !.calls = calls, !.since = IF every THEN 0 ELSE @ + 1],
                If(every, "every_n_calls") \o If(target # "none" /\ same = SameEdits, "repeated_edit"))

\* tool_call_finished.
CallFinished ==
  /\ OpenCall
  /\ \E status \in {"ok", "error"} :
       LET streak == IF status = "error" THEN triggers.streak + 1 ELSE 0
       IN  Sees([triggers EXCEPT !.calls[Len(triggers.calls)].status = status, !.streak = streak],
                If(streak = StreakLength, "error_streak"))

\* A heartbeat or the end of the turn shows a cost above the alert: once a turn.
CostSpike ==
  /\ ~triggers.alerted
  /\ Sees([triggers EXCEPT !.alerted = TRUE], <<"cost_spike">>)

Seeded(t) == [t EXCEPT !.since = seed.since]

\* The re-seed ends, or cannot read the file and leaves the counts alone.
Reseeded ==
  /\ Quiet /\ ~seed.done
  /\ seed' = [seed EXCEPT !.done = TRUE]
  /\ \/ triggers' = Seeded(triggers)
     \/ UNCHANGED triggers
  /\ UNCHANGED <<reviewer, seen>>

Stopped(r) == [r EXCEPT !.stopped = TRUE, !.pending = {}]

\* onShutdown: what runs may go on for a while, nothing new starts.
OnShutdown ==
  /\ Quiet /\ ~reviewer.stopped
  /\ reviewer' = Stopped(reviewer)
  /\ UNCHANGED <<triggers, seed, seen>>

ReviewNext ==
  ReviewEnds \/ NewTurn \/ CallRequested \/ CallFinished \/ CostSpike \/ Reseeded \/ OnShutdown

(***************************************************************************)
(* Properties.                                                             *)
(***************************************************************************)

\* What fires while a review runs is never lost: it waits as long as a review
\* runs that will be followed by its own, until that asks the model about it or
\* the Supervisor stops.  Only before the re-seed nothing is asked
\* (review.ts:198-221, supervisor/core.ts:172-195).
TriggerIsReviewed ==
  [][\A r \in reviewer.pending :
       \/ r \in reviewer'.pending /\ reviewer'.running # {}
       \/ r \in reviewer'.running /\ (seed.done => reviewer'.asked)
       \/ reviewer'.stopped]_reviewVars
=============================================================================
