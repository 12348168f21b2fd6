---------------------------- MODULE StallWatchdog ----------------------------
(***************************************************************************)
(* The Supervisor's stall watchdog (supervisor/watchdog.ts): from the      *)
(* heartbeats of the Executor and copies of its events it decides when the *)
(* Executor is to be resumed or restarted.                                 *)
(*                                                                         *)
(* A moment is kept as its age in heartbeat intervals, NoTime if there is  *)
(* none.  The watchdog ticks once per interval; its timer may be late, so  *)
(* of an age that equals a limit either may be true.                       *)
(***************************************************************************)
EXTENDS Integers

CONSTANTS
  Stall,    \* stall_timeout_s in heartbeat intervals
  Confirm   \* the intervals an Executor has to confirm a resume

ASSUME WatchdogConstants == Stall \in Nat \ {0} /\ Confirm \in Nat \ {0}

VARIABLE dog

NoTime == -1

NewDog == [active |-> FALSE, phase |-> "idle", since |-> NoTime, sign |-> NoTime,
           resumes |-> 0, waiting |-> NoTime, requested |-> FALSE]

\* onHeartbeat.
OnHeartbeat(beat) ==
  dog' = [dog EXCEPT !.sign = 0, !.active = beat.active, !.phase = beat.phase, !.since = beat.since]

\* onEvent: any event is a sign of life; some say more.  A restarted Executor
\* is a new one.
OnEvent(event) ==
  dog' = CASE event = "user_message"  -> [dog EXCEPT !.sign = 0, !.active = TRUE, !.resumes = 0,
                                                     !.requested = FALSE, !.waiting = NoTime]
           [] event = "turn_finished" -> [dog EXCEPT !.sign = 0, !.active = FALSE, !.waiting = NoTime]
           [] event = "resumed"       -> [dog EXCEPT !.sign = 0, !.waiting = NoTime]
           [] event = "restarted"     -> NewDog

\* One interval passes; ages are told apart up to one more than the limits.
Older(age, limit) == IF age = NoTime \/ age > limit THEN age ELSE age + 1
AgeDog(d) == [d EXCEPT !.since = Older(@, Stall), !.sign = Older(@, Stall), !.waiting = Older(@, Confirm)]

Over(age, limit, late) == age > limit \/ (late /\ age = limit)
Silent(late) == Over(dog.sign, Stall, late)
\* Mutant: any phase that lasts counts as a hung tool.
HungInAnyPhase(late) == Over(dog.since, Stall, late)

Hung(late) == dog.phase = "tool_call" /\ Over(dog.since, Stall, late)
Unconfirmed(late) == Over(dog.waiting, Confirm, late)

\* Mutant: a resume that nobody confirms is waited for.
EscalatesOnlyAgain(late) ==
  ~dog.requested /\ dog.active /\ (Silent(late) \/ Hung(late)) /\ dog.waiting = NoTime /\ dog.resumes >= 1

\* The three outcomes of tick.
Escalates(late) ==
  /\ ~dog.requested
  /\ \/ Unconfirmed(late)
     \/ dog.active /\ (Silent(late) \/ Hung(late)) /\ dog.waiting = NoTime /\ dog.resumes >= 1
Resumes(late) ==
  /\ ~dog.requested /\ dog.active /\ (Silent(late) \/ Hung(late))
  /\ dog.waiting = NoTime /\ dog.resumes = 0
Quiet(late) == ~Escalates(late) /\ ~Resumes(late)

Escalate == dog' = [dog EXCEPT !.requested = TRUE, !.waiting = NoTime]
AskResume(late) ==
  dog' = [dog EXCEPT !.resumes = 1, !.waiting = 0, !.since = IF Hung(late) THEN 0 ELSE @]

=============================================================================
