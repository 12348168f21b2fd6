---------------------------- MODULE SupervisedTurn ----------------------------
(***************************************************************************)
(* An Executor's turn under the eyes of the stall watchdog: the Executor   *)
(* process may freeze, its heartbeats and event copies reach the watchdog, *)
(* a resume reaches the turn, and a restart request makes the Communicator *)
(* kill the process and replay the prompt once (communicator/core.ts).     *)
(*                                                                         *)
(* Time passes in heartbeat intervals.  In each the live Executor beats    *)
(* once and the watchdog ticks once, in either order.  Steps inside a      *)
(* process and deliveries take less than an interval, so one begins only   *)
(* while everything waits: for the model, a tool, the user, or because the *)
(* process is frozen.                                                      *)
(***************************************************************************)
EXTENDS AgentTurn, StallWatchdog

VARIABLE host  \* the process and what is under way to it:
  \* frozen, silent (intervals since it beat), due (timers of this interval), resume (on
  \* its way to the Executor), kill (on its way to the Communicator), replays
  \* (restarts of this turn), freezes (how many are still allowed), orphans (tool
  \* processes that outlived their Executor), excuse (history: something in the
  \* turn the watchdog knows looked like a stall)

supVars == <<agentVars, dog, host>>

SupInit ==
  /\ TurnInit
  /\ dog = NewDog
  /\ host = [frozen |-> FALSE, silent |-> 0, due |-> {"beat", "dog"}, resume |-> FALSE,
             kill |-> FALSE, replays |-> 0, freezes |-> env.freezes,
             orphans |-> {}, excuse |-> FALSE]

\* A new prompt is a new turn for the Communicator.
Executes(step) ==
  /\ ~host.frozen
  /\ step
  /\ host' = IF agent'.turn # agent.turn THEN [host EXCEPT !.replays = 0] ELSE host
  /\ UNCHANGED dog

Lives == Executes(TurnStep)
Decides == Executes(Decision)
Reaps == Executes(Reaping)
UserPrompts == Executes(Prompt("plain"))
UserCancels == Executes(Cancel)

\* The wire to the Supervisor.  For the history a turn begins when the watchdog
\* hears of it; the phase of the last heartbeat stays what it was.
StalePhase == dog.phase = "tool_call" /\ dog.since >= Stall - 1
EventSeen ==
  /\ wire # <<>>
  /\ OnEvent(Head(wire)) /\ wire' = Tail(wire)
  /\ host' = IF Head(wire) = "user_message" THEN [host EXCEPT !.excuse = StalePhase] ELSE host
  /\ UNCHANGED <<agent, messages, mailbox, procs, delivered, cancelled, env>>

\* The heartbeat timer of a process that is not frozen.
Beat ==
  /\ "beat" \in host.due /\ ~host.frozen
  /\ OnHeartbeat([active |-> agent.active, phase |-> agent.phase, since |-> agent.since])
  /\ host' = [host EXCEPT !.due = @ \ {"beat"}, !.silent = 0]
  /\ UNCHANGED agentVars

\* The tick timer of the Supervisor.
DogTick(late) ==
  /\ "dog" \in host.due
  /\ \/ Quiet(late) /\ UNCHANGED dog /\ host' = [host EXCEPT !.due = @ \ {"dog"}]
     \/ Resumes(late) /\ AskResume(late) /\ host' = [host EXCEPT !.due = @ \ {"dog"}, !.resume = TRUE]
     \/ Escalates(late) /\ Escalate /\ host' = [host EXCEPT !.due = @ \ {"dog"}, !.kill = TRUE]
  /\ UNCHANGED agentVars

ResumeArrives ==
  /\ host.resume /\ ~host.frozen
  /\ OnResume
  /\ host' = [host EXCEPT !.resume = FALSE]
  /\ UNCHANGED <<messages, mailbox, delivered, env, dog>>

\* What a restarted Executor reads from the store: the turns that finished, and
\* a result for every call that was requested and has none.
OpenCalls == IF agent.at \in {"request", "allowed", "pending", "spawn", "tool", "result"}
             THEN {Head(agent.batch)} ELSE {}
BeforeTurn ==
  SubSeq(messages, 1, Min({i \in 1..Len(messages) : messages[i] = User(agent.turn)} \cup {Len(messages) + 1}) - 1)
Closed == [role |-> "unknown", ref |-> 0, calls |-> {}]

\* The registry is the Executor's and dies with it.
NewRegistry == [running |-> {}, listed |-> {}, reaping |-> {}]

\* restart_request: the Communicator kills the Executor, which no freeze can
\* prevent.  While a turn runs its prompt is replayed once and then the turn
\* is ended; an idle Executor is just started again.  Nobody asks for the tool
\* processes of the killed one to be reaped: they run on, beside the replay.
Restarted ==
  /\ host.kill
  /\ LET replay == agent.active /\ host.replays = 0
         ms     == BeforeTurn \o [i \in 1..Cardinality(OpenCalls) |-> Closed]
     IN  /\ agent' = IF replay THEN Begun(Fresh, "replay") ELSE Fresh
         /\ messages' = IF agent.active THEN ms ELSE messages
         /\ Emit(IF replay THEN BeginEvents("replay") ELSE <<>>)
         /\ host' = [host EXCEPT !.kill = FALSE, !.resume = FALSE, !.frozen = FALSE, !.silent = 0,
                                 !.replays = IF replay THEN 1 ELSE 0,
                                 !.orphans = @ \cup procs.running]
  /\ procs' = NewRegistry
  /\ mailbox' = {} /\ delivered' = {}
  /\ cancelled' = [turn |-> 0, overruled |-> 0]
  /\ UNCHANGED <<env, dog>>

\* The event loop blocks, for a while or for good.
Freeze ==
  /\ ~host.frozen /\ host.freezes > 0
  /\ host' = [host EXCEPT !.frozen = TRUE, !.freezes = @ - 1]
  /\ UNCHANGED <<agentVars, dog>>
Thaw ==
  /\ host.frozen
  /\ host' = [host EXCEPT !.frozen = FALSE]
  /\ UNCHANGED <<agentVars, dog>>

\* A process exits by itself, whatever its Executor does.
CommandExits ==
  /\ ~host.frozen /\ \E p \in procs.running : ChildExits(p)
  /\ UNCHANGED <<dog, host>>

\* So does one whose Executor is gone.
OrphanExits ==
  /\ \E p \in host.orphans : host' = [host EXCEPT !.orphans = @ \ {p}]
  /\ UNCHANGED <<agentVars, dog>>

\* Everything waits, so an interval can pass.
Waits ==
  /\ wire = <<>> /\ ~host.kill
  /\ \/ host.frozen
     \/ /\ ~host.resume /\ procs.reaping = {} /\ "beat" \notin host.due
        /\ agent.abort # "fired"
        /\ agent.at \in {"idle", "model", "tool", "pending", "continue", "fitCompact", "compact"}
  /\ "dog" \notin host.due

\* What may rightly look like a stall: a missed heartbeat, or the phase of a
\* tool call for almost the time of a stall.
LooksStalled(a, silent) == silent > 1 \/ (a.phase = "tool_call" /\ a.since >= Stall - 1)

IntervalPasses ==
  /\ Waits
  /\ agent' = [agent EXCEPT !.since = Older(@, Stall)]
  /\ dog' = AgeDog(dog)
  /\ host' = [host EXCEPT !.due = {"beat", "dog"}, !.silent = IF @ > 1 THEN @ ELSE @ + 1,
                          !.excuse = @ \/ LooksStalled(agent', host.silent + 1)]
  /\ UNCHANGED <<messages, mailbox, procs, wire, delivered, cancelled, env>>

SupNext ==
  \/ Lives \/ Decides \/ Reaps \/ UserPrompts \/ UserCancels \/ CommandExits \/ OrphanExits
  \/ EventSeen \/ Beat \/ ResumeArrives \/ Restarted
  \/ \E late \in BOOLEAN : DogTick(late)
  \/ Freeze \/ Thaw \/ IntervalPasses

\* Live processes run, messages arrive, time passes and the user decides; a
\* frozen process need not thaw.
SupFairness ==
  /\ WF_supVars(Lives) /\ WF_supVars(Decides) /\ WF_supVars(Reaps)
  /\ WF_supVars(EventSeen) /\ WF_supVars(Beat) /\ WF_supVars(ResumeArrives) /\ WF_supVars(Restarted)
  /\ WF_supVars(\E late \in BOOLEAN : DogTick(late)) /\ WF_supVars(IntervalPasses)

SupSpec == SupInit /\ [][SupNext]_supVars /\ SupFairness

(***************************************************************************)
(* Properties                                                              *)
(***************************************************************************)

\* A turn always ends, although its tool may hang for ever and the process may
\* freeze for ever: the watchdog resumes or restarts it.  A process that froze
\* after it reported the end of the turn is left alone.
\* (watchdog.ts:105-138, agent.ts:601-622, core.ts:368, 492-529)
TurnEnds == agent.active ~> (~agent.active \/ (host.frozen /\ agent.at = "finish"))

\* The watchdog requests a restart only of an Executor that missed a heartbeat,
\* or reported the phase of a tool call for about the time of a stall, in the
\* turn the watchdog heard of last or in the last heartbeat before it; a slow
\* model, a question to the user and a compaction are no stall.  The phase of a
\* tool call also lasts while the user decides about the next effect of the same
\* answer, and a new turn does not clear the one reported last: see the README.
\* (watchdog.ts:49-60, 105-138, agent.ts:168-171, 541-555)
HealthyNotKilled == [][~host.kill /\ host'.kill => host.excuse]_supVars

=============================================================================
