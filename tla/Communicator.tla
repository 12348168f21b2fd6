---------------------------- MODULE Communicator ----------------------------
(***************************************************************************)
(* The Communicator process and the Executor processes it spawns, one per  *)
(* epoch, joined by one IPC pipe in each direction.                        *)
(*                                                                         *)
(* The Communicator owns the turn, the restart budget, the session store   *)
(* (the JSONL file) and the one-slot input queue of the console that runs  *)
(* inside it.  An Executor owns its part of the turn: it writes a line     *)
(* ahead of every effect and waits for the acknowledgement.  A process may *)
(* exit at any point, a prompt, a cancel or a halt may be typed at any     *)
(* point, and each timeout may fire.                                       *)
(*                                                                         *)
(* The Supervisor appears only as one more cause of an exit                *)
(* (restart_request kills the Executor).                                   *)
(***************************************************************************)
EXTENDS Naturals, Sequences, FiniteSets

CONSTANTS
  Prompt,      \* the texts the user may type, each at most once
  None,        \* no prompt, no call
  PerTurnMax,  \* ipc.restart_budget
  IdleMax,     \* RestartBudget.idleMax: respawns of an idle Executor
  MaxEpoch,    \* bound: Executors ever spawned
  MaxCalls,    \* bound: tool calls the model ever asks for
  MaxExits,    \* bound: faults that end an Executor or its start
  MaxHalts,    \* bound: /halt commands
  MaxCancels,  \* bound: Ctrl+C during a turn
  MaxInputs,   \* bound: such faults and typed prompts together
  MaxEvents,   \* bound: those, halts and cancels together
  Faults       \* the environment steps a configuration allows

FaultKind ==
  { "provider_error",    \* the model call fails after its retries
    "append_fail",       \* the session store cannot be written
    "start_exit",        \* an Executor dies before its session is open
    "start_timeout",     \* hello or the session_open ack comes too late
    "start_submit" }     \* the user types while an Executor is starting

ASSUME PromptAssumption == None \notin Prompt /\ None \notin Nat
ASSUME BudgetAssumption == PerTurnMax \in Nat /\ IdleMax \in Nat
ASSUME BoundAssumption ==
  /\ MaxEpoch \in Nat \ {0} /\ MaxCalls \in Nat /\ MaxExits \in Nat
  /\ MaxHalts \in Nat /\ MaxCancels \in Nat
  \* each fault and each prompt spawns at most one Executor
  /\ MaxInputs \in Nat /\ MaxEpoch > MaxInputs /\ MaxEvents \in Nat
ASSUME FaultAssumption == Faults \subseteq FaultKind

Epoch == 1 .. MaxEpoch
Call  == 1 .. MaxCalls

VARIABLES
  comm,    \* the Communicator process and what it wrote to each Executor
  exec,    \* exec[e]: the Executor process of epoch e
  toComm,  \* toComm[e]: the pipe from Executor e to the Communicator
  acked,   \* acked[e]: the line Executor e waits for was acknowledged
  store,   \* the session store: the lines that are on disk, in order
  env      \* what the environment did so far, and what became of it

vars == <<comm, exec, toComm, acked, store, env>>

-----------------------------------------------------------------------------
(* Messages and lines.  An acknowledgement resolves its waiter as soon as  *)
(* it is dispatched, ahead of the inbound queue, and an Executor waits for *)
(* one line at a time: it is the flag acked[e] and no message.  Lines that *)
(* nobody waits for are acknowledged too; such an ack is ignored.          *)

PromptMsg(p, note) == [type |-> "prompt", prompt |-> p, note |-> note]
Signal(t)          == [type |-> t]
AnswerMsg(c)       == [type |-> "answer", call |-> c]
AskMsg(c)          == [type |-> "ask_user", call |-> c]
Line(k, p, c)      == [kind |-> k, prompt |-> p, call |-> c]
EventMsg(line, w)  == [type |-> "event", line |-> line, wait |-> w]

-----------------------------------------------------------------------------
(* The handlers of the Communicator as functions on its state, so that one *)
(* can call another: each returns the state after the call.                *)

SendTo(c, e, m) == [c EXCEPT !.pipe[e] = Append(@, m)]
SendLive(c, m)  == IF c.live = 0 THEN c ELSE SendTo(c, c.live, m)
LiveReady(c) == c.live # 0 /\ c.child[c.live] \in {"open", "up"}

StartTurn(c, p) ==
  [c EXCEPT !.turn = "running", !.prompt = p, !.used = 0, !.idleExits = 0]
EndTurn(c)      == [c EXCEPT !.turn = "idle", !.prompt = None]
WaitForAnswer(c) == IF c.turn = "idle" THEN c ELSE [c EXCEPT !.turn = "waiting"]
Answered(c)      == IF c.turn = "waiting" THEN [c EXCEPT !.turn = "running"] ELSE c

SendPrompt(c, p, note) == SendLive(c, PromptMsg(p, note))

(* spawnAndHello: a new epoch, live at once, ready only after its hello.   *)
(* after is what the respawn does once the session is open.                *)
SpawnAndHello(c, after) ==
  LET e == c.epoch + 1
  IN [c EXCEPT !.epoch = e, !.live = e, !.child[e] = "hello", !.after[e] = after]

NoPrompt == [prompt |-> None, note |-> FALSE]
Respawn(c, after) == IF c.shutting # "no" THEN c ELSE SpawnAndHello(c, after)

(* Mutant: the halted run is not refused.                                  *)
SubmitAlthoughHalted(c, p) ==
  LET d == StartTurn(c, p)
  IN IF d.stopped \/ ~LiveReady(d)
       THEN Respawn([d EXCEPT !.stopped = FALSE], [prompt |-> p, note |-> FALSE])
       ELSE SendPrompt(d, p, FALSE)

SubmitPrompt(c, p) ==
  IF c.halted THEN c
  ELSE LET d == StartTurn(c, p)
       IN IF d.stopped \/ ~LiveReady(d)
            THEN Respawn([d EXCEPT !.stopped = FALSE],
                         [prompt |-> p, note |-> FALSE])
            ELSE SendPrompt(d, p, FALSE)

(* hooks.onTurnEnd: the console submits the line that waits in its slot.   *)
OnTurnEnd(c) ==
  IF c.slot = None \/ c.shutting # "no" THEN [c EXCEPT !.slot = None]
  ELSE SubmitPrompt([c EXCEPT !.slot = None], c.slot)

(* Mutants: one restart too many; no onTurnEnd when the budget is used up; *)
(* the turn stays open then; a fresh Executor at once then.                *)
DecideOffByOne(c) ==
  IF c.turn # "idle" /\ c.used <= PerTurnMax
  THEN Respawn([c EXCEPT !.used = @ + 1], [prompt |-> c.prompt, note |-> TRUE])
  ELSE OnTurnEnd([EndTurn(c) EXCEPT !.stopped = TRUE])

DecideSilently(c) ==
  IF c.turn # "idle" /\ c.used < PerTurnMax
  THEN Respawn([c EXCEPT !.used = @ + 1], [prompt |-> c.prompt, note |-> TRUE])
  ELSE [EndTurn(c) EXCEPT !.stopped = TRUE]

DecideEagerly(c) ==
  IF c.turn # "idle" /\ c.used < PerTurnMax
  THEN Respawn([c EXCEPT !.used = @ + 1], [prompt |-> c.prompt, note |-> TRUE])
  ELSE Respawn(OnTurnEnd([EndTurn(c) EXCEPT !.stopped = TRUE]), NoPrompt)

(* onChildExit for an Executor, after the bookkeeping of the dead child.   *)
DecideOnExit(c) ==
  IF c.turn # "idle"
  THEN IF c.used < PerTurnMax
         THEN Respawn([c EXCEPT !.used = @ + 1],
                      [prompt |-> c.prompt, note |-> TRUE])
         ELSE OnTurnEnd([EndTurn(c) EXCEPT !.stopped = TRUE])
  ELSE IF c.idleExits < IdleMax
         THEN Respawn([c EXCEPT !.idleExits = @ + 1], NoPrompt)
         ELSE [c EXCEPT !.idleExits = @ + 1, !.stopped = TRUE]

(* The catch of respawn.                                                   *)
RespawnFailed(c) ==
  IF c.shutting # "no" THEN c
  ELSE LET d == [c EXCEPT !.stopped = TRUE]
       IN IF d.turn = "idle" THEN d ELSE OnTurnEnd(EndTurn(d))

(* The continuation of respawn once the session_open ack is there.         *)
AfterOpen(c, after) ==
  IF after.prompt = None THEN c
  ELSE SendPrompt(IF after.note /\ c.turn # "idle"
                    THEN [c EXCEPT !.turn = "running"] ELSE c,
                  after.prompt, after.note)

(* An Executor before its hello, and one that is gone.                     *)
NewExec == [pc |-> "boot", prompt |-> None, queued |-> None,
            abort |-> FALSE, halted |-> FALSE, call |-> None]
DeadExec == [NewExec EXCEPT !.pc = "dead"]

-----------------------------------------------------------------------------
(* What the user does at the console.                                      *)

Inputs    == env.exits + Cardinality(env.typed)
EventLeft == Inputs + env.halts + env.cancels < MaxEvents
InputLeft == Inputs < MaxInputs /\ EventLeft
FaultLeft == env.exits < MaxExits /\ InputLeft

Starting == comm.live # 0 /\ comm.child[comm.live] \in {"hello", "open"}

(* A typed line: queued while a turn is active, else the next prompt.      *)
TypePrompt(p) ==
  /\ comm.shutting = "no" /\ comm.ask = None
  /\ p \notin env.typed /\ InputLeft
  /\ Starting /\ comm.turn = "idle" => "start_submit" \in Faults
  /\ env' = [env EXCEPT !.typed = @ \cup {p}]
  /\ comm' = IF comm.turn # "idle" THEN [comm EXCEPT !.slot = p]
                                   ELSE SubmitPrompt(comm, p)
  /\ UNCHANGED <<exec, toComm, acked, store>>

(* While a question is open the next line answers it.                      *)
TypeAnswer ==
  /\ comm.shutting = "no" /\ comm.ask # None
  /\ comm' = [Answered(SendLive(comm, AnswerMsg(comm.ask))) EXCEPT !.ask = None]
  /\ UNCHANGED <<exec, toComm, acked, store, env>>

(* Mutant: the turn is over for the frontend as soon as the cancel is sent.*)
CancelEndsTurn ==
  /\ comm.shutting = "no" /\ comm.turn # "idle"
  /\ env.cancels < MaxCancels /\ EventLeft
  /\ env' = [env EXCEPT !.cancels = @ + 1]
  /\ comm' = OnTurnEnd(EndTurn(SendLive(comm, Signal("cancel"))))
  /\ UNCHANGED <<exec, toComm, acked, store>>

(* Ctrl+C during a turn.                                                   *)
Cancel ==
  /\ comm.shutting = "no" /\ comm.turn # "idle"
  /\ env.cancels < MaxCancels /\ EventLeft
  /\ env' = [env EXCEPT !.cancels = @ + 1]
  /\ comm' = SendLive(comm, Signal("cancel"))
  /\ UNCHANGED <<exec, toComm, acked, store>>

(* /halt: a built-in, so not while the next line is an answer.             *)
Halt ==
  /\ comm.shutting = "no" /\ comm.ask = None
  /\ env.halts < MaxHalts /\ EventLeft
  /\ env' = [env EXCEPT !.halts = @ + 1]
  /\ comm' = SendLive(comm, Signal("halt"))
  /\ UNCHANGED <<exec, toComm, acked, store>>

(* Ctrl+C while idle, /exit: the shutdown sequence asks the live Executor. *)
Shutdown ==
  /\ comm.shutting = "no"
  /\ comm' = [SendLive(comm, Signal("shutdown")) EXCEPT !.shutting = "stopping"]
  /\ UNCHANGED <<exec, toComm, acked, store, env>>

(* ... and ends once that one is gone, or is killed after the timeout.     *)
ShutdownDone ==
  /\ comm.shutting = "stopping"
  /\ exec' = [e \in Epoch |-> IF e = comm.live THEN DeadExec ELSE exec[e]]
  /\ comm' = [comm EXCEPT !.shutting = "done"]
  /\ UNCHANGED <<toComm, acked, store, env>>

-----------------------------------------------------------------------------
(* What the Communicator receives.                                         *)

CommOn == comm.shutting # "done"

CommReceives(e, t) ==
  /\ CommOn /\ comm.child[e] # "gone"
  /\ toComm[e] # <<>> /\ Head(toComm[e]).type = t
  /\ toComm' = [toComm EXCEPT ![e] = Tail(@)]

RecvHello(e) ==
  /\ CommReceives(e, "hello")
  /\ comm' = IF comm.child[e] # "hello" THEN comm
             ELSE SendTo([comm EXCEPT !.child[e] = "open"], e,
                         Signal("session_open"))
  /\ UNCHANGED <<exec, acked, store, env>>

RecvOpenAck(e) ==
  /\ CommReceives(e, "open_ack")
  /\ comm' = IF comm.child[e] # "open" THEN comm
             ELSE AfterOpen([comm EXCEPT !.child[e] = "up", !.after[e] = NoPrompt],
                            comm.after[e])
  /\ UNCHANGED <<exec, acked, store, env>>

(* onChildEvent: append, acknowledge, then track.                          *)
RecvEvent(e) ==
  /\ CommReceives(e, "event")
  /\ LET m == Head(toComm[e]) IN
       /\ store' = Append(store, m.line)
       /\ acked' = IF m.wait THEN [acked EXCEPT ![e] = TRUE] ELSE acked
       /\ comm' = IF m.line.kind = "turn_finished" THEN OnTurnEnd(EndTurn(comm))
                                                   ELSE comm
  /\ UNCHANGED <<exec, env>>

(* Mutant: acknowledged although the line is not on disk.                  *)
AppendFailsAcked(e) ==
  /\ "append_fail" \in Faults /\ FaultLeft
  /\ env' = [env EXCEPT !.exits = @ + 1]
  /\ CommReceives(e, "event")
  /\ acked' = [acked EXCEPT ![e] = TRUE]
  /\ UNCHANGED <<comm, exec, store>>

(* The append fails: no acknowledgement, the event is gone.  It may cost   *)
(* the Executor its life (AckTimeout), so it counts as an exit.            *)
AppendFails(e) ==
  /\ "append_fail" \in Faults /\ FaultLeft
  /\ env' = [env EXCEPT !.exits = @ + 1]
  /\ CommReceives(e, "event")
  /\ UNCHANGED <<comm, exec, acked, store>>

RecvAsk(e) ==
  /\ CommReceives(e, "ask_user")
  /\ comm' = [WaitForAnswer(comm) EXCEPT !.ask = Head(toComm[e]).call]
  /\ UNCHANGED <<exec, acked, store, env>>

RecvHalted(e) ==
  /\ CommReceives(e, "halted")
  /\ store' = Append(store, Line("halted", None, None))
  /\ comm' = IF comm.live = e
               THEN OnTurnEnd(EndTurn([comm EXCEPT !.halted = TRUE]))
               ELSE comm
  /\ UNCHANGED <<exec, acked, env>>

(* The exit of a child is noticed: what it wrote and nobody read is        *)
(* discarded, the restart policy decides, and an open that waited for this *)
(* child fails after that.                                                 *)
OnChildExit(e) ==
  /\ CommOn /\ exec[e].pc = "dead" /\ comm.child[e] # "gone"
  /\ toComm' = [toComm EXCEPT ![e] = <<>>]
  /\ LET closed == [comm EXCEPT !.child[e] = "gone", !.pipe[e] = <<>>,
                                !.after[e] = NoPrompt,
                                !.live = IF @ = e THEN 0 ELSE @]
         decided == IF closed.shutting # "no" THEN closed
                                              ELSE DecideOnExit(closed)
     IN comm' = IF comm.child[e] \in {"hello", "open"}
                  THEN RespawnFailed(decided) ELSE decided
  /\ UNCHANGED <<exec, acked, store, env>>

(* No hello in time: the child is killed and its respawn fails.            *)
HelloTimeout(e) ==
  /\ CommOn /\ comm.child[e] = "hello"
  /\ "start_timeout" \in Faults /\ FaultLeft
  /\ env' = [env EXCEPT !.exits = @ + 1]
  /\ exec' = [exec EXCEPT ![e] = DeadExec]
  /\ comm' = RespawnFailed([comm EXCEPT !.child[e] = "late", !.after[e] = NoPrompt])
  /\ UNCHANGED <<toComm, acked, store>>

(* No session_open ack in time: the respawn fails, the child stays.        *)
OpenTimeout(e) ==
  /\ CommOn /\ comm.child[e] = "open"
  /\ "start_timeout" \in Faults /\ FaultLeft
  /\ env' = [env EXCEPT !.exits = @ + 1]
  /\ comm' = RespawnFailed([comm EXCEPT !.child[e] = "up", !.after[e] = NoPrompt])
  /\ UNCHANGED <<exec, toComm, acked, store>>

(* 60 s pass: the oldest idle exit leaves the window.                      *)
IdleWindowPasses ==
  /\ CommOn /\ comm.idleExits > 0
  /\ comm' = [comm EXCEPT !.idleExits = @ - 1]
  /\ UNCHANGED <<exec, toComm, acked, store, env>>

-----------------------------------------------------------------------------
(* An Executor.  pc is where its turn stands:                              *)
(*   boot      spawned, no hello yet       fresh   hello sent              *)
(*   opening   session_open handler runs: there is no agent yet            *)
(*   idle      agent, no turn              user    user_message sent       *)
(*   model     model call                  request tool_call_requested sent*)
(*   tool      the tool runs               ask     the tool asks the user  *)
(*   finish    turn_finished sent          dead                            *)
(* In user, request and finish it waits for the acknowledgement.           *)

HasAgent == {"idle", "user", "model", "request", "tool", "ask", "finish"}
InTurn   == HasAgent \ {"idle"}
Awaiting == {"user", "request", "finish"}

Alive(e) == comm.child[e] # "none" /\ exec[e].pc # "dead"
Say(e, m) == toComm' = [toComm EXCEPT ![e] = Append(@, m)]

Hello(e) ==
  /\ Alive(e) /\ exec[e].pc = "boot"
  /\ exec' = [exec EXCEPT ![e].pc = "fresh"]
  /\ Say(e, Signal("hello"))
  /\ UNCHANGED <<comm, acked, store, env>>

(* The next message of the inbound queue; a halt preempts the others of    *)
(* its batch.                                                              *)
Take(e, m) ==
  \E i \in DOMAIN comm.pipe[e] :
    /\ comm.pipe[e][i] = m
    /\ i = 1 \/ m.type = "halt"
    /\ comm' = [comm EXCEPT !.pipe[e] =
                  SubSeq(@, 1, i - 1) \o SubSeq(@, i + 1, Len(@))]

TakeSignal(e, t) == Alive(e) /\ exec[e].pc # "boot" /\ Take(e, Signal(t))

RecvSessionOpen(e) ==
  /\ TakeSignal(e, "session_open")
  /\ exec' = IF exec[e].pc = "fresh" THEN [exec EXCEPT ![e].pc = "opening"]
                                     ELSE exec
  /\ UNCHANGED <<toComm, acked, store, env>>

(* Calls of the whole log that were requested and have no finish line.     *)
CallsIn(log, k) == {log[i].call : i \in {j \in DOMAIN log : log[j].kind = k}}
(* Mutant: every call that was ever requested.                             *)
EveryCall(log)  == CallsIn(log, "tool_call_requested")
OpenCalls(log)  == CallsIn(log, "tool_call_requested")
                     \ CallsIn(log, "tool_call_finished")

(* The adapters are there: the handler reads the session store, closes the *)
(* calls it finds open as unknown, builds the agent and acknowledges.      *)
SessionOpened(e) ==
  /\ Alive(e) /\ exec[e].pc = "opening"
  /\ \E order \in [1 .. Cardinality(OpenCalls(store)) -> OpenCalls(store)] :
       /\ \A i, j \in DOMAIN order : i < j => order[i] < order[j]
       /\ toComm' = [toComm EXCEPT ![e] = @
            \o [i \in DOMAIN order |->
                  EventMsg(Line("tool_call_finished", None, order[i]), FALSE)]
            \o <<Signal("open_ack")>>]
  /\ exec' = [exec EXCEPT ![e].pc = "idle"]
  /\ UNCHANGED <<comm, acked, store, env>>

(* runTurn up to its first await: the user_message line goes out.          *)
BeginTurn(e, p, x) ==
  /\ exec' = [exec EXCEPT ![e] = [x EXCEPT !.pc = "user", !.prompt = p,
                                           !.queued = None, !.abort = FALSE]]
  /\ acked' = [acked EXCEPT ![e] = FALSE]
  /\ Say(e, EventMsg(Line("user_message", p, None), TRUE))

Lose(p) == env' = [env EXCEPT !.lost = @ \cup {p}]

(* Mutant: a prompt that comes before the last acknowledgement is ignored. *)
RecvPromptNoQueue(e) ==
  /\ Alive(e) /\ exec[e].pc # "boot"
  /\ \E p \in Prompt, note \in BOOLEAN :
       /\ Take(e, PromptMsg(p, note))
       /\ IF exec[e].pc = "idle" THEN BeginTurn(e, p, exec[e]) /\ UNCHANGED env
                                 ELSE Lose(p) /\ UNCHANGED <<exec, toComm, acked>>
  /\ UNCHANGED store

RecvPrompt(e) ==
  /\ Alive(e) /\ exec[e].pc # "boot"
  /\ \E p \in Prompt, note \in BOOLEAN :
       /\ Take(e, PromptMsg(p, note))
       /\ \/ /\ exec[e].pc = "idle"
             /\ BeginTurn(e, p, exec[e])
             /\ UNCHANGED env
          \/ /\ exec[e].pc = "finish" /\ exec[e].queued = None
             /\ exec' = [exec EXCEPT ![e].queued = p]
             /\ UNCHANGED <<toComm, acked, env>>
          \/ /\ \/ exec[e].pc \notin HasAgent
                \/ exec[e].pc \in InTurn \ {"finish"}
                \/ exec[e].pc = "finish" /\ exec[e].queued # None
             /\ Lose(p)
             /\ UNCHANGED <<exec, toComm, acked>>
  /\ UNCHANGED store

Aborted(x) == IF x.pc \in InTurn THEN [x EXCEPT !.abort = TRUE] ELSE x

RecvCancel(e) ==
  /\ TakeSignal(e, "cancel")
  /\ exec' = [exec EXCEPT ![e] = Aborted(@)]
  /\ UNCHANGED <<toComm, acked, store, env>>

RecvHalt(e) ==
  /\ TakeSignal(e, "halt")
  /\ IF exec[e].pc \in HasAgent
       THEN /\ exec' = [exec EXCEPT ![e] = [Aborted(@) EXCEPT !.halted = TRUE]]
            /\ Say(e, Signal("halted"))
       ELSE UNCHANGED <<exec, toComm>>
  /\ UNCHANGED <<acked, store, env>>

RecvShutdown(e) ==
  /\ TakeSignal(e, "shutdown")
  /\ exec' = [exec EXCEPT ![e] = DeadExec]
  /\ UNCHANGED <<toComm, acked, store, env>>

(* An answer to the question that is open resolves it; any other is left.  *)
RecvAnswer(e) ==
  /\ Alive(e) /\ exec[e].pc # "boot"
  /\ \E c \in Call :
       /\ Take(e, AnswerMsg(c))
       /\ IF exec[e].pc = "ask" /\ exec[e].call = c
            THEN /\ exec' = [exec EXCEPT ![e].pc = "model", ![e].call = None]
                 /\ Say(e, EventMsg(Line("tool_call_finished", None, c), FALSE))
            ELSE UNCHANGED <<exec, toComm>>
  /\ UNCHANGED <<acked, store, env>>

AckedIn(e, pc) == Alive(e) /\ exec[e].pc = pc /\ acked[e]

UserAcked(e) ==
  /\ AckedIn(e, "user")
  /\ exec' = [exec EXCEPT ![e].pc = "model"]
  /\ UNCHANGED <<comm, toComm, acked, store, env>>

(* The model asks for a tool: its request line goes out first.             *)
ModelTool(e) ==
  /\ Alive(e) /\ exec[e].pc = "model" /\ ~exec[e].abort
  /\ env.calls < MaxCalls
  /\ env' = [env EXCEPT !.calls = @ + 1]
  /\ exec' = [exec EXCEPT ![e].pc = "request", ![e].call = env.calls + 1]
  /\ acked' = [acked EXCEPT ![e] = FALSE]
  /\ Say(e, EventMsg(Line("tool_call_requested", None, env.calls + 1), TRUE))
  /\ UNCHANGED <<comm, store>>

(* gate.execute: a halted gate blocks, a cancelled turn cancels.           *)
GateRefuses(e) ==
  /\ AckedIn(e, "request")
  /\ exec[e].halted \/ exec[e].abort
  /\ exec' = [exec EXCEPT ![e].pc = "model", ![e].call = None]
  /\ Say(e, EventMsg(Line("tool_call_finished", None, exec[e].call), FALSE))
  /\ UNCHANGED <<comm, acked, store, env>>

Dispatch(e) ==
  /\ AckedIn(e, "request")
  /\ ~exec[e].halted /\ ~exec[e].abort
  /\ env' = [env EXCEPT !.ran = @ \cup {exec[e].call}]
  /\ \/ /\ exec' = [exec EXCEPT ![e].pc = "tool"]
        /\ UNCHANGED toComm
     \/ /\ exec' = [exec EXCEPT ![e].pc = "ask"]
        /\ Say(e, AskMsg(exec[e].call))
  /\ UNCHANGED <<comm, acked, store>>

(* The tool returns, or the cancelled question rejects.                    *)
ToolDone(e) ==
  /\ Alive(e)
  /\ exec[e].pc = "tool" \/ (exec[e].pc = "ask" /\ exec[e].abort)
  /\ exec' = [exec EXCEPT ![e].pc = "model", ![e].call = None]
  /\ Say(e, EventMsg(Line("tool_call_finished", None, exec[e].call), FALSE))
  /\ UNCHANGED <<comm, acked, store, env>>

(* No more tools, or the turn was aborted: turn_finished goes out.         *)
Finish(e) ==
  /\ Alive(e) /\ exec[e].pc = "model"
  /\ exec' = [exec EXCEPT ![e].pc = "finish"]
  /\ acked' = [acked EXCEPT ![e] = FALSE]
  /\ Say(e, EventMsg(Line("turn_finished", exec[e].prompt, None), TRUE))
  /\ UNCHANGED <<comm, store, env>>

(* The provider fails: an error line and no turn_finished.                 *)
ProviderError(e) ==
  /\ "provider_error" \in Faults
  /\ Alive(e) /\ exec[e].pc = "model"
  /\ exec' = [exec EXCEPT ![e].pc = "idle", ![e].prompt = None]
  /\ Say(e, EventMsg(Line("provider_error", exec[e].prompt, None), FALSE))
  /\ UNCHANGED <<comm, acked, store, env>>

(* Mutant: the prompt that came meanwhile is forgotten.                    *)
FinishAckedForgets(e) ==
  /\ AckedIn(e, "finish")
  /\ exec' = [exec EXCEPT ![e] = [@ EXCEPT !.pc = "idle", !.prompt = None,
                                           !.queued = None, !.abort = FALSE]]
  /\ UNCHANGED <<comm, toComm, acked, store, env>>

FinishAcked(e) ==
  /\ AckedIn(e, "finish")
  /\ LET x == [exec[e] EXCEPT !.pc = "idle", !.prompt = None, !.abort = FALSE]
     IN IF x.queued # None
          THEN BeginTurn(e, x.queued, x)
          ELSE /\ exec' = [exec EXCEPT ![e] = x]
               /\ UNCHANGED <<toComm, acked>>
  /\ UNCHANGED <<comm, store, env>>

(* The acknowledgement will not come: the Executor gives the Communicator  *)
(* up and exits.                                                           *)
AckTimeout(e) ==
  /\ Alive(e) /\ exec[e].pc \in Awaiting /\ ~acked[e]
  /\ \A i \in DOMAIN toComm[e] : toComm[e][i].type = "event" => ~toComm[e][i].wait
  /\ exec' = [exec EXCEPT ![e] = DeadExec]
  /\ UNCHANGED <<comm, toComm, acked, store, env>>

(* A crash, a kill by the user or by restart_request, an early ack timeout.*)
Exit(e) ==
  /\ Alive(e) /\ CommOn
  /\ FaultLeft
  /\ comm.child[e] # "up" => "start_exit" \in Faults
  /\ env' = [env EXCEPT !.exits = @ + 1]
  /\ exec' = [exec EXCEPT ![e] = DeadExec]
  /\ UNCHANGED <<comm, toComm, acked, store>>

(* The Communicator is gone: the disconnected Executor terminates.         *)
Disconnect(e) ==
  /\ ~CommOn /\ Alive(e)
  /\ exec' = [exec EXCEPT ![e] = DeadExec]
  /\ UNCHANGED <<comm, toComm, acked, store, env>>

-----------------------------------------------------------------------------
(* The start of the session: start() returned, so epoch 1 is up, has its   *)
(* agent, and nothing is in a pipe.                                        *)

Init ==
  /\ comm = [turn |-> "idle", prompt |-> None, used |-> 0, idleExits |-> 0,
             stopped |-> FALSE, halted |-> FALSE, shutting |-> "no",
             epoch |-> 1, live |-> 1,
             child |-> [e \in Epoch |-> IF e = 1 THEN "up" ELSE "none"],
             after |-> [e \in Epoch |-> NoPrompt],
             slot |-> None, ask |-> None,
             pipe |-> [e \in Epoch |-> <<>>]]
  /\ exec = [e \in Epoch |-> IF e = 1 THEN [NewExec EXCEPT !.pc = "idle"]
                                      ELSE NewExec]
  /\ toComm = [e \in Epoch |-> <<>>]
  /\ acked = [e \in Epoch |-> FALSE]
  /\ store = <<>>
  /\ env = [typed |-> {}, exits |-> 0, halts |-> 0, cancels |-> 0, calls |-> 0,
            ran |-> {}, lost |-> {}]

User == \/ \E p \in Prompt : TypePrompt(p)
        \/ TypeAnswer \/ Cancel \/ Halt \/ Shutdown

CommStep(e) ==
  \/ RecvHello(e) \/ RecvOpenAck(e) \/ RecvEvent(e) \/ AppendFails(e)
  \/ RecvAsk(e) \/ RecvHalted(e) \/ OnChildExit(e)

ExecStep(e) ==
  \/ Hello(e) \/ RecvSessionOpen(e) \/ SessionOpened(e) \/ RecvPrompt(e)
  \/ RecvCancel(e) \/ RecvHalt(e) \/ RecvShutdown(e) \/ RecvAnswer(e)
  \/ UserAcked(e) \/ ModelTool(e) \/ GateRefuses(e) \/ Dispatch(e)
  \/ ToolDone(e) \/ Finish(e) \/ ProviderError(e) \/ FinishAcked(e)
  \/ AckTimeout(e) \/ Disconnect(e)

Next == \/ User
        \/ ShutdownDone \/ IdleWindowPasses
        \/ \E e \in Epoch : \/ CommStep(e) \/ ExecStep(e)
                            \/ HelloTimeout(e) \/ OpenTimeout(e) \/ Exit(e)

Spec == Init /\ [][Next]_vars

-----------------------------------------------------------------------------
(* The child processes and the Communicator's event loop run, so every     *)
(* message that arrives is handled and every await that can end ends.  The *)
(* user owes nothing: no line, no answer, no cancel.                       *)

Fairness == \A e \in Epoch : WF_vars(CommStep(e) \/ ExecStep(e))

FairSpec == Spec /\ Fairness

-----------------------------------------------------------------------------
(* Properties.                                                             *)

(* Events are acknowledged before effects (README, executor/agent.ts gate  *)
(* 1): a tool runs only when its request line is in the store, and the     *)
(* store never closes a call before it shows the call requested, across    *)
(* failing appends, ack timeouts and Executors that overlap.               *)
RanWasRequested == env.ran \subseteq CallsIn(store, "tool_call_requested")
FinishAfterRequest ==
  \A i \in DOMAIN store : store[i].kind = "tool_call_finished" =>
    \E j \in 1 .. i - 1 :
      store[j].kind = "tool_call_requested" /\ store[j].call = store[i].call
WriteAhead == RanWasRequested /\ FinishAfterRequest

(* The restart budget bounds the replays: the model sees a prompt at most  *)
(* once for the submission and once per restart that the turn may use.     *)
BoundedReplays ==
  \A p \in Prompt :
    Cardinality({i \in DOMAIN store :
                   store[i].kind = "user_message" /\ store[i].prompt = p})
      <= 1 + PerTurnMax

(* Once the run is halted no tool starts, also not in an Executor that is  *)
(* respawned after the halted one died and whose own gate is not halted.   *)
HaltStopsTools == [][comm.halted => env'.ran = env.ran]_vars

(* One agent works on the session: a second Executor would write to the    *)
(* same store and run tools in the same workspace.                         *)
AtMostOneExecutor == \A e, f \in Epoch : Alive(e) /\ Alive(f) => e = f

(* A call is closed once: the restart rule closes as unknown only what the *)
(* dead Executor left open.                                                *)
ClosedOnce ==
  \A i, j \in DOMAIN store :
    /\ store[i].kind = "tool_call_finished" /\ store[j].kind = "tool_call_finished"
    /\ store[i].call = store[j].call
    => i = j

(* While an Executor works on a turn the Communicator has the same turn    *)
(* open, unless the run is halted: no turn runs that the frontend believes *)
(* is over.                                                                *)
TurnEndSent(e) ==
  \E i \in DOMAIN toComm[e] :
    toComm[e][i].type = "event" /\ toComm[e][i].line.kind = "turn_finished"
NoGhostTurn ==
  \A e \in Epoch :
    /\ Alive(e) /\ ~comm.halted
    /\ exec[e].pc \in InTurn
    /\ exec[e].pc = "finish" => TurnEndSent(e)
    => comm.turn # "idle" /\ comm.prompt = exec[e].prompt

(* No Executor drops a prompt it was sent.                                 *)
NoPromptLost == env.lost = {}

(* A turn ends or waits for the user, through crashes and replays, unless  *)
(* the user leaves.                                                        *)
TurnEnds ==
  comm.turn = "running" ~> comm.turn # "running" \/ comm.shutting # "no"

(* A queued line becomes the next prompt once the turn is over: the slot   *)
(* does not stay full while nobody waits for the user.                     *)
QueuedLineIsSent ==
  comm.slot # None
    ~> comm.slot = None \/ comm.turn = "waiting" \/ comm.shutting # "no"

(* A halt typed during a turn takes effect: the run reaches the halted     *)
(* state.                                                                  *)
HaltTakesEffect == env.halts > 0 ~> comm.halted \/ comm.shutting # "no"
=============================================================================
