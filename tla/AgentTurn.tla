------------------------------ MODULE AgentTurn ------------------------------
(***************************************************************************)
(* One Executor's turn (executor/agent.ts) with what it owns: the          *)
(* conversation and its compaction (compaction.ts), the inject mailbox     *)
(* (injection.ts) and the child processes of its commands (tools/shell.ts, *)
(* children.ts).  The turn is a coroutine: every await is a value of "at", *)
(* and the inbound handlers (cancel, resume, inject, answer, continue,     *)
(* resolve) run between any two of its steps.                              *)
(*                                                                         *)
(* The model, the tools, the gate and the user are external: they answer   *)
(* in every way the turn can tell apart.  "env" holds the settings of the  *)
(* session and how often each of them still may do something that makes    *)
(* the turn longer; with nothing left the model stops calling tools.       *)
(***************************************************************************)
EXTENDS Integers, Sequences, FiniteSets, SequencesExt, FiniteSetsExt

CONSTANTS
  Limit,     \* max_tool_calls_per_prompt
  BatchMax,  \* tool calls in one model response
  KeepTail,  \* KEEP_TAIL_MESSAGES
  Envs       \* the settings and allowances a behaviour starts with

\* The settings of a session, and how often something may still happen.
Settings ==
  [prompts : Nat, rounds : Nat, calls : Nat, compactions : Nat, failures : Nat, slow : Nat,
   special : Nat, cancels : Nat, resumes : Nat, injects : Nat, freezes : Nat,
   auto : BOOLEAN, watched : BOOLEAN]

ASSUME TurnConstants ==
  /\ Limit \in Nat \ {0} /\ BatchMax \in Nat \ {0} /\ KeepTail \in Nat \ {0}
  /\ Envs \subseteq Settings

VARIABLES
  agent,      \* the Agent's fields and the await its turn is at
  messages,   \* the conversation
  mailbox,    \* the injects that wait
  procs,      \* child processes: running, listed in the registry, being reaped
  wire,       \* copies of events on their way to the Supervisor
  delivered,  \* history: the injects that reached the conversation, and where
  cancelled,  \* history: the turn that was cancelled last, and what a resume overruled
  env         \* settings, and what the environment may still do

agentVars == <<agent, messages, mailbox, procs, wire, delivered, cancelled, env>>

Kinds == {"plain", "empty", "replay"}
Stops == {"end", "refusal", "max_output", "pause"}

Fresh == [turn |-> 0, active |-> FALSE, finishing |-> FALSE, queued |-> "none", at |-> "idle",
          phase |-> "idle", since |-> 0, before |-> "idle", reason |-> "none", abort |-> "none",
          ask |-> "none", made |-> 0, reissued |-> FALSE, paused |-> FALSE, stop |-> "none",
          batch |-> <<>>, tool |-> "none", status |-> "none"]

TurnInit ==
  /\ agent = Fresh
  /\ messages = <<>>
  /\ mailbox = {}
  /\ procs = [running |-> {}, listed |-> {}, reaping |-> {}]
  /\ wire = <<>>
  /\ delivered = {}
  /\ cancelled = [turn |-> 0, overruled |-> 0]
  /\ env \in Envs

Allowed(what) == env[what] > 0
Spend(what) == env' = [env EXCEPT ![what] = @ - 1]

\* The Supervisor gets a copy of every event; only in a watched session does
\* somebody look at the copies.
Emit(events) == wire' = IF env.watched THEN wire \o events ELSE wire

SetPhase(a, phase) == [a EXCEPT !.phase = phase, !.since = 0]
Aborted == agent.reason = "cancel"

(***************************************************************************)
(* The conversation.                                                       *)
(***************************************************************************)

User(turn) == [role |-> "user", ref |-> turn, calls |-> {}]
Assistant(calls) == [role |-> "assistant", ref |-> 0, calls |-> calls]
ToolResult(call) == [role |-> "tool", ref |-> call, calls |-> {}]

\* Mutant: the kept tail is not cut at its first message that is no result.
CompactWithoutCut(ms) ==
  <<User(0)>> \o IF Len(ms) > KeepTail THEN SubSeq(ms, Len(ms) - KeepTail + 1, Len(ms)) ELSE ms

\* compact: a checkpoint, and of the last messages those from the first on
\* that is not the result of a call the checkpoint swallowed.
Compact(ms) ==
  LET tail  == IF Len(ms) > KeepTail THEN SubSeq(ms, Len(ms) - KeepTail + 1, Len(ms)) ELSE ms
      first == Min({i \in 1..Len(tail) : tail[i].role # "tool"} \cup {Len(tail) + 1})
  IN  <<User(0)>> \o SubSeq(tail, first, Len(tail))

\* What is left without the messages at some positions.
Without(ms, positions) ==
  LET left[n \in 0..Len(ms)] ==
        IF n = 0 THEN <<>> ELSE IF n \in positions THEN left[n - 1] ELSE Append(left[n - 1], ms[n])
  IN  left[Len(ms)]

\* dropOldToolResults: the oldest results go until the floor is reached.
DropOldToolResults(ms) ==
  LET results == {i \in 1..Len(ms) : ms[i].role = "tool"}
  IN  Without(ms, {i \in results : Cardinality({j \in results : j <= i}) <= Len(ms) - KeepTail})

\* CANCEL_NOTE: into the last answer, or an answer of its own.
WithCancelNote(ms) ==
  IF ms # <<>> /\ Last(ms).role = "assistant" THEN ms ELSE Append(ms, Assistant({}))

(***************************************************************************)
(* The mailbox.  An inject names the prompt the Supervisor saw last, which *)
(* may be the prompt before this one; "during" is the turn it arrived in,  *)
(* 0 between turns.                                                        *)
(***************************************************************************)

\* push: an inject that names another prompt than the current one is dropped.
Push(about) ==
  mailbox' = IF agent.turn > 0 /\ about # agent.turn THEN mailbox
             ELSE mailbox \cup {[id |-> env.injects, about |-> about,
                                 during |-> IF agent.active THEN agent.turn ELSE 0]}

\* drainForUserMessage, drainForToolResult.
Drain(turn, where) ==
  /\ delivered' = delivered \cup {[inject |-> m, turn |-> turn, where |-> where] : m \in mailbox}
  /\ mailbox' = {}

\* Mutant: what waits at the end of a turn is kept for the next one.
KeepLate == UNCHANGED <<mailbox, delivered>>

DiscardLate == mailbox' = {} /\ UNCHANGED delivered

(***************************************************************************)
(* The turn.                                                               *)
(***************************************************************************)

\* finish: from here to the acknowledgement of turn_finished.
Finishing(a, stop) == [a EXCEPT !.at = "finish", !.finishing = TRUE, !.stop = stop]
FinishTurn(a, ms, stop) ==
  /\ agent' = Finishing(a, stop)
  /\ messages' = IF stop = "cancelled" THEN WithCancelNote(ms) ELSE ms
  /\ Emit(<<"turn_finished">>)

\* runTurn of a prompt while no turn is active: the fields of the new turn
\* and the events until its first await.  A prompt that is empty or names an
\* unknown workflow never reaches the model.
Begun(a, kind) ==
  LET b == [a EXCEPT !.turn = @ + 1, !.active = TRUE, !.made = 0, !.reason = "none",
                     !.reissued = FALSE, !.paused = FALSE, !.at = "user"]
  IN  IF kind = "empty" THEN Finishing(b, "end") ELSE b
BeginEvents(kind) ==
  CASE kind = "empty"  -> <<"turn_finished">>
    [] kind = "plain"  -> <<"user_message">>
    [] kind = "replay" -> <<"restarted", "user_message">>

Begin(kind) ==
  /\ agent' = Begun(agent, kind)
  /\ Emit(BeginEvents(kind))
  /\ IF kind = "empty" THEN UNCHANGED <<mailbox, delivered>> ELSE Drain(agent.turn + 1, "user")

\* A prompt: begins a turn, waits while turn_finished is not yet
\* acknowledged, and is refused otherwise.
RunTurn(kind) ==
  IF ~agent.active THEN Begin(kind)
  ELSE /\ agent' = IF agent.finishing /\ agent.queued = "none" THEN [agent EXCEPT !.queued = kind] ELSE agent
       /\ UNCHANGED <<mailbox, delivered, wire>>

Prompt(kind) ==
  /\ Allowed("prompts") /\ Spend("prompts")
  /\ RunTurn(kind)
  /\ UNCHANGED <<messages, procs, cancelled>>

\* The acknowledgement of user_message: the prompt joins the conversation.
UserAcked ==
  /\ agent.at = "user"
  /\ agent' = [agent EXCEPT !.at = "fit"]
  /\ messages' = Append(messages, User(agent.turn))
  /\ UNCHANGED <<mailbox, procs, wire, delivered, cancelled, env>>

StartModel(a) == [SetPhase(a, "model_call") EXCEPT !.at = "model", !.abort = "armed"]

\* Even without results the request is too large.
EndsTooLarge(kept) == FinishTurn(agent, kept, "end")

\* checkFit, and modelCall if the request fits.  A request that is too large
\* is compacted, then loses results, and at last ends the turn.
CheckFit ==
  /\ agent.at \in {"fit", "refit"}
  /\ \/ agent' = StartModel(agent) /\ UNCHANGED <<messages, wire, env>>
     \/ /\ agent.at = "fit" /\ Allowed("compactions") /\ Spend("compactions")
        /\ agent' = [SetPhase(agent, "compacting") EXCEPT !.at = "fitCompact"]
        /\ UNCHANGED <<messages, wire>>
     \/ /\ agent.at = "refit"
        /\ LET kept == DropOldToolResults(messages)
           IN  \/ kept # messages /\ messages' = kept /\ agent' = StartModel(agent) /\ UNCHANGED wire
               \/ EndsTooLarge(kept)
        /\ UNCHANGED env
  /\ UNCHANGED <<mailbox, procs, delivered, cancelled>>

\* The compacting model answers, or fails and nothing changes.
CompactDone ==
  /\ agent.at \in {"fitCompact", "compact"}
  /\ messages' \in {messages, Compact(messages)}
  /\ agent' = [agent EXCEPT !.at = IF @ = "compact" THEN "handle" ELSE "refit"]
  /\ UNCHANGED <<mailbox, procs, wire, delivered, cancelled, env>>

\* The end of a turn without turn_finished: a provider error, or an exception.
EndsWithError(a) ==
  /\ agent' = [SetPhase(a, "idle") EXCEPT !.at = "idle", !.active = FALSE, !.abort = "none", !.batch = <<>>]
  /\ DiscardLate

\* An aborted call: the first one a resume aborted is made again.
Reissue == agent.reason = "resume_frozen" /\ ~agent.reissued
ModelAborted ==
  /\ agent.at = "model" /\ agent.abort = "fired"
  /\ IF Reissue
     THEN /\ agent' = [agent EXCEPT !.at = "fit", !.abort = "none", !.reason = "none", !.reissued = TRUE]
          /\ messages' = Append(messages, User(agent.turn))
          /\ Emit(<<"resumed">>)
     ELSE FinishTurn([agent EXCEPT !.abort = "none"], messages, "cancelled")
  /\ UNCHANGED <<mailbox, procs, delivered, cancelled, env>>

ModelFails ==
  /\ agent.at = "model" /\ agent.abort = "armed" /\ Allowed("failures") /\ Spend("failures")
  /\ EndsWithError(agent)
  /\ UNCHANGED <<messages, procs, wire, cancelled>>

\* The stream ends: the answer joins the conversation.
ModelAnswers ==
  /\ agent.at = "model" /\ agent.abort = "armed"
  /\ \E stop \in Stops, n \in 0..BatchMax :
       LET batch == [i \in 1..n |-> env.calls - i + 1]
           more  == n > 0 \/ stop = "pause"
       IN  /\ n <= env.calls /\ (n > 0 => stop = "end") /\ (more => Allowed("rounds"))
           /\ messages' = Append(messages, Assistant(Range(batch)))
           /\ agent' = [agent EXCEPT !.at = "response", !.abort = "none", !.stop = stop, !.batch = batch]
           /\ env' = [env EXCEPT !.calls = @ - n, !.rounds = IF more THEN @ - 1 ELSE @]
  /\ UNCHANGED <<mailbox, procs, wire, delivered, cancelled>>

\* maybeCompact after an answer.
CompactAfterAnswer ==
  /\ agent.at = "response" /\ Allowed("compactions") /\ Spend("compactions")
  /\ agent' = [SetPhase(agent, "compacting") EXCEPT !.at = "compact"]
  /\ UNCHANGED <<messages, mailbox, procs, wire, delivered, cancelled>>

HandleAnswer ==
  /\ agent.at \in {"response", "handle"}
  /\ CASE agent.stop = "pause" /\ ~agent.paused ->
            agent' = [agent EXCEPT !.at = "fit", !.paused = TRUE] /\ UNCHANGED <<messages, wire>>
       [] agent.stop = "pause" /\ agent.paused -> FinishTurn(agent, messages, "end")
       [] agent.stop \in {"refusal", "max_output"} -> FinishTurn(agent, messages, agent.stop)
       [] agent.stop = "end" /\ agent.batch = <<>> -> FinishTurn(agent, messages, "end")
       [] OTHER -> agent' = [agent EXCEPT !.at = "next"] /\ UNCHANGED <<messages, wire>>
  /\ UNCHANGED <<mailbox, procs, delivered, cancelled, env>>

\* executeTool up to the acknowledgement of tool_call_requested.
Request(a) == [a EXCEPT !.at = "request", !.made = @ + 1]

\* The head of the loop over a batch.
NextCall ==
  /\ agent.at = "next"
  /\ CASE Aborted -> FinishTurn([agent EXCEPT !.batch = <<>>], messages, "cancelled")
       [] ~Aborted /\ agent.batch = <<>> -> agent' = [agent EXCEPT !.at = "fit"] /\ UNCHANGED <<messages, wire>>
       [] ~Aborted /\ agent.batch # <<>> ->
            /\ agent' = IF agent.made < Limit THEN Request(agent)
                        ELSE IF env.auto THEN Request([agent EXCEPT !.made = 0])
                        ELSE [SetPhase(agent, "waiting_answer") EXCEPT
                                !.at = "continue", !.ask = "continue", !.before = agent.phase]
            /\ UNCHANGED <<messages, wire>>
  /\ UNCHANGED <<mailbox, procs, delivered, cancelled, env>>

\* The gate's answer after the acknowledgement: onPending asks the user, and
\* an exception of the plug ends the turn.
RequestAcked ==
  /\ agent.at = "request"
  /\ \/ /\ agent' \in {[agent EXCEPT !.at = "allowed"], [agent EXCEPT !.at = "pending"],
                       [agent EXCEPT !.at = "result", !.status = "blocked"],
                       [agent EXCEPT !.at = "result", !.status = "ended"]}
        /\ UNCHANGED <<mailbox, delivered, env>>
     \/ Allowed("failures") /\ Spend("failures") /\ EndsWithError(agent)
  /\ UNCHANGED <<messages, procs, wire, cancelled>>

\* resolve: the user decided about the pending effect.
Resolve ==
  /\ agent.at = "pending"
  /\ agent' \in {[agent EXCEPT !.at = "allowed"], [agent EXCEPT !.at = "result", !.status = "blocked"]}
  /\ UNCHANGED <<messages, mailbox, procs, wire, delivered, cancelled, env>>

\* The awaits of the tools: some return by themselves, a slow one hangs until
\* it is aborted, a question waits for the user, a command spawns a process.
Started(tool) ==
  LET a == [SetPhase(agent, "tool_call") EXCEPT !.at = "tool", !.tool = tool, !.abort = "armed"]
  IN  CASE tool \in {"plain", "slow"} -> a
        [] tool = "question" -> [SetPhase(a, "waiting_answer") EXCEPT !.ask = "question", !.before = "tool_call"]
        [] tool = "command"  -> [a EXCEPT !.at = "spawn"]

\* Mutant: a tool starts although the turn was cancelled while the gate judged it.
DispatchAnyway ==
  /\ agent.at = "allowed"
  /\ agent' = Started("plain")
  /\ UNCHANGED <<messages, mailbox, procs, wire, delivered, cancelled, env>>

\* The dispatch closure: a cancelled turn starts nothing.
Dispatch ==
  /\ agent.at = "allowed"
  /\ \/ Aborted /\ agent' = [agent EXCEPT !.at = "result", !.status = "cancelled"] /\ UNCHANGED env
     \/ ~Aborted /\ agent' = Started("plain") /\ UNCHANGED env
     \/ ~Aborted /\ agent' = Started("slow") /\ Allowed("slow") /\ Spend("slow")
     \/ /\ ~Aborted /\ Allowed("special") /\ Spend("special")
        /\ \E tool \in {"question", "command"} : agent' = Started(tool)
  /\ UNCHANGED <<messages, mailbox, procs, wire, delivered, cancelled>>

\* startProcess: the gate allows the spawn and the child is registered, or it
\* refuses.
Spawn ==
  /\ agent.at = "spawn"
  /\ \/ /\ agent' = [agent EXCEPT !.at = "tool"]
        /\ procs' = [procs EXCEPT !.running = @ \cup {Head(agent.batch)}, !.listed = @ \cup {Head(agent.batch)}]
     \/ agent' = [agent EXCEPT !.at = "result", !.abort = "none", !.status = "error"] /\ UNCHANGED procs
  /\ UNCHANGED <<messages, mailbox, wire, delivered, cancelled, env>>

\* The tool returns.  A command returns when its process is gone or its wait
\* is over, and then the process runs on; an aborted slow tool returns.
ToolDone ==
  /\ agent.at = "tool" /\ agent.ask = "none"
  /\ agent.tool = "slow" => agent.abort = "fired"
  /\ \E status \in IF agent.abort = "fired" THEN {"cancelled", "error"} ELSE {"ok", "error"} :
       agent' = [agent EXCEPT !.at = "result", !.abort = "none", !.status = status]
  /\ UNCHANGED <<messages, mailbox, procs, wire, delivered, cancelled, env>>

\* executeTool after the gate: a hung tool's result is replaced and the turn
\* goes on; injects are appended to the result.
ResultIn ==
  /\ agent.at = "result"
  /\ messages' = Append(messages, ToolResult(Head(agent.batch)))
  /\ LET a == [agent EXCEPT !.at = "next", !.batch = Tail(@), !.tool = "none", !.status = "none"]
     IN  IF agent.status = "ended"
         THEN agent' = a /\ UNCHANGED <<mailbox, delivered, wire>>
         ELSE /\ Drain(agent.turn, "tool")
              /\ IF agent.status # "blocked" /\ agent.reason = "resume_tool_hang"
                 THEN agent' = [a EXCEPT !.reason = "none"] /\ Emit(<<"resumed">>)
                 ELSE agent' = a /\ UNCHANGED wire
  /\ UNCHANGED <<procs, cancelled, env>>

\* The acknowledgement of turn_finished: what waits in the mailbox is late,
\* and a prompt that waited begins.
FinishAcked ==
  /\ agent.at = "finish"
  /\ LET a == [SetPhase(agent, "idle") EXCEPT !.at = "idle", !.active = FALSE, !.finishing = FALSE,
                                              !.reason = "none", !.queued = "none", !.batch = <<>>]
     IN  IF agent.queued = "none" THEN agent' = a /\ UNCHANGED wire
         ELSE agent' = Begun(a, agent.queued) /\ Emit(BeginEvents(agent.queued))
  /\ DiscardLate
  /\ UNCHANGED <<messages, procs, cancelled, env>>

(***************************************************************************)
(* Questions and inbound messages.                                         *)
(***************************************************************************)

\* The end of askUser: the phase before the question returns.
Asked(a) ==
  [IF a.phase = "waiting_answer" THEN SetPhase(a, a.before) ELSE a EXCEPT !.ask = "none"]

Answer ==
  /\ agent.ask = "question"
  /\ agent' = [Asked(agent) EXCEPT !.at = "result", !.abort = "none", !.status = "ok"]
  /\ UNCHANGED <<messages, mailbox, procs, wire, delivered, cancelled, env>>

Continue(proceed) ==
  /\ agent.ask = "continue"
  /\ IF proceed
     THEN agent' = Request([Asked(agent) EXCEPT !.made = 0]) /\ UNCHANGED <<messages, wire>>
     ELSE FinishTurn(Asked(agent), messages, "end")
  /\ UNCHANGED <<mailbox, procs, delivered, cancelled, env>>

Abort(a) == [a EXCEPT !.abort = IF @ = "armed" THEN "fired" ELSE @]

\* terminateAll asks every listed process to stop and waits for them.
TerminateAll == procs' = [procs EXCEPT !.reaping = @ \cup ({procs.listed} \ {{}})]

\* A rejected question ends its tool, a rejected request to continue ends the
\* batch.
Rejected(a) ==
  CASE a.ask = "none" -> a
    [] a.ask = "question" -> [Asked(a) EXCEPT !.at = "result", !.status = "cancelled", !.abort = "none"]
    [] a.ask = "continue" -> [Asked(a) EXCEPT !.at = "next"]

Cancel ==
  /\ agent.active /\ Allowed("cancels") /\ Spend("cancels")
  /\ agent' = Abort(Rejected([agent EXCEPT !.reason = "cancel"]))
  /\ cancelled' = [turn |-> agent.turn, overruled |-> 0]
  /\ TerminateAll
  /\ UNCHANGED <<messages, mailbox, wire, delivered>>

\* onResume: ignored while nothing can stall, confirmed while nothing is in
\* flight; otherwise it aborts what is in flight, whatever was aborted before.
OnResume ==
  IF ~agent.active \/ agent.phase \in {"idle", "waiting_answer"} THEN UNCHANGED <<agent, procs, wire, cancelled>>
  ELSE IF agent.abort = "none" THEN Emit(<<"resumed">>) /\ UNCHANGED <<agent, procs, cancelled>>
  ELSE /\ agent' = Abort([agent EXCEPT !.reason = IF agent.phase = "tool_call" THEN "resume_tool_hang" ELSE "resume_frozen"])
       /\ cancelled' = IF Aborted THEN [cancelled EXCEPT !.overruled = agent.turn] ELSE cancelled
       /\ IF agent.phase = "tool_call" THEN TerminateAll ELSE UNCHANGED procs
       /\ UNCHANGED wire

Resume ==
  /\ Allowed("resumes") /\ Spend("resumes")
  /\ OnResume
  /\ UNCHANGED <<messages, mailbox, delivered>>

Inject(about) ==
  /\ Allowed("injects") /\ Spend("injects")
  /\ Push(about)
  /\ UNCHANGED <<agent, messages, procs, wire, delivered, cancelled>>

(***************************************************************************)
(* Child processes.                                                        *)
(***************************************************************************)

\* A process exits by itself or because it was asked to.
ChildExits(p) ==
  /\ p \in procs.running
  /\ procs' = [procs EXCEPT !.running = @ \ {p}, !.listed = @ \ {p}]
  /\ UNCHANGED <<agent, messages, mailbox, wire, delivered, cancelled, env>>

\* Mutant: the registry is emptied after the wait.
ReapedAll(pids) ==
  /\ procs' = [running |-> procs.running \ pids, listed |-> {}, reaping |-> procs.reaping \ {pids}]
  /\ UNCHANGED <<agent, messages, mailbox, wire, delivered, cancelled, env>>

\* The end of terminateAll's wait: who is still there is killed, and the
\* processes it started with leave the registry.
Reaped(pids) ==
  /\ procs' = [running |-> procs.running \ pids, listed |-> procs.listed \ pids, reaping |-> procs.reaping \ {pids}]
  /\ UNCHANGED <<agent, messages, mailbox, wire, delivered, cancelled, env>>

\* The steps of the turn itself.
TurnStep ==
  \/ UserAcked \/ CheckFit \/ CompactDone \/ ModelAborted \/ ModelFails \/ ModelAnswers
  \/ CompactAfterAnswer \/ HandleAnswer \/ NextCall \/ RequestAcked \/ Dispatch \/ Spawn
  \/ ToolDone \/ ResultIn \/ FinishAcked

\* The user decides.
Decision == Resolve \/ Answer \/ \E proceed \in BOOLEAN : Continue(proceed)

Reaping == \E pids \in procs.reaping : Reaped(pids)

\* The Supervisor names the prompt it saw last.
Outside ==
  \/ \E kind \in {"plain", "empty"} : Prompt(kind)
  \/ Cancel
  \/ Resume
  \/ \E about \in {agent.turn - 1, agent.turn} \cap Nat : Inject(about)
  \/ \E p \in procs.running : ChildExits(p)

AgentNext == TurnStep \/ Decision \/ Reaping \/ Outside

AgentFairness == WF_agentVars(TurnStep) /\ WF_agentVars(Decision)

AgentSpec == TurnInit /\ [][AgentNext]_agentVars /\ AgentFairness

(***************************************************************************)
(* Properties                                                              *)
(***************************************************************************)

\* Every result in the conversation answers a call of the assistant message
\* it follows, with nothing but other results between them, and once: what a
\* compaction or the window's limit cuts away never leaves a result without
\* its call.  (agent.ts:310-333, compaction.ts:67-77, 121-145; the providers
\* refuse such a conversation.)  The results a restart closes as unknown are
\* not covered: see the README.
ResultsHaveTheirCall ==
  \A i \in 1..Len(messages) : messages[i].role = "tool" =>
    \E j \in 1..(i - 1) :
      /\ messages[j].role = "assistant" /\ messages[i].ref \in messages[j].calls
      /\ \A k \in (j + 1)..(i - 1) : messages[k].role = "tool" /\ messages[k].ref # messages[i].ref

\* What the Supervisor says during a turn is heard in that turn or never, and
\* what it says between two turns is part of the next prompt and about the
\* turn before it.  (injection.ts:35-96, agent.ts:203-240, 626-662)
InjectInItsTurn ==
  \A d \in delivered :
    IF d.inject.during = 0 THEN d.inject.about = d.turn - 1 /\ d.where = "user"
    ELSE d.turn = d.inject.during /\ d.inject.about = d.turn /\ d.where = "tool"

\* A process that this Executor has started and that runs is in its registry, even
\* when it was started while terminateAll waited for others: the next cancel and
\* the shutdown find it.  A killed Executor's processes are in no registry; the
\* property is not about them.  (children.ts:13-51, tools/shell.ts:105-140)
OwnChildrenAreListed == procs.running \subseteq procs.listed

\* After a cancel no tool starts in that turn, whatever the user decides about
\* effects that were pending, unless a stall resume overruled the cancel.
\* (agent.ts:274-280, 325-330, 474, 592-622)
CancelSticks ==
  [][agent.at = "allowed" /\ agent'.at \in {"tool", "spawn"} =>
       \/ cancelled.turn # agent.turn
       \/ cancelled.overruled = agent.turn]_agentVars

\* What the comment says: "cancel or shutdown ends the turn; a stall resume
\* does not" (agent.ts:399), so after a cancel no tool starts in that turn.
CancelEndsTurn ==
  [][agent.at = "allowed" /\ agent'.at \in {"tool", "spawn"} => cancelled.turn # agent.turn]_agentVars

=============================================================================
