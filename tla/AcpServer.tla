------------------------------ MODULE AcpServer ------------------------------
(***************************************************************************)
(* The ACP frontend: one client on a JSON-RPC line, the server that turns  *)
(* its requests into Communicator calls (acp/server.ts) and the brokers    *)
(* that turn the Executor's questions into client requests                 *)
(* (acp/brokers.ts), composed with as much of the Communicator and of the  *)
(* Executor as they can observe: the turn state, the session, the two FIFO *)
(* channels, exits and respawns.  What happens to a line on its way to the *)
(* client, and the resynchronisation after lost updates, is AcpConnection. *)
(*                                                                         *)
(* Prompt requests are numbered by arrival.  The server's state is one     *)
(* record, so that a handler is an operator from the record before the     *)
(* call to the record after it.                                            *)
(***************************************************************************)
EXTENDS Integers, Sequences, FiniteSets, SequencesExt

CONSTANTS
  MaxPrompts,  \* prompt requests a client sends
  MaxCancels,  \* session/cancel and $/cancel_request notifications
  MaxCalls,    \* tool calls the Executor requests
  MaxAsks,     \* ask_user messages
  MaxExits,    \* Executor exits
  MaxOpens     \* session/new and session/load requests

ASSUME BoundsAreNaturals ==
  {MaxPrompts, MaxCancels, MaxCalls, MaxAsks, MaxExits, MaxOpens} \subseteq Nat

VARIABLES
  acp,     \* the server, its connection and its write queue
  comm,    \* the Communicator as the server sees it
  exec,    \* the Executor's turn
  toExec,  \* messages on their way to the Executor
  toComm,  \* messages on their way to the Communicator
  used     \* how much of each bound has been used

vars == <<acp, comm, exec, toExec, toComm, used>>

Prompts == 1..MaxPrompts
Pending(r) == [id |-> r, withError |-> FALSE, timer |-> FALSE]
NoPrompt == Pending(0)
NoAsk == [kind |-> "none", rid |-> 0]
Kinds == {"continue", "question", "pending"}

(***************************************************************************)
(* Server.                                                                 *)
(***************************************************************************)

\* Mutant: the prompt stays pending after its answer.
FinishKeepsPrompt(a, stop, turn) ==
  IF a.pend = NoPrompt THEN a
  ELSE [a EXCEPT !.answers[a.pend.id] = Append(@, [stop |-> stop, turn |-> turn])]

\* finishPrompt: answers the pending prompt, once.  "turn" is the turn whose
\* event caused the answer, 0 for a timer or the end of the input.
Finish(a, stop, turn) ==
  IF a.pend = NoPrompt THEN a
  ELSE [a EXCEPT !.answers[a.pend.id] = Append(@, [stop |-> stop, turn |-> turn]), !.pend = NoPrompt]

\* The answer an event gives to the pending prompt.
FinishOnEvent(a, e) ==
  CASE e.type = "turn_finished" ->
         Finish(a, IF a.pend.withError THEN "error" ELSE e.stop, e.turn)
    [] e.type = "error" /\ e.stop \in {"provider", "turn ended"} -> Finish(a, "error", e.turn)
    [] OTHER -> a

\* Mutant: the tool call is remembered only while a prompt is pending.
OnEventOfPrompt(a, e) ==
  IF a.pend = NoPrompt THEN a
  ELSE FinishOnEvent(IF e.type = "tool_call_requested" THEN [a EXCEPT !.lastCall = e.rid] ELSE a, e)

\* onEvent: remembers the tool call a permission may be asked for, and
\* answers the prompt if the event ends its turn.
OnEvent(a, e) ==
  IF a.pend = NoPrompt /\ e.type = "error" THEN a
  ELSE FinishOnEvent(IF e.type = "tool_call_requested" THEN [a EXCEPT !.lastCall = e.rid] ELSE a, e)

Event(type, turn, stop, rid) == [type |-> type, turn |-> turn, stop |-> stop, rid |-> rid]
ToExec(type, rid, yes) == [type |-> type, rid |-> rid, yes |-> yes]

\* A message for an Executor that is not there is lost.
Sent(msgs) == IF exec.up THEN toExec \o msgs ELSE toExec

\* What a broker sends to the Executor when its client request is over: a
\* refusal, an error and a cancelled request all decide for stop and deny.
ContinueDecision(yes) == ToExec("continue", 0, yes)
PermissionDecision(effect, yes) == ToExec("resolve", effect, yes)
ElicitationAnswer(rid) == ToExec("answer", rid, TRUE)

Decision(trip, yes) ==
  CASE trip.kind = "continue" -> ContinueDecision(yes)
    [] trip.kind = "pending"  -> PermissionDecision(trip.rid, yes)
    [] trip.kind = "question" -> ElicitationAnswer(trip.rid)

\* continueDecision and answer clear the Communicator's waiting state;
\* resolvePending does not.
AfterDecision(kinds) ==
  IF comm.turn = "waiting" /\ kinds \cap {"continue", "question"} # {} THEN "running" ELSE comm.turn

\* cancelPending: every client request is rejected, the oldest first; the
\* brokers' decisions are sent in the microtasks after the caller's own message.
TripOrders ==
  {order \in [1..Cardinality(acp.trips) -> acp.trips] :
     \A i, j \in DOMAIN order : i < j => order[i] # order[j] /\ order[i].rid <= order[j].rid}
CancelledTrips(order) == [i \in DOMAIN order |-> Decision(order[i], FALSE)]

Fresh == [up |-> TRUE, turn |-> 0, aborted |-> FALSE, ask |-> NoAsk, call |-> 0, open |-> 0, writing |-> FALSE]
Gone == [Fresh EXCEPT !.up = FALSE]

Init ==
  /\ acp = [state |-> "uninitialized", form |-> FALSE, opening |-> "no",
            lastCall |-> 0, pend |-> NoPrompt, trips |-> {},
            answers |-> [r \in Prompts |-> <<>>]]
  /\ comm = [turn |-> "idle", prompt |-> 0, session |-> FALSE, restarted |-> FALSE,
             stalled |-> {}, noFinish |-> FALSE]
  /\ exec = Fresh
  /\ toExec = <<>>
  /\ toComm = <<>>
  /\ used = [prompts |-> 0, cancels |-> 0, calls |-> 0, asks |-> 0, exits |-> 0, opens |-> 0]

Use(what) == used' = [used EXCEPT ![what] = @ + 1]

\* initialize: repeated requests get the same answer and change nothing.
Initialize(form) ==
  /\ acp.state = "uninitialized"
  /\ acp' = [acp EXCEPT !.state = "initialized", !.form = form]
  /\ UNCHANGED <<comm, exec, toExec, toComm, used>>

\* handleRequest: nothing but initialize before the handshake.
Routed == acp.state = "initialized"

\* requireIdle: a session is opened only between turns, one at a time.
Idle == acp.pend = NoPrompt /\ comm.turn = "idle" /\ acp.opening = "no"

\* session/new and session/load.  A session that is already open is
\* switched: its store is closed and its children told to leave, at once.
HandleSessionOpen ==
  /\ Routed /\ Idle
  /\ used.opens < MaxOpens /\ Use("opens")
  /\ acp' = [acp EXCEPT !.opening = IF comm.session THEN "switch" ELSE "open"]
  /\ comm' = [comm EXCEPT !.session = FALSE]
  /\ UNCHANGED <<exec, toExec, toComm>>

\* The new store exists; after a switch, so do new children.
SessionOpening ==
  /\ acp.state # "shutdown"
  /\ acp.opening \in {"open", "switch"}
  /\ acp' = [acp EXCEPT !.opening = "acks"]
  /\ comm' = [comm EXCEPT !.session = TRUE, !.noFinish = IF acp.opening = "switch" THEN FALSE ELSE @]
  /\ IF acp.opening = "switch"
     THEN /\ exec' = [Fresh EXCEPT !.call = exec.call]
          /\ toExec' = <<>> /\ toComm' = <<>>
     ELSE UNCHANGED <<exec, toExec, toComm>>
  /\ UNCHANGED used

\* A child of the switch sends no hello: no session is left.
SwitchFails ==
  /\ acp.state # "shutdown" /\ acp.opening = "switch"
  /\ acp' = [acp EXCEPT !.opening = "no"]
  /\ exec' = [Gone EXCEPT !.call = exec.call]
  /\ toExec' = <<>> /\ toComm' = <<>>
  /\ UNCHANGED <<comm, used>>

\* The acknowledgements came, or did not: answered either way.
SessionOpened ==
  /\ acp.state # "shutdown"
  /\ acp.opening = "acks"
  /\ acp' = [acp EXCEPT !.opening = "no"]
  /\ UNCHANGED <<comm, exec, toExec, toComm, used>>

\* assemblePromptText refuses empty prompts and other content blocks.
HasText(kind) == kind # "malformed"

\* session/prompt.  Refused without a session or while a turn is active; a
\* builtin (/status, /cost) is answered on the spot; anything else starts a
\* turn.  An Executor that is not there is respawned first (Respawned).
HandleSessionPrompt(kind) ==
  /\ acp.state # "shutdown" /\ used.prompts < MaxPrompts /\ Use("prompts")
  /\ LET r == used.prompts + 1
         refused == ~Routed \/ ~comm.session \/ acp.pend # NoPrompt \/ comm.turn # "idle" \/ ~HasText(kind)
     IN  IF refused \/ kind = "builtin"
         THEN /\ acp' = [acp EXCEPT !.answers[r] = <<[stop |-> IF refused THEN "error" ELSE "end", turn |-> 0]>>]
              /\ UNCHANGED <<comm, toExec>>
         ELSE /\ acp' = [acp EXCEPT !.pend = Pending(r)]
              /\ comm' = [comm EXCEPT !.turn = "running", !.prompt = r, !.restarted = FALSE]
              /\ toExec' = Sent(<<ToExec("prompt", r, TRUE)>>)
  /\ UNCHANGED <<exec, toComm>>

\* Mutant: a second cancel clears the first one's timer and sets none.
StartCancelOnce(withError) ==
  /\ acp' = [acp EXCEPT !.pend.withError = withError, !.pend.timer = ~@, !.trips = {}]
  /\ \E order \in TripOrders : toExec' = Sent(<<ToExec("cancel", 0, TRUE)>> \o CancelledTrips(order))
  /\ comm' = [comm EXCEPT !.turn = AfterDecision({t.kind : t \in acp.trips})]
  /\ UNCHANGED <<exec, toComm>>

\* startCancel: arms (or replaces) the timer, rejects the client requests,
\* tells the Executor.
StartCancel(withError) ==
  /\ acp' = [acp EXCEPT !.pend.withError = withError, !.pend.timer = TRUE, !.trips = {}]
  /\ \E order \in TripOrders : toExec' = Sent(<<ToExec("cancel", 0, TRUE)>> \o CancelledTrips(order))
  /\ comm' = [comm EXCEPT !.turn = AfterDecision({t.kind : t \in acp.trips})]
  /\ UNCHANGED <<exec, toComm>>

HandleSessionCancel ==
  /\ acp.state # "shutdown" /\ acp.pend # NoPrompt
  /\ used.cancels < MaxCancels /\ Use("cancels")
  /\ StartCancel(FALSE)

HandleCancelRequest(r) ==
  /\ acp.state # "shutdown" /\ acp.pend.id = r
  /\ used.cancels < MaxCancels /\ Use("cancels")
  /\ StartCancel(TRUE)

\* The Executor did not confirm in time: the Communicator's turn is ended
\* without it and the prompt is answered.
CancelTimer ==
  /\ acp.pend.timer
  /\ acp' = Finish(OnEvent(acp, Event("error", 0, "process", 0)),
                   IF acp.pend.withError THEN "error" ELSE "cancelled", 0)
  /\ comm' = [comm EXCEPT !.turn = "idle", !.stalled = @ \cup {acp.pend.id}]
  /\ UNCHANGED <<exec, toExec, toComm, used>>

\* The end of the client's input cancels the turn and answers its prompt;
\* then the Communicator shuts its children down (acp/main.ts), and nothing
\* they still send is answered to anyone.
OnEof ==
  /\ acp.state # "shutdown"
  /\ acp' = Finish([acp EXCEPT !.state = "shutdown", !.trips = {}], "cancelled", 0)
  /\ exec' = Gone
  /\ toExec' = <<>> /\ toComm' = <<>>
  /\ UNCHANGED <<comm, used>>

\* onAskUser: each kind has its broker; without form support a question is
\* answered at once with the fallback text.
HandleAsk(m) ==
  IF m.stop = "question" /\ ~acp.form
  THEN /\ toExec' = Sent(<<ElicitationAnswer(m.rid)>>)
       /\ UNCHANGED <<acp, comm>>
  ELSE /\ acp' = [acp EXCEPT !.trips = @ \cup {[rid |-> m.rid, kind |-> m.stop,
                   shown |-> IF m.stop = "pending" THEN acp.lastCall ELSE 0]}]
       /\ comm' = [comm EXCEPT !.turn = IF @ = "idle" THEN @ ELSE "waiting"]
       /\ UNCHANGED toExec

\* The client answers; an error, or anything but the allowing option, is a
\* refusal.
ClientResponds(trip, allow) ==
  /\ trip \in acp.trips
  /\ acp' = [acp EXCEPT !.trips = @ \ {trip}]
  /\ toExec' = Sent(<<Decision(trip, allow)>>)
  /\ comm' = [comm EXCEPT !.turn = AfterDecision({trip.kind})]
  /\ UNCHANGED <<exec, toComm, used>>

-----------------------------------------------------------------------------
(***************************************************************************)
(* Communicator: what it does with the Executor's messages and exit.       *)
(***************************************************************************)

\* The Executor goes on when the line it waits for is acknowledged, and not
\* with that of a call that an earlier turn gave up.
Acknowledged(m) ==
  IF m.type = "tool_call_requested" /\ exec.writing /\ m.rid = exec.call
  THEN [exec EXCEPT !.open = m.rid, !.writing = FALSE] ELSE exec

\* Mutant: turn_finished ends only a turn that does not wait for an answer.
CommReceivesRunning ==
  /\ toComm # <<>>
  /\ toComm' = Tail(toComm)
  /\ LET m == Head(toComm) IN
     CASE m.type = "ask_user" -> HandleAsk(m) /\ UNCHANGED exec
       [] OTHER ->
            /\ acp' = OnEvent(acp, m)
            /\ comm' = [comm EXCEPT !.turn = IF m.type = "turn_finished" /\ @ = "running" THEN "idle" ELSE @]
            /\ exec' = Acknowledged(m)
            /\ UNCHANGED toExec
  /\ UNCHANGED used

\* An event whose line cannot be appended (no session is open) goes no
\* further and is not acknowledged; the acknowledgement is taken to arrive at
\* once, for it overtakes what is queued (InboundQueue).  turn_finished ends
\* the turn before the frontend hears of it.
CommReceives ==
  /\ toComm # <<>>
  /\ toComm' = Tail(toComm)
  /\ LET m == Head(toComm) IN
     CASE m.type = "ask_user" -> HandleAsk(m) /\ UNCHANGED exec
       [] m.type # "ask_user" /\ ~comm.session -> UNCHANGED <<acp, comm, exec, toExec>>
       [] OTHER ->
            /\ acp' = OnEvent(acp, m)
            /\ comm' = [comm EXCEPT !.turn = IF m.type = "turn_finished" THEN "idle" ELSE @]
            /\ exec' = Acknowledged(m)
            /\ UNCHANGED toExec
  /\ UNCHANGED used

\* Mutant: what the dead Executor had sent is still delivered.
ExecutorExitsPipeOpen ==
  /\ exec.up /\ acp.opening = "no" /\ used.exits < MaxExits /\ Use("exits")
  /\ exec' = [Gone EXCEPT !.call = exec.call]
  /\ toExec' = <<>>
  /\ acp' = OnEvent(acp, Event("error", 0, "process", 0))
  /\ comm' = [comm EXCEPT !.restarted = comm.turn # "idle"]
  /\ UNCHANGED toComm

\* The Executor exits: both channels are lost.  The first exit of a turn is
\* followed by a respawn that replays the prompt, the second ends the turn.
\* An exit while a session opens only fails the opening.
ExecutorExits ==
  /\ exec.up /\ acp.opening = "no" /\ used.exits < MaxExits /\ Use("exits")
  /\ exec' = [Gone EXCEPT !.call = exec.call]
  /\ toExec' = <<>> /\ toComm' = <<>>
  /\ IF comm.turn # "idle" /\ comm.restarted
     THEN /\ acp' = OnEvent(acp, Event("error", comm.prompt, "turn ended", 0))
          /\ comm' = [comm EXCEPT !.turn = "idle"]
     ELSE /\ acp' = OnEvent(acp, Event("error", 0, "process", 0))
          /\ comm' = [comm EXCEPT !.restarted = comm.turn # "idle"]

Respawned ==
  /\ ~exec.up /\ acp.state # "shutdown"
  /\ exec' = [exec EXCEPT !.up = TRUE]
  /\ IF comm.turn = "idle"
     THEN UNCHANGED <<toExec, comm>>
     ELSE /\ toExec' = Append(toExec, ToExec("prompt", comm.prompt, TRUE))
          /\ comm' = [comm EXCEPT !.turn = "running"]
  /\ UNCHANGED <<acp, toComm, used>>

RespawnFails ==
  /\ ~exec.up /\ comm.turn # "idle" /\ acp.state # "shutdown"
  /\ acp' = OnEvent(acp, Event("error", comm.prompt, "turn ended", 0))
  /\ comm' = [comm EXCEPT !.turn = "idle"]
  /\ UNCHANGED <<exec, toExec, toComm, used>>

-----------------------------------------------------------------------------
(***************************************************************************)
(* Executor: one turn, its questions and how it ends.                      *)
(***************************************************************************)
Emit(e) == toComm' = Append(toComm, e)
InTurn == exec.up /\ exec.turn # 0 /\ exec.ask = NoAsk
Working == InTurn /\ ~exec.writing

\* resolve travels on the control lane and may overtake the others.
NextForExec == {i \in 1..Len(toExec) :
                  \/ i = 1
                  \/ /\ toExec[i].type = "resolve"
                     /\ \A j \in 1..(i - 1) : toExec[j].type # "resolve"}

\* What the Executor does with one message.  A prompt during a turn is
\* refused with a warning; a cancel rejects an open question but not a
\* pending effect, which only a resolve ends; a continue carries no id.
ExecReceives ==
  /\ exec.up
  /\ \E i \in NextForExec :
       LET m == toExec[i]
           open == exec.ask
           ends == CASE m.type = "continue" -> open.kind = "continue"
                     [] m.type = "cancel" -> open.kind \in {"continue", "question"}
                     [] m.type = "answer" -> open.kind = "question" /\ open.rid = m.rid
                     [] m.type = "resolve" -> open.kind = "pending" /\ open.rid = m.rid
                     [] OTHER -> FALSE
       IN  /\ toExec' = RemoveAt(toExec, i)
           /\ exec' = [exec EXCEPT !.turn = IF m.type = "prompt" /\ @ = 0 THEN m.rid ELSE @,
                                   !.aborted = @ \/ (m.type = "cancel" /\ exec.turn # 0),
                                   !.ask = IF ends THEN NoAsk ELSE @]
           /\ IF m.type = "prompt" /\ exec.turn # 0
              THEN Emit(Event("error", exec.turn, "none", 0))
              ELSE UNCHANGED toComm
  /\ UNCHANGED <<acp, comm, used>>

\* Of the events of a running turn only a tool call's request line is told
\* apart by the server.  The Executor goes on when the line is acknowledged.
ExecCalls ==
  /\ Working /\ ~exec.aborted /\ used.calls < MaxCalls /\ Use("calls")
  /\ exec' = [exec EXCEPT !.call = @ + 1, !.writing = TRUE]
  /\ Emit(Event("tool_call_requested", exec.turn, "none", exec.call + 1))
  /\ UNCHANGED <<acp, comm, toExec>>

\* A pending effect is asked about under the id of its tool call.
ExecAsks(kind) ==
  /\ Working /\ ~exec.aborted /\ used.asks < MaxAsks /\ Use("asks")
  /\ kind = "pending" => exec.open > 0
  /\ LET rid == IF kind = "pending" THEN exec.open ELSE 10 + used.asks
     IN  /\ exec' = [exec EXCEPT !.ask = [kind |-> kind, rid |-> rid]]
         /\ Emit(Event("ask_user", exec.turn, kind, rid))
  /\ UNCHANGED <<acp, comm, toExec>>

ExecFinishes ==
  /\ Working
  /\ exec' = [exec EXCEPT !.turn = 0, !.aborted = FALSE, !.open = 0, !.writing = FALSE]
  /\ Emit(Event("turn_finished", exec.turn, IF exec.aborted THEN "cancelled" ELSE "end", 0))
  /\ UNCHANGED <<acp, comm, toExec, used>>

\* A provider error, and a turn that fails on a missing acknowledgement, end
\* the turn with an error event and no turn_finished.
ExecFails(category) ==
  /\ InTurn
  /\ exec' = [exec EXCEPT !.turn = 0, !.aborted = FALSE, !.open = 0, !.writing = FALSE]
  /\ comm' = [comm EXCEPT !.noFinish = TRUE]
  /\ Emit(Event("error", exec.turn, category, 0))
  /\ UNCHANGED <<acp, toExec, used>>

-----------------------------------------------------------------------------
Next ==
  \/ \E form \in BOOLEAN : Initialize(form)
  \/ HandleSessionOpen \/ SessionOpening \/ SwitchFails \/ SessionOpened
  \/ \E k \in {"text", "builtin", "malformed"} : HandleSessionPrompt(k)
  \/ HandleSessionCancel
  \/ \E r \in Prompts : HandleCancelRequest(r)
  \/ CancelTimer
  \/ OnEof
  \/ \E t \in acp.trips, allow \in BOOLEAN : ClientResponds(t, allow)
  \/ CommReceives \/ ExecutorExits \/ Respawned \/ RespawnFails
  \/ ExecReceives \/ ExecCalls \/ ExecFinishes
  \/ \E k \in Kinds : ExecAsks(k)
  \/ \E c \in {"provider", "process"} : ExecFails(c)

\* The only fairness a cancelled prompt needs is that of its timer.
Fairness == WF_vars(CancelTimer)
Spec == Init /\ [][Next]_vars /\ Fairness

-----------------------------------------------------------------------------
(***************************************************************************)
(* Properties.                                                             *)
(***************************************************************************)

\* A session/prompt request is answered exactly once, and not while it is
\* pending: turn_finished, the cancel timer, the error lines, the end of the
\* input and a second cancel race for the same answer (server.ts:319-335).
AnsweredOnce ==
  \A r \in Prompts :
    /\ Len(acp.answers[r]) <= 1
    /\ acp.pend.id = r => acp.answers[r] = <<>>
    /\ r <= used.prompts => acp.answers[r] # <<>> \/ acp.pend.id = r

\* The turn did not answer its prompt: its cancel timer gave it up, or the end
\* of an earlier turn answered the prompt.
Unanswering(t) ==
  \/ t \in comm.stalled
  \/ \E i \in 1..Len(acp.answers[t]) : acp.answers[t][i].turn \notin {0, t}

\* A prompt is answered by the end of its own turn.  The end of another turn
\* answers it only when that is an earlier turn, which a cancel timer gave up
\* while the Executor still ran it; then the answers are one prompt late from
\* there on, for the turn that lost its answer this way answers the next prompt
\* (server.ts:347-366, 410-416).
OwnAnswer ==
  \A r \in Prompts : \A i \in 1..Len(acp.answers[r]) :
    LET t == acp.answers[r][i].turn IN t \in {0, r} \/ (t < r /\ Unanswering(t))

\* A cancelled prompt is answered whatever the Executor does: the timer is
\* enough (server.ts:403-417).
CancelIsAnswered ==
  \A r \in Prompts : (acp.pend.id = r /\ acp.pend.timer) ~> (acp.answers[r] # <<>>)

\* A permission request names the tool call whose effect is pending, although
\* the call id is remembered from an earlier event (server.ts:358, 372-376).
PermissionNamesItsCall ==
  \A t \in acp.trips : t.kind = "pending" => t.shown = t.rid

\* A client without a pending prompt can start one once the Executor is quiet:
\* the Communicator's turn is idle, unless a turn ended with an error event
\* and no turn_finished (server.ts:304, agent.ts:265-272).
NoGhostTurn ==
  acp.pend = NoPrompt /\ exec.up /\ exec.turn = 0 /\ toExec = <<>> /\ toComm = <<>>
    => comm.turn = "idle" \/ comm.noFinish
=============================================================================
