----------------------------- MODULE SessionLog ------------------------------
(***************************************************************************)
(* What a session's file says of the conversation (session/projection.ts)  *)
(* beside the conversation the Executor that writes it has in memory: text,*)
(* calls, their results, checkpoints, turns that end, are cancelled, fail  *)
(* or are cut off by a crash, and the restart that projects the file and   *)
(* closes the open calls as unknown (executor/main.ts).                    *)
(*                                                                         *)
(* A message is its role with what pairs results and calls: the ids of an  *)
(* assistant's calls, the id of a result, a prompt's number.  Text is there  *)
(* or not.                                                                 *)
(***************************************************************************)
EXTENDS Integers, Sequences, FiniteSets, SequencesExt

CONSTANTS
  KeepTail,      \* messages a checkpoint keeps at most (6)
  MaxResponses,  \* bound: answers of the model
  MaxBatch,      \* bound: calls of one answer
  MaxLogPrompts, \* bound: turns
  MaxDetours,    \* bound: compactions, results dropped, pauses and resumed calls
  MaxCrashes     \* bound: restarts

ASSUME LogBounds ==
  /\ {KeepTail, MaxResponses, MaxBatch, MaxLogPrompts} \subseteq Nat \ {0}
  /\ {MaxDetours, MaxCrashes} \subseteq Nat

VARIABLES
  log,    \* the events of the file and how many of them are acknowledged
  live,   \* the Executor's messages, where it is in its turn, the calls left
  logEnv  \* bounds used up

logVars == <<log, live, logEnv>>

(***************************************************************************)
(* Messages and events.                                                    *)
(***************************************************************************)
Message(role, calls, id, text) == [role |-> role, calls |-> calls, id |-> id, text |-> text]
User(prompt) == Message("user", <<>>, prompt, TRUE)
Note == User(0)
Checkpoint == Message("checkpoint", <<>>, 0, TRUE)
Assistant(calls, text) == Message("assistant", calls, 0, text)
Result(id) == Message("tool", <<>>, id, TRUE)

Event(type, id) == [type |-> type, id |-> id]

\* slice(-n), where n may be zero or more than there are.
LastN(s, n) == SubSeq(s, Max({1, Len(s) - n + 1}), Len(s))

\* The place i is the Rank(places, i)-th of them; the elements at some places, in their order.
Rank(places, i) == Cardinality({j \in places : j <= i})
ElementsAt(s, places) ==
  [k \in 1 .. Cardinality(places) |-> s[CHOOSE i \in places : Rank(places, i) = k]]

(***************************************************************************)
(* projectEvents.  p.at is where the pending assistant message stands once *)
(* it is pushed: 0 while it is not, -1 when a checkpoint has dropped it.   *)
(***************************************************************************)
NoPending == [open |-> FALSE, text |-> FALSE, calls |-> <<>>, at |-> 0]
FreshPending == [NoPending EXCEPT !.open = TRUE]
Pushed(p) == p.at # 0

Flushed(s) ==
  IF s.pend.open /\ ~Pushed(s.pend) /\ (s.pend.text \/ s.pend.calls # <<>>)
  THEN [s EXCEPT !.msgs = Append(@, Assistant(s.pend.calls, s.pend.text)),
                 !.pend.at = Len(s.msgs) + 1]
  ELSE s

\* A pushed or missing pending message is replaced by a fresh one.
Renewed(s) == IF s.pend.open /\ ~Pushed(s.pend) THEN s ELSE [s EXCEPT !.pend = FreshPending]

OnUserMessage(s, prompt) ==
  LET f == IF s.start >= 0 THEN Flushed(s) ELSE s
  IN  [f EXCEPT !.msgs = Append(@, User(prompt)), !.start = Len(f.msgs), !.pend = FreshPending]

\* Without text since the last result the call belongs to the same answer.
OnRequested(s, id) ==
  IF s.pend.open /\ Pushed(s.pend) /\ ~s.pend.text
  THEN IF s.pend.at > 0 THEN [s EXCEPT !.msgs[s.pend.at].calls = Append(@, id)] ELSE s
  ELSE LET r == Renewed(s) IN [r EXCEPT !.pend.calls = Append(@, id)]

\* Mutant: the result is pushed before the message that holds its call.
OnFinishedUnflushed(s, id) ==
  [s EXCEPT !.msgs = Append(@, Result(id)), !.pend.text = FALSE]
OnFinished(s, id) ==
  LET f == Flushed(s) IN [f EXCEPT !.msgs = Append(@, Result(id)), !.pend.text = FALSE]

OnTurnFinished(s) == [Flushed(s) EXCEPT !.start = -1, !.pend = NoPending]

OnCheckpoint(s, keep) ==
  LET f == Flushed(s)
      kept == Min({keep, Len(f.msgs)})
      dropped == Len(f.msgs) - kept
      at == f.pend.at - dropped + 1
  IN  [f EXCEPT !.msgs = <<Checkpoint>> \o LastN(@, kept),
                !.start = IF @ >= 0 THEN Min({@, kept + 1}) ELSE @,
                !.pend.at = IF @ <= 0 THEN @ ELSE IF at >= 2 THEN at ELSE -1]

ProjectionStep(s, e) ==
  CASE e.type = "user_message" -> OnUserMessage(s, e.id)
    [] e.type = "text_delta" -> [Renewed(s) EXCEPT !.pend.text = TRUE]
    [] e.type = "tool_call_requested" -> OnRequested(s, e.id)
    [] e.type = "tool_call_finished" -> OnFinished(s, e.id)
    [] e.type = "turn_finished" -> OnTurnFinished(s)
    [] e.type = "checkpoint_created" -> OnCheckpoint(s, e.id)

NoMessages == [msgs |-> <<>>, start |-> -1, pend |-> NoPending]
Projected(events) ==
  LET p[n \in 0 .. Len(events)] ==
        IF n = 0 THEN NoMessages ELSE ProjectionStep(p[n - 1], events[n])
  IN  p[Len(events)]

\* The turn that did not finish is dropped.
Restored(events) ==
  LET s == Projected(events)
  IN  IF s.start >= 0 THEN SubSeq(s.msgs, 1, s.start) ELSE s.msgs

LoggedIds(events, type) == {events[i].id : i \in {j \in DOMAIN events : events[j].type = type}}
\* The open calls, in the order of their requests.
OpenCallsOf(events) ==
  LET finished == LoggedIds(events, "tool_call_finished")
      open == ElementsAt(events, {i \in DOMAIN events : /\ events[i].type = "tool_call_requested"
                                                        /\ events[i].id \notin finished})
  IN  [i \in DOMAIN open |-> open[i].id]

(***************************************************************************)
(* The Executor that writes the log.                                       *)
(***************************************************************************)
LogInit ==
  /\ log = [events |-> <<>>, acked |-> 0]
  /\ live = [msgs |-> <<>>, pc |-> "idle", todo |-> <<>>, next |-> 1, again |-> {}]
  /\ logEnv = [prompts |-> 0, responses |-> 0, detours |-> 0, crashes |-> 0]

\* emit: the event is on its way; an awaited one waits until it is stored.
Emits(events) == log' = [log EXCEPT !.events = @ \o events]
TextIf(text) == IF text THEN <<Event("text_delta", 0)>> ELSE <<>>
EmitsAwaited(events) == log' = [events |-> log.events \o events, acked |-> Len(log.events \o events)]

Prompted ==
  /\ live.pc = "idle" /\ logEnv.prompts < MaxLogPrompts
  /\ EmitsAwaited(<<Event("user_message", logEnv.prompts + 1)>>)
  /\ live' = [live EXCEPT !.msgs = Append(@, User(logEnv.prompts + 1)), !.pc = "model",
                          !.again = {"pause", "resume"}]
  /\ logEnv' = [logEnv EXCEPT !.prompts = @ + 1]

\* The model answers with text, calls or both; the text is in the log first.
Responds ==
  /\ live.pc = "model" /\ logEnv.responses < MaxResponses
  /\ \E text \in BOOLEAN, n \in 0 .. MaxBatch :
       LET ids == [i \in 1 .. n |-> live.next + i - 1]
       IN  /\ live' = [live EXCEPT !.msgs = Append(@, Assistant(ids, text)), !.next = @ + n,
                                   !.todo = ids, !.pc = "answered"]
           /\ Emits(TextIf(text))
  /\ logEnv' = [logEnv EXCEPT !.responses = @ + 1]

\* compact: the tail without the results it begins with.
Tailed(msgs) ==
  LET tail == LastN(msgs, KeepTail)
      cut == Cardinality({i \in DOMAIN tail : \A j \in 1 .. i : tail[j].role = "tool"})
  IN  SubSeq(tail, cut + 1, Len(tail))

Detour == logEnv.detours < MaxDetours /\ logEnv' = [logEnv EXCEPT !.detours = @ + 1]

\* maybeCompact, in checkFit or between an answer and its calls.
Compacts ==
  /\ live.pc \in {"model", "answered"} /\ Detour
  /\ LET tail == Tailed(live.msgs)
     IN  /\ live' = [live EXCEPT !.msgs = <<Checkpoint>> \o tail,
                                 !.pc = IF @ = "answered" THEN "calls" ELSE @]
         /\ Emits(<<Event("checkpoint_created", Len(tail))>>)
NothingToCompact ==
  /\ live.pc = "answered"
  /\ live' = [live EXCEPT !.pc = "calls"]
  /\ UNCHANGED <<log, logEnv>>

\* checkFit's last resort: the oldest results go, the log does not say so.
DropsOldResults ==
  /\ live.pc = "model" /\ Len(live.msgs) > KeepTail /\ Detour
  /\ LET results == {i \in DOMAIN live.msgs : live.msgs[i].role = "tool"}
         gone == {i \in results : Rank(results, i) <= Len(live.msgs) - KeepTail}
     IN  /\ gone # {}
         /\ live' = [live EXCEPT !.msgs = ElementsAt(@, DOMAIN @ \ gone)]
  /\ UNCHANGED log

\* A call is requested, run, and its result emitted.
CallBegins ==
  /\ live.pc = "calls" /\ live.todo # <<>>
  /\ EmitsAwaited(<<Event("tool_call_requested", Head(live.todo))>>)
  /\ live' = [live EXCEPT !.pc = "tool"]
  /\ UNCHANGED logEnv
CallEnds ==
  /\ live.pc = "tool"
  /\ Emits(<<Event("tool_call_finished", Head(live.todo))>>)
  /\ live' = [live EXCEPT !.msgs = Append(@, Result(Head(live.todo))), !.todo = Tail(@), !.pc = "calls"]
  /\ UNCHANGED logEnv

AllDone == live.pc = "calls" /\ live.todo = <<>>
AfterResults == live.msgs[Len(live.msgs)].role = "tool"
\* The answer's calls are done: the model is called again.
NextRound ==
  /\ AllDone /\ AfterResults
  /\ live' = [live EXCEPT !.pc = "model"]
  /\ UNCHANGED <<log, logEnv>>

\* The provider asks for another call after an answer without calls.
Pauses ==
  /\ AllDone /\ ~AfterResults /\ "pause" \in live.again /\ Detour
  /\ live' = [live EXCEPT !.pc = "model", !.again = @ \ {"pause"}]
  /\ UNCHANGED log

\* The Supervisor's resume aborts the model call, maybe after text, and a note
\* goes to the model; once in a turn.
CallResumed ==
  /\ live.pc = "model" /\ "resume" \in live.again /\ Detour
  /\ \E text \in BOOLEAN : Emits(TextIf(text))
  /\ live' = [live EXCEPT !.msgs = Append(@, Note), !.again = @ \ {"resume"}]

\* The turn ends: after an answer without calls, at a cancel (also one that
\* leaves calls undone), a refusal or a limit, and in the model's call.
TurnFinishes ==
  /\ live.pc \in {"model", "calls"}
  /\ \E text \in IF live.pc = "model" THEN BOOLEAN ELSE {FALSE} :
       EmitsAwaited(TextIf(text) \o <<Event("turn_finished", 0)>>)
  /\ live' = [live EXCEPT !.pc = "idle", !.todo = <<>>, !.again = {}]
  /\ UNCHANGED logEnv

\* A provider error ends the turn without turn_finished, maybe after text.
TurnFails ==
  /\ live.pc = "model"
  /\ \E text \in BOOLEAN : Emits(TextIf(text))
  /\ live' = [live EXCEPT !.pc = "idle", !.again = {}]
  /\ UNCHANGED logEnv

\* The Executor dies; events that nobody acknowledged may not have arrived.
\* Its successor takes the projection, closes the open calls and tells the model.
Restarts ==
  /\ logEnv.crashes < MaxCrashes
  /\ \E n \in log.acked .. Len(log.events) :
       LET stored == SubSeq(log.events, 1, n)
           open == OpenCallsOf(stored)
       IN  /\ log' = [events |-> stored \o [i \in DOMAIN open |-> Event("tool_call_finished", open[i])], acked |-> n]
           /\ live' = [live EXCEPT !.msgs = Restored(stored) \o [i \in DOMAIN open |-> Result(open[i])],
                                   !.pc = "idle", !.todo = <<>>, !.again = {}]
  /\ logEnv' = [logEnv EXCEPT !.crashes = @ + 1]

LogNext ==
  \/ Prompted \/ Responds \/ Compacts \/ NothingToCompact \/ DropsOldResults \/ CallBegins \/ CallEnds
  \/ NextRound \/ Pauses \/ CallResumed \/ TurnFinishes \/ TurnFails \/ Restarts

LogSpec == LogInit /\ [][LogNext]_logVars

(***************************************************************************)
(* Properties.                                                             *)
(***************************************************************************)
IdsIn(msgs) == UNION {{msgs[i].calls[k] : k \in DOMAIN msgs[i].calls} : i \in DOMAIN msgs}
Results(msgs) == {i \in DOMAIN msgs : msgs[i].role = "tool"}
HasCall(msgs, i) == \E j \in 1 .. i - 1 : msgs[i].id \in ToSet(msgs[j].calls)

AllResults(msgs, from, to) == \A j \in from .. to : msgs[j].role = "tool"

\* A checkpoint, and up to the message at n older ones and results only.
Leading(msgs, n) ==
  msgs[1].role = "checkpoint" /\ \A j \in 1 .. n : msgs[j].role \in {"checkpoint", "tool"}

\* A provider accepts a conversation whose results follow their calls and whose
\* calls are answered, once, before anything else is said.  A restored one is
\* such wherever the writer was cut off, whatever turns before were cancelled,
\* failed or never finished.  With a checkpoint two things can be wrong, and no
\* more: results without their call behind it, as it counts the messages the
\* Executor kept and not the projection's, with nothing but older checkpoints
\* among them; and an unanswered call (projection.ts:76-205, compaction.ts:131-144).
ResumedPairs ==
  LET msgs == Restored(log.events)
  IN  /\ \A i \in Results(msgs) :
           HasCall(msgs, i) \/ Leading(msgs, i)
      /\ \A i, k \in Results(msgs) : msgs[i].id = msgs[k].id => i = k
      /\ LoggedIds(log.events, "checkpoint_created") = {} =>
           \A i \in DOMAIN msgs : \A id \in ToSet(msgs[i].calls) :
             \E k \in Results(msgs) : k > i /\ msgs[k].id = id /\ AllResults(msgs, i + 1, k)

\* "crash tail: the in-flight turn is dropped (IG-02); the Communicator re-sends
\* its prompt on resume" (projection.ts:198): a file that ends within a turn
\* restores to a conversation without that turn's prompt.
CrashTailIsDropped ==
  LET prompts == SelectSeq(log.events, LAMBDA e : e.type = "user_message")
  IN  Projected(log.events).start >= 0 =>
        User(prompts[Len(prompts)].id) \notin ToSet(Restored(log.events))
=============================================================================
