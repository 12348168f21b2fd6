---------------------------- MODULE AcpConnection ----------------------------
(***************************************************************************)
(* The ACP client's line: the bounded write queue, the correlation of      *)
(* requests and answers, the translation of events to updates, and the     *)
(* resynchronisation of the client after updates were dropped              *)
(* (acp/connection.ts, acp/translator.ts, acp/server.ts).  AcpServer       *)
(* models who is answered what; here is what becomes of the lines.         *)
(***************************************************************************)
EXTENDS Integers, Sequences, FiniteSets, SequencesExt

CONSTANTS
  QueueMax,    \* lines the queue holds before it drops updates (10000)
  MaxStored,   \* events of the session
  MaxLines     \* lines the client sends, and requests made of it

ASSUME ConnectionBounds == {QueueMax, MaxStored, MaxLines} \subseteq Nat \ {0}

VARIABLES
  writer,   \* the write queue
  link,     \* the server's and the connection's state
  session,  \* the session file: its events, and the updates a replay makes of them
  lost      \* updates dropped since the last resynchronisation (ghost)

acpVars == <<writer, link, session, lost>>

(***************************************************************************)
(* Write queue.                                                            *)
(***************************************************************************)
Update(n) == [kind |-> "update", n |-> n]
Answer(n) == [kind |-> "answer", n |-> n]
Question(n) == [kind |-> "request", n |-> n]
Droppable(line) == line.kind = "update"
Writing(w) == w.current # <<>>

\* Mutant: a full queue drops its oldest line, whatever it is.
DroppedAtHead(w) == IF Len(w.queue) < QueueMax THEN 0 ELSE 1

\* The line a full queue drops: its oldest update, 0 if it has none.
DroppedAt(w) == IF Len(w.queue) < QueueMax THEN 0 ELSE SelectInSeq(w.queue, Droppable)

\* enqueue: a full queue loses its oldest update, if it has one; else it
\* grows.  An idle queue starts to write at once.
Queued(w, line) ==
  LET at == DroppedAt(w)
      room == IF at = 0 THEN w.queue ELSE RemoveAt(w.queue, at)
  IN  IF w.dead THEN w
      ELSE IF ~Writing(w) THEN [w EXCEPT !.current = <<line>>]
      ELSE [w EXCEPT !.queue = Append(room, line), !.burst = @ + Len(w.queue) - Len(room)]

QueuedAll(w, lines) ==
  LET after[n \in 0..Len(lines)] == IF n = 0 THEN w ELSE Queued(after[n - 1], lines[n])
  IN  after[Len(lines)]
UpdatesOf(w) == {line.n : line \in {l \in ToSet(w.queue \o w.current) : Droppable(l)}}

\* The updates of "before" and "lines" that are no longer in "after".
Dropped(before, lines, after) ==
  (UpdatesOf(before) \cup {l.n : l \in {m \in ToSet(lines) : Droppable(m)}}) \ UpdatesOf(after)

Enqueues(lines) ==
  /\ writer' = QueuedAll(writer, lines)
  /\ lost' = IF writer.dead THEN lost ELSE lost \cup Dropped(writer, lines, writer')

\* drain: the line is out; the drops of the burst are reported when the queue
\* has run empty.
LineWritten ==
  /\ Writing(writer)
  /\ writer' = [writer EXCEPT !.current = IF writer.queue = <<>> THEN <<>> ELSE <<Head(writer.queue)>>,
                              !.queue = IF @ = <<>> THEN @ ELSE Tail(@),
                              !.burst = IF writer.queue = <<>> THEN 0 ELSE @]
  /\ link' = [link EXCEPT !.gap = @ \/ (writer.queue = <<>> /\ writer.burst > 0),
                          !.written = @ \cup ({Head(writer.current)} \ {l \in ToSet(writer.current) : Droppable(l)})]
  /\ UNCHANGED <<session, lost>>

WriteFails ==
  /\ Writing(writer)
  /\ writer' = [writer EXCEPT !.dead = TRUE, !.queue = <<>>, !.current = <<>>]
  /\ UNCHANGED <<link, session, lost>>

-----------------------------------------------------------------------------
(***************************************************************************)
(* Events and their updates.                                               *)
(***************************************************************************)
EventTypes == {"user_message", "tool_call_requested", "todo_finished", "turn_finished", "error"}

\* translate: how many updates an event becomes.  A finished todo list is
\* also a plan; the user's own message is told only in a replay.
Translated(type, replaying) ==
  CASE type = "todo_finished" -> 2
    [] type = "user_message"  -> IF replaying THEN 1 ELSE 0
    [] OTHER                  -> 1

\* replay leaves out turn ends, errors and other transient events.
Stored(s, type) ==
  [events |-> s.events + 1,
   replay |-> s.replay + IF type \in {"turn_finished", "error"} THEN 0 ELSE Translated(type, TRUE)]

Numbered(from, count) == [i \in 1..count |-> Update(from + i)]

\* onEvent: after a gap the session file is replayed first.
OnSessionEvent(type) ==
  /\ session.events < MaxStored
  /\ session' = Stored(session, type)
  /\ LET replay == IF link.gap THEN session'.replay ELSE 0
         lines == Numbered(link.seq, replay + Translated(type, FALSE))
     IN  /\ link' = [link EXCEPT !.gap = FALSE, !.seq = @ + Len(lines)]
         /\ writer' = QueuedAll(writer, lines)
         /\ lost' = IF writer.dead THEN lost
                    ELSE (IF link.gap THEN {} ELSE lost) \cup (Dropped(writer, lines, writer'))

\* An error outside a prompt is not told to the client, and no occasion to
\* resynchronise either.
OnErrorWhileIdle ==
  /\ session.events < MaxStored
  /\ session' = Stored(session, "error")
  /\ UNCHANGED <<writer, link, lost>>

-----------------------------------------------------------------------------
(***************************************************************************)
(* Requests and answers.                                                   *)
(***************************************************************************)
\* A line that is no message, or a request: it is answered.
FeedRequest ==
  /\ link.lines < MaxLines
  /\ Enqueues(<<Answer(link.lines + 1)>>)
  /\ link' = [link EXCEPT !.lines = @ + 1]
  /\ UNCHANGED session

\* A response ends its round trip; an unknown id changes nothing.
FeedResponse(id) ==
  /\ link.pending # {}
  /\ link' = [link EXCEPT !.pending = @ \ {id}]
  /\ UNCHANGED <<writer, session, lost>>

AskClient ==
  /\ link.next < MaxLines
  /\ Enqueues(<<Question(link.next + 1)>>)
  /\ link' = [link EXCEPT !.next = @ + 1, !.pending = @ \cup {link.next + 1}]
  /\ UNCHANGED session

CancelPending ==
  /\ link.pending # {}
  /\ link' = [link EXCEPT !.pending = {}]
  /\ UNCHANGED <<writer, session, lost>>

-----------------------------------------------------------------------------
AcpInit ==
  /\ writer = [queue |-> <<>>, current |-> <<>>, burst |-> 0, dead |-> FALSE]
  /\ link = [seq |-> 0, gap |-> FALSE, lines |-> 0, next |-> 0, pending |-> {}, written |-> {}]
  /\ session = [events |-> 0, replay |-> 0]
  /\ lost = {}

AcpNext ==
  \/ LineWritten \/ WriteFails
  \/ \E type \in EventTypes : OnSessionEvent(type)
  \/ OnErrorWhileIdle
  \/ FeedRequest
  \/ \E id \in 1..MaxLines : FeedResponse(id)
  \/ AskClient \/ CancelPending

AcpConnectionSpec == AcpInit /\ [][AcpNext]_acpVars

-----------------------------------------------------------------------------
\* As long as the client's pipe works, nothing is lost in silence: an answer
\* or a request is written or queued, and a dropped update is still to be
\* reported or has set the gap that makes the next event replay the session
\* (connection.ts:101-136, server.ts:346-350).
NothingLostSilently ==
  ~writer.dead =>
    /\ {Answer(n) : n \in 1..link.lines} \cup {Question(n) : n \in 1..link.next}
         \subseteq link.written \cup ToSet(writer.queue \o writer.current)
    /\ lost # {} => link.gap \/ (writer.burst > 0 /\ Writing(writer))
=============================================================================
