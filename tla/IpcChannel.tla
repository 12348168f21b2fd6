------------------------------ MODULE IpcChannel ------------------------------
(***************************************************************************)
(* The message channel between the Communicator and one child, at the      *)
(* level of process/ipc.ts and process/child.ts: the bounded inbound queue *)
(* of each side, the waits for acknowledgements with their timers, the     *)
(* child's write-ahead send with its second interval, and how a child      *)
(* leaves.  Communicator takes all this as FIFO channels and an "acked"    *)
(* flag; here is why it may.                                               *)
(*                                                                         *)
(* Both ends are instances of one class, so the channel operators are      *)
(* operators on a channel record.  Durations are abstract: a timer may     *)
(* fire in any state in which its wait is registered.                      *)
(***************************************************************************)
EXTENDS Integers, Sequences, FiniteSets, SequencesExt

CONSTANTS
  MaxEvents,    \* events and heartbeats the child sends (the warnings are extra)
  MaxOrders,    \* prompts and halts the Communicator sends
  DisplayMax,   \* length of the display lane (1000)
  UnmatchedMax  \* acknowledgements kept without a waiter (1000)

ASSUME ChannelBounds == {MaxEvents, MaxOrders, DisplayMax, UnmatchedMax} \subseteq Nat \ {0}

VARIABLES
  chan,     \* the channel object of each side
  wire,     \* messages on their way to each side
  child,    \* the child's sends that wait, how it leaves, and its session
  open,     \* the Communicator's wait for session_open
  handled,  \* id of the message each lane has handled last (ghost)
  stored    \* ids of the events the Communicator has appended (ghost)

ipcVars == <<chan, wire, child, open, handled, stored>>

Sides == {"comm", "child"}
Control == {"halt", "admit_result", "resolve", "ack"}
IsControl(m) == m.type \in Control
Msg(id, type, ref, valid) == [id |-> id, type |-> type, ref |-> ref, valid |-> valid]

(***************************************************************************)
(* The channel object.                                                     *)
(***************************************************************************)
NewChannel == [next |-> 1, pending |-> {}, unmatched |-> <<>>, inbound |-> 0,
               control |-> <<>>, display |-> <<>>, draining |-> FALSE, closed |-> FALSE]

\* Mutant: a full display lane costs the oldest control message.
EnqueueDropsControl(c, m) ==
  IF Len(c.display) >= DisplayMax /\ c.control # <<>> THEN [c EXCEPT !.control = Tail(@)]
  ELSE IF IsControl(m) THEN [c EXCEPT !.control = Append(@, m)]
  ELSE [c EXCEPT !.display = Append(@, m)]

\* send: the message takes the channel's next id.
Numbered(c) == [c EXCEPT !.next = @ + 1]

\* enqueue: control messages are never dropped, the oldest display message is.
Enqueue(c, m) ==
  IF IsControl(m) THEN [c EXCEPT !.control = Append(@, m)]
  ELSE [c EXCEPT !.display = Append(IF Len(@) >= DisplayMax THEN Tail(@) ELSE @, m)]

Registered(c, id) == \E p \in c.pending : p.id = id

\* Mutant: an acknowledgement settles the oldest wait.
SettlesOldest(c, ref) ==
  IF c.pending # {}
  THEN [c EXCEPT !.pending = {p \in @ : \E q \in c.pending : q.id < p.id}]
  ELSE [c EXCEPT !.unmatched = Append(@, ref)]

\* An acknowledgement ends its wait; without one it is kept, within a bound.
Settles(c, ref) ==
  IF Registered(c, ref)
  THEN [c EXCEPT !.pending = {p \in @ : p.id # ref}]
  ELSE LET kept == IF Contains(c.unmatched, ref) THEN c.unmatched ELSE Append(c.unmatched, ref)
       IN  [c EXCEPT !.unmatched = IF Len(kept) > UnmatchedMax THEN Tail(kept) ELSE kept]

\* Mutant: a full queue accepts no message at all.
DispatchedUnlessFull(c, m) ==
  IF c.closed \/ ~m.valid \/ Len(c.display) >= DisplayMax THEN c
  ELSE Enqueue([(IF m.type = "ack" THEN Settles(c, m.ref) ELSE c) EXCEPT !.inbound = @ + 1], m)

\* dispatch: an acknowledgement is seen here, before it waits in the queue.
\* What does not validate is reported and forgotten; it is no traffic.
Dispatched(c, m) ==
  IF c.closed \/ ~m.valid THEN c
  ELSE Enqueue([(IF m.type = "ack" THEN Settles(c, m.ref) ELSE c) EXCEPT !.inbound = @ + 1], m)

\* awaitAck: an acknowledgement that came already ends the wait at once.
Awaiting(c, id) ==
  IF Contains(c.unmatched, id)
  THEN [c EXCEPT !.unmatched = SelectSeq(@, LAMBDA u : u # id)]
  ELSE [c EXCEPT !.pending = @ \cup {[id |-> id, at |-> c.inbound]}]

Expired(c, p) == [c EXCEPT !.pending = @ \ {p}]
OtherTrafficSeen(c, p) == c.inbound > p.at

\* close: every wait is rejected, no input is accepted any more.
Closed(c) == [c EXCEPT !.closed = TRUE, !.pending = {}]

\* drain: all control messages, then the display lane.
NextUp(c) == IF c.control # <<>> THEN Head(c.control) ELSE Head(c.display)
Taken(c) ==
  LET rest == IF c.control # <<>> THEN [c EXCEPT !.control = Tail(@)] ELSE [c EXCEPT !.display = Tail(@)]
  IN  [rest EXCEPT !.draining = rest.control # <<>> \/ rest.display # <<>>]

(***************************************************************************)
(* Both sides.                                                             *)
(***************************************************************************)
Other(p) == IF p = "comm" THEN "child" ELSE "comm"
HasInput(p) == chan[p].control # <<>> \/ chan[p].display # <<>>
Alive == child.leaving # "exited"
ToWire(p, msgs) == wire' = [wire EXCEPT ![Other(p)] = @ \o msgs]

\* One message of the pipe reaches the channel object.  drain runs to its end
\* before the next one is dispatched, but may start after several.
Dispatch(p) ==
  /\ Alive /\ wire[p] # <<>> /\ ~chan[p].draining
  /\ wire' = [wire EXCEPT ![p] = Tail(@)]
  /\ chan' = [chan EXCEPT ![p] = Dispatched(@, Head(wire[p]))]
  /\ LET m == Head(wire[p]) IN
     IF m.type = "ack" /\ p = "child"
     THEN child' = [child EXCEPT !.waits = {w \in @ : Registered(chan'[p], w.id)},
                                 !.arrived = @ \cup {m.ref}]
     ELSE UNCHANGED child
  /\ open' = IF p = "comm" /\ open.state = "waiting" /\ ~Registered(chan'[p], open.id)
             THEN [open EXCEPT !.state = "ok"] ELSE open
  /\ UNCHANGED <<handled, stored>>

Drains(p) ==
  /\ HasInput(p)
  /\ LET m == NextUp(chan[p]) IN handled' = [handled EXCEPT ![p][IsControl(m)] = m.id]

\* The Communicator handles a message.  An event whose append fails, or whose
\* handler throws, is not acknowledged; the rest of the queue is unaffected.
CommHandles(appended) ==
  /\ Drains("comm")
  /\ LET m == NextUp(chan["comm"]) IN
     IF m.type = "event" /\ appended
     THEN /\ stored' = stored \cup {m.id}
          /\ chan' = [chan EXCEPT !["comm"] = Numbered(Taken(@))]
          /\ ToWire("comm", IF Alive THEN <<Msg(chan["comm"].next, "ack", m.id, TRUE)>> ELSE <<>>)
     ELSE chan' = [chan EXCEPT !["comm"] = Taken(@)] /\ UNCHANGED <<stored, wire>>
  /\ UNCHANGED <<child, open>>

-----------------------------------------------------------------------------
(***************************************************************************)
(* The Communicator sends.                                                 *)
(***************************************************************************)
SentByComm == chan["comm"].next - 1 - Cardinality(stored)
CommMaySend == Alive /\ ~HasInput("comm") /\ open.state # "no" /\ SentByComm < MaxOrders + 1

\* Numbered by its first id; sendSessionOpen waits for the child's answer.
SendSessionOpen ==
  /\ Alive /\ ~HasInput("comm") /\ open.state = "no"
  /\ open' = [state |-> "waiting", id |-> chan["comm"].next]
  /\ chan' = [chan EXCEPT !["comm"] = Numbered(Awaiting(@, open'.id))]
  /\ ToWire("comm", <<Msg(open'.id, "session_open", 0, TRUE)>>)
  /\ UNCHANGED <<child, handled, stored>>

CommSends(type) ==
  /\ CommMaySend
  /\ chan' = [chan EXCEPT !["comm"] = Numbered(@)]
  /\ ToWire("comm", <<Msg(chan["comm"].next, type, 0, TRUE)>>)
  /\ UNCHANGED <<child, open, handled, stored>>

OpenTimer ==
  /\ ~HasInput("comm") /\ open.state = "waiting"
  /\ open' = [open EXCEPT !.state = "failed"]
  /\ chan' = [chan EXCEPT !["comm"].pending = {p \in @ : p.id # open.id}]
  /\ UNCHANGED <<wire, child, handled, stored>>

-----------------------------------------------------------------------------
(***************************************************************************)
(* The child.                                                              *)
(***************************************************************************)
\* A timer, a send or an exit comes after the microtask that drains.
Running == Alive /\ ~HasInput("child")

\* terminate: whatever the reason, the first starts the finalizer and the
\* others find it under way.
Leaves(ch) == IF ch.leaving = "no" THEN [ch EXCEPT !.leaving = "leaving"] ELSE ch

\* sendEvent without the wait.
SendEvent ==
  /\ Running /\ child.sent < MaxEvents
  /\ chan' = [chan EXCEPT !["child"] = Numbered(@)]
  /\ child' = [child EXCEPT !.sent = @ + 1]
  /\ ToWire("child", <<Msg(chan["child"].next, "event", 0, TRUE)>>)
  /\ UNCHANGED <<open, handled, stored>>

\* sendEvent with the wait, which is registered before the message leaves.
\* What the Communicator awaits is sent for a session.
SendEventAwaits(valid) ==
  /\ Running /\ child.session /\ child.sent < MaxEvents
  /\ LET id == chan["child"].next IN
     /\ chan' = [chan EXCEPT !["child"] = Numbered(Awaiting(@, id))]
     /\ child' = [child EXCEPT !.sent = @ + 1, !.awaited = @ \cup {id},
                               !.waits = @ \cup {[id |-> id, interval |-> 1]}]
     /\ ToWire("child", <<Msg(id, "event", 0, valid)>>)
  /\ UNCHANGED <<open, handled, stored>>

\* The wait's timer.  After a first interval with other traffic the child
\* says so and waits once more for the same message; otherwise it takes the
\* Communicator for dead and leaves.
AckTimerOnce(w) ==
  /\ Running /\ w \in child.waits
  /\ \E p \in chan["child"].pending :
       /\ p.id = w.id
       /\ chan' = [chan EXCEPT !["child"] = Expired(@, p)]
       /\ child' = [Leaves(child) EXCEPT !.waits = @ \ {w}, !.givenUp = @ \cup {w.id}]
  /\ UNCHANGED <<wire, open, handled, stored>>

AckTimerRenewed(w) ==
  /\ Running /\ w \in child.waits /\ w.interval = 1
  /\ \E p \in chan["child"].pending :
       /\ p.id = w.id /\ OtherTrafficSeen(chan["child"], p)
       /\ chan' = [chan EXCEPT !["child"] = Numbered(Awaiting(Expired(@, p), w.id))]
       /\ child' = [child EXCEPT !.waits = (@ \ {w}) \cup
                      IF Registered(chan'["child"], w.id) THEN {[w EXCEPT !.interval = 2]} ELSE {}]
       /\ ToWire("child", <<Msg(chan["child"].next, "event", 0, TRUE)>>)
  /\ UNCHANGED <<open, handled, stored>>

\* Mutant: the second interval has no timer.
AckTimerOnlyFirst(w) ==
  \/ AckTimerRenewed(w)
  \/ /\ w.interval = 1
     /\ \A p \in chan["child"].pending : p.id = w.id => ~OtherTrafficSeen(chan["child"], p)
     /\ AckTimerOnce(w)

AckTimer(w) ==
  \/ AckTimerRenewed(w)
  \/ /\ \A p \in chan["child"].pending : p.id = w.id => w.interval = 2 \/ ~OtherTrafficSeen(chan["child"], p)
     /\ AckTimerOnce(w)

\* route: session_open is acknowledged when its handler is done, and the
\* messages after it are handled meanwhile; a shutdown starts to leave.
ChildHandles ==
  /\ Alive /\ Drains("child")
  /\ chan' = [chan EXCEPT !["child"] = Taken(@)]
  /\ LET m == NextUp(chan["child"]) IN
     child' = CASE m.type = "session_open" -> [child EXCEPT !.opening = m.id, !.session = TRUE]
                [] m.type = "shutdown" -> Leaves(child)
                [] m.type = "ack" -> [child EXCEPT !.seen = @ \cup {m.ref}]
                [] OTHER -> child
  /\ UNCHANGED <<wire, open, stored>>

SessionOpened ==
  /\ Running /\ child.opening # 0
  /\ child' = [child EXCEPT !.opening = 0]
  /\ chan' = [chan EXCEPT !["child"] = Numbered(@)]
  /\ ToWire("child", <<Msg(chan["child"].next, "ack", child.opening, TRUE)>>)
  /\ UNCHANGED <<open, handled, stored>>

Disconnected ==
  /\ Running /\ child.leaving = "no"
  /\ child' = Leaves(child)
  /\ UNCHANGED <<chan, wire, open, handled, stored>>

\* The process is gone: by its exit function, the force timer, a session that
\* cannot be opened, or a crash.  onChildExit closes the Communicator's end.
Gone ==
  /\ ~HasInput("comm")
  /\ child' = [child EXCEPT !.leaving = "exited"]
  /\ wire' = [p \in Sides |-> <<>>]
  /\ chan' = [chan EXCEPT !["comm"] = Closed(@), !["child"] = NewChannel]
  /\ open' = IF open.state = "waiting" THEN [open EXCEPT !.state = "failed"] ELSE open
  /\ UNCHANGED <<handled, stored>>

\* The finalizer has returned, or the force timer fired.
Exits == Running /\ child.leaving = "leaving" /\ Gone
Crashes == Running /\ child.leaving = "no" /\ Gone
OpenThrows == Running /\ child.opening # 0 /\ Gone

-----------------------------------------------------------------------------
IpcInit ==
  /\ chan = [p \in Sides |-> NewChannel]
  /\ wire = [p \in Sides |-> <<>>]
  /\ child = [waits |-> {}, awaited |-> {}, givenUp |-> {}, arrived |-> {}, seen |-> {}, sent |-> 0,
              opening |-> 0, session |-> FALSE, leaving |-> "no"]
  /\ open = [state |-> "no", id |-> 0]
  /\ handled = [p \in Sides |-> [control \in BOOLEAN |-> 0]]
  /\ stored = {}

IpcNext ==
  \/ \E p \in Sides : Dispatch(p)
  \/ \E appended \in BOOLEAN : CommHandles(appended)
  \/ SendSessionOpen
  \/ \E t \in {"prompt", "halt", "shutdown"} : CommSends(t)
  \/ OpenTimer
  \/ SendEvent
  \/ \E valid \in BOOLEAN : SendEventAwaits(valid)
  \/ \E w \in child.waits : AckTimer(w)
  \/ ChildHandles \/ SessionOpened \/ Disconnected
  \/ Exits \/ Crashes \/ OpenThrows

\* Timers fire, a leaving process leaves, and what was dispatched is handled.
IpcFairness ==
  /\ WF_ipcVars(\E w \in child.waits : AckTimer(w))
  /\ WF_ipcVars(Exits)
  /\ WF_ipcVars(ChildHandles)
  /\ WF_ipcVars(\E appended \in BOOLEAN : CommHandles(appended))
IpcSpec == IpcInit /\ [][IpcNext]_ipcVars /\ IpcFairness

-----------------------------------------------------------------------------
(***************************************************************************)
(* Properties.                                                             *)
(***************************************************************************)
Waiting(id) == \E w \in child.waits : w.id = id
Returned == {id \in child.awaited : id \notin child.givenUp /\ ~Waiting(id)}

\* An awaited sendEvent returns only when that very event is in the store:
\* acknowledgements of other messages, late ones and the second interval do
\* not end it (ipc.ts:182-195, child.ts:143-166).
AckedMeansStored == Returned \subseteq stored

\* Each lane is handled in the order it was sent, and as long as the child
\* lives no acknowledgement is lost on the way to it, however full the
\* display lane is (ipc.ts:46-82).
AckOnItsWay(id) ==
  \E m \in ToSet(wire["child"]) \cup ToSet(chan["child"].control) : m.type = "ack" /\ m.ref = id
LaneDiscipline ==
  [][/\ \A p \in Sides, control \in BOOLEAN : handled[p][control]' >= handled[p][control]
     /\ Alive' => \A id \in stored' : id \in child.seen' \/ AckOnItsWay(id)']_ipcVars

\* A child gives its Communicator up only while the acknowledgement has not
\* reached it: one that comes between the two intervals, or behind other
\* traffic, counts (child.ts:157-165).
NoAckMissed ==
  [][\A id \in child.givenUp' \ child.givenUp : id \notin child.arrived]_ipcVars

\* Every awaited send ends: it returns, or the process leaves and exits
\* (child.ts:154-187).
WaitEnds ==
  \A id \in 1..(2 * MaxEvents) : Waiting(id) ~> (id \in Returned \/ child.leaving = "exited")
=============================================================================
