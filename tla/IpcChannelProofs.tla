-------------------------- MODULE IpcChannelProofs --------------------------
(***************************************************************************)
(* Why an Executor may take "acked" for "stored", for any number of        *)
(* messages in either direction and lanes of any length: the messages of a *)
(* lane are handled in the order they were sent, an acknowledgement that   *)
(* is sent arrives, and it ends the wait of its own event only.            *)
(***************************************************************************)
EXTENDS IpcChannel, SequenceTheorems, TLAPS

MessageType == {"event", "ack", "session_open", "prompt", "halt", "shutdown"}
Message == [id : Nat, type : MessageType, ref : Nat, valid : BOOLEAN]

\* A channel object, whatever its acknowledgements without a waiter.
IsChannel(c) ==
  c \in [next : Nat, pending : SUBSET [id : Nat, at : Nat], unmatched : {c.unmatched}, inbound : Nat,
         control : Seq({m \in Message : IsControl(m)}), display : Seq({m \in Message : ~IsControl(m)}),
         draining : BOOLEAN, closed : BOOLEAN]

ChildType == [waits : SUBSET [id : Nat, interval : {1, 2}], awaited : SUBSET Nat, givenUp : SUBSET Nat,
              arrived : SUBSET Nat, seen : SUBSET Nat, sent : Nat, opening : Nat, session : BOOLEAN,
              leaving : {"no", "leaving", "exited"}]

TypeOK ==
  /\ chan = [p \in Sides |-> chan[p]] /\ \A p \in Sides : IsChannel(chan[p])
  /\ wire \in [Sides -> Seq(Message)]
  /\ child \in ChildType
  /\ open \in [state : {"no", "waiting", "ok", "failed"}, id : Nat]
  /\ handled \in [Sides -> [BOOLEAN -> Nat]]
  /\ stored \in SUBSET Nat

(* Messages between the one handled last and a next one, in their order.   *)
Between(q, last, next) ==
  /\ q \in Seq(Message) /\ last \in Nat /\ next \in Nat /\ last < next
  /\ \A i \in 1 .. Len(q) : last < q[i].id /\ q[i].id < next
  /\ \A i, j \in 1 .. Len(q) : i < j => q[i].id < q[j].id

(* The id of the message that arrives next.                                *)
Arriving(w, next) == IF w = <<>> THEN next ELSE Head(w).id

(* What waits in a lane was sent after what the lane handled, and before   *)
(* what is still on its way.                                               *)
SideInOrder(c, w, last, next) ==
  /\ Between(w, 0, next)
  /\ Between(c.control, last[TRUE], Arriving(w, next))
  /\ Between(c.display, last[FALSE], Arriving(w, next))
InOrder ==
  Alive => \A p \in Sides : SideInOrder(chan[p], wire[p], handled[p], chan[Other(p)].next)
(* Afterwards nothing is left.                                             *)
NothingLeft ==
  ~Alive => \A p \in Sides : wire[p] = <<>> /\ chan[p].control = <<>> /\ chan[p].display = <<>>
OpenWhileAlive == Alive => \A p \in Sides : ~chan[p].closed

(* What the Communicator acknowledges is in its store, every such message  *)
(* validates, and what has arrived is among it.                            *)
ToChildMsg == {m \in Message : m.valid /\ (m.type = "ack" => m.ref \in stored)}
AcksAreStored ==
  /\ wire["child"] \in Seq(ToChildMsg)
  /\ chan["child"].control \in Seq({m \in ToChildMsg : IsControl(m)})
  /\ child.arrived \subseteq stored
  /\ chan["child"].unmatched \in Seq(Nat) /\ ToSet(chan["child"].unmatched) \subseteq child.arrived

(* No acknowledgement is lost while the child lives.                       *)
AckArrives == Alive => \A id \in stored : id \in child.seen \/ AckOnItsWay(id)

(* Ids are fresh, and each wait is registered, for an event of its own     *)
(* whose acknowledgement has not arrived.                                  *)
WaitsAreRegistered ==
  Alive =>
    /\ \A id \in stored \cup child.awaited : id < chan["child"].next
    /\ \A w \in child.waits :
         /\ w.id \in child.awaited \ child.arrived
         /\ Registered(chan["child"], w.id)
         /\ \A v \in child.waits : v.id = w.id => v = w

IpcInv ==
  /\ TypeOK /\ InOrder /\ NothingLeft /\ OpenWhileAlive /\ AcksAreStored /\ AckArrives
  /\ WaitsAreRegistered /\ AckedMeansStored
-----------------------------------------------------------------------------
(* Sequences of messages.                                                  *)

(* What Append does to a sequence, place by place.                         *)
LEMMA AppendFacts ==
  ASSUME NEW S, NEW q \in Seq(S), NEW m \in S
  PROVE  /\ Append(q, m) \in Seq(S) /\ q \o <<m>> = Append(q, m)
         /\ Len(q) \in Nat /\ Len(Append(q, m)) = Len(q) + 1
         /\ Append(q, m)[Len(q) + 1] = m
         /\ \A i \in 1 .. Len(q) : Append(q, m)[i] = q[i]
BY AppendProperties, AppendIsConcat, LenProperties

(* What Head and Tail do, place by place.                                  *)
LEMMA TailFacts ==
  ASSUME NEW S, NEW q \in Seq(S), q # <<>>
  PROVE  /\ Tail(q) \in Seq(S) /\ Head(q) \in S /\ Head(q) = q[1]
         /\ Len(q) \in Nat \ {0} /\ Len(Tail(q)) = Len(q) - 1
         /\ \A i \in 1 .. Len(q) - 1 : Tail(q)[i] = q[i + 1]
OBVIOUS

(* The members of a sequence that grew at its end, or lost its first.      *)
LEMMA MembersOf ==
  ASSUME NEW S, NEW q \in Seq(S)
  PROVE  /\ \A m \in S : ToSet(Append(q, m)) = ToSet(q) \cup {m}
         /\ q # <<>> => ToSet(q) = ToSet(Tail(q)) \cup {Head(q)}
         /\ ToSet(q) \subseteq S
<1>1. ToSet(q) = {q[i] : i \in 1 .. Len(q)} /\ ToSet(q) \subseteq S
  BY DEF ToSet
<1>2. ASSUME NEW m \in S PROVE ToSet(Append(q, m)) = ToSet(q) \cup {m}
  BY <1>1, AppendFacts DEF ToSet
<1>3. ASSUME q # <<>> PROVE ToSet(q) = ToSet(Tail(q)) \cup {Head(q)}
  <2>1. /\ DOMAIN Tail(q) = 1 .. Len(q) - 1 /\ DOMAIN q = 1 .. Len(q) /\ Len(q) \in Nat \ {0}
        /\ Head(q) = q[1] /\ \A i \in 1 .. Len(q) - 1 : Tail(q)[i] = q[i + 1]
    BY <1>3, TailFacts, LenProperties
  <2>2. ASSUME NEW i \in 1 .. Len(q) PROVE q[i] \in ToSet(Tail(q)) \cup {Head(q)}
    <3>1. CASE i = 1 BY <2>1, <3>1
    <3>2. CASE i # 1
      <4>1. i - 1 \in 1 .. Len(q) - 1 /\ (i - 1) + 1 = i
        BY <2>1, <3>2
      <4>2. q[i] = Tail(q)[i - 1]
        BY <2>1, <4>1
      <4>3. QED BY <2>1, <4>1, <4>2 DEF ToSet
    <3>3. QED BY <3>1, <3>2
  <2>3. ASSUME NEW i \in 1 .. Len(q) - 1 PROVE i + 1 \in 1 .. Len(q)
    BY <2>1
  <2>4. 1 \in 1 .. Len(q)
    BY <2>1
  <2>5. QED BY <1>1, <2>1, <2>2, <2>3, <2>4 DEF ToSet
<1>4. QED BY <1>1, <1>2, <1>3

(* A lane with nothing in it.                                              *)
LEMMA BetweenEmpty ==
  ASSUME NEW last \in Nat, NEW next \in Nat, last < next
  PROVE  Between(<<>>, last, next)
BY EmptySeq DEF Between

(* The next message at the end of a lane; a later one is next.             *)
LEMMA BetweenAppend ==
  ASSUME NEW q, NEW last, NEW next, Between(q, last, next),
         NEW m \in Message, m.id = next, NEW after \in Nat, next < after
  PROVE  Between(Append(q, m), last, after)
<1>1. \A n \in Message : n.id \in Nat
  BY DEF Message
<1>2. /\ q \in Seq(Message) /\ Append(q, m) \in Seq(Message)
      /\ Len(q) \in Nat /\ Len(Append(q, m)) = Len(q) + 1 /\ Append(q, m)[Len(q) + 1] = m
      /\ \A i \in 1 .. Len(q) : Append(q, m)[i] = q[i]
  BY AppendFacts DEF Between
<1>3. \A i \in 1 .. Len(q) : q[i] \in Message /\ q[i].id \in Nat
  BY <1>1, <1>2, ElementOfSeq
<1>4. ASSUME NEW i \in 1 .. Len(q) + 1 PROVE i \in 1 .. Len(q) \/ i = Len(q) + 1
  BY <1>2
<1>5. QED
  BY <1>2, <1>3, <1>4 DEF Between

(* A lane stays in its bounds when the upper one is raised.                *)
LEMMA BetweenLater ==
  ASSUME NEW q, NEW last, NEW next, Between(q, last, next), NEW after \in Nat, next <= after
  PROVE  Between(q, last, after)
<1>1. \A n \in Message : n.id \in Nat
  BY DEF Message
<1>2. \A i \in 1 .. Len(q) : q[i].id \in Nat
  BY <1>1, ElementOfSeq DEF Between
<1>3. QED BY <1>2 DEF Between

(* The first message of a lane leaves it, or is handled.                   *)
LEMMA BetweenTail ==
  ASSUME NEW q, NEW last, NEW next, Between(q, last, next), q # <<>>
  PROVE  /\ Between(Tail(q), last, next) /\ Between(Tail(q), Head(q).id, next)
         /\ last < Head(q).id /\ Head(q) \in Message
<1>1. q \in Seq(Message)
  BY DEF Between
<1>2. /\ Tail(q) \in Seq(Message) /\ Head(q) \in Message /\ Head(q) = q[1]
      /\ Len(q) \in Nat \ {0} /\ Len(Tail(q)) = Len(q) - 1
      /\ \A i \in 1 .. Len(q) - 1 : Tail(q)[i] = q[i + 1]
  BY <1>1, TailFacts
<1>3. Head(q).id \in Nat
  BY <1>2 DEF Message
<1>4. \A i \in 1 .. Len(q) - 1 : i \in 1 .. Len(q) /\ i + 1 \in 1 .. Len(q) /\ 1 < i + 1
  BY <1>2
<1>5. QED
  BY <1>1, <1>2, <1>3, <1>4 DEF Between

-----------------------------------------------------------------------------
(* The operators of the channel object.                                    *)

(* The lanes of a channel object hold messages.                            *)
LEMMA LaneTypes ==
  ASSUME NEW c, IsChannel(c)
  PROVE  /\ c.control \in Seq(Message) /\ c.display \in Seq(Message)
         /\ c.next \in Nat /\ c.closed \in BOOLEAN
         /\ c.pending \in SUBSET [id : Nat, at : Nat]
         /\ c.control # <<>> => IsControl(Head(c.control)) /\ Head(c.control) \in Message
         /\ c.display # <<>> => ~IsControl(Head(c.display)) /\ Head(c.display) \in Message
<1>1. /\ {m \in Message : IsControl(m)} \subseteq Message
      /\ {m \in Message : ~IsControl(m)} \subseteq Message
  OBVIOUS
<1>2. /\ c.control \in Seq({m \in Message : IsControl(m)})
      /\ c.display \in Seq({m \in Message : ~IsControl(m)})
      /\ c.next \in Nat /\ c.closed \in BOOLEAN /\ c.pending \in SUBSET [id : Nat, at : Nat]
  BY DEF IsChannel
<1>3. c.control \in Seq(Message) /\ c.display \in Seq(Message)
  BY <1>1, <1>2, SeqMonotonic
<1>4. /\ c.control # <<>> => Head(c.control) \in {m \in Message : IsControl(m)}
      /\ c.display # <<>> => Head(c.display) \in {m \in Message : ~IsControl(m)}
  BY <1>2, TailFacts
<1>5. QED BY <1>2, <1>3, <1>4

(* enqueue: a control message joins its lane; any other joins the other    *)
(* lane, which may lose its oldest one for it.                             *)
LEMMA EnqueueFacts ==
  ASSUME NEW c, IsChannel(c), NEW m \in Message
  PROVE  /\ IsChannel(Enqueue(c, m))
         /\ Enqueue(c, m).next = c.next /\ Enqueue(c, m).pending = c.pending
         /\ Enqueue(c, m).unmatched = c.unmatched /\ Enqueue(c, m).closed = c.closed
         /\ IsControl(m) => /\ Enqueue(c, m).control = Append(c.control, m)
                            /\ Enqueue(c, m).display = c.display
         /\ ~IsControl(m) => /\ Enqueue(c, m).control = c.control
                             /\ \/ Enqueue(c, m).display = Append(c.display, m)
                                \/ /\ c.display # <<>>
                                   /\ Enqueue(c, m).display = Append(Tail(c.display), m)
<1> DEFINE Ctl == {n \in Message : IsControl(n)}
           Dsp == {n \in Message : ~IsControl(n)}
<1>1. c \in [next : Nat, pending : SUBSET [id : Nat, at : Nat], unmatched : {c.unmatched}, inbound : Nat,
              control : Seq(Ctl), display : Seq(Dsp), draining : BOOLEAN, closed : BOOLEAN]
  BY DEF IsChannel
<1>2. CASE IsControl(m)
  <2>1. Append(c.control, m) \in Seq(Ctl)
    <3>1. m \in Ctl /\ c.control \in Seq(Ctl)
      BY <1>1, <1>2
    <3>2. QED BY <3>1, AppendFacts
  <2>2. Enqueue(c, m) = [c EXCEPT !.control = Append(c.control, m)]
    BY <1>2 DEF Enqueue
  <2> HIDE DEF Ctl, Dsp
  <2>3. QED BY <1>1, <1>2, <2>1, <2>2 DEF IsChannel, Ctl, Dsp
<1>3. CASE ~IsControl(m)
  <2>1. PICK q : /\ q = IF Len(c.display) >= DisplayMax THEN Tail(c.display) ELSE c.display
                 /\ Enqueue(c, m) = [c EXCEPT !.display = Append(q, m)]
    BY <1>3 DEF Enqueue
  <2>2. m \in Dsp /\ c.display \in Seq(Dsp) /\ Len(c.display) \in Nat /\ DisplayMax \in Nat \ {0}
    BY <1>1, <1>3, ChannelBounds, LenProperties
  <2>3. Len(c.display) >= DisplayMax => c.display # <<>> /\ Tail(c.display) \in Seq(Dsp)
    BY <2>2, TailFacts, EmptySeq
  <2>4. Append(q, m) \in Seq(Dsp) /\ (q = c.display \/ (c.display # <<>> /\ q = Tail(c.display)))
    BY <2>1, <2>2, <2>3, AppendFacts
  <2> HIDE DEF Ctl, Dsp
  <2>5. QED BY <1>1, <1>3, <2>1, <2>4 DEF IsChannel, Ctl, Dsp
<1>4. QED BY <1>2, <1>3

(* An acknowledgement ends the waits for its message and no others.        *)
LEMMA SettlesFacts ==
  ASSUME NEW c, IsChannel(c), NEW ref \in Nat
  PROVE  /\ IsChannel(Settles(c, ref))
         /\ Settles(c, ref).next = c.next /\ Settles(c, ref).closed = c.closed
         /\ Settles(c, ref).control = c.control /\ Settles(c, ref).display = c.display
         /\ \A p \in c.pending : p.id # ref => p \in Settles(c, ref).pending
         /\ \A p \in Settles(c, ref).pending : p \in c.pending /\ p.id # ref
         /\ c.unmatched \in Seq(Nat) => /\ Settles(c, ref).unmatched \in Seq(Nat)
                                        /\ ToSet(Settles(c, ref).unmatched) \subseteq ToSet(c.unmatched) \cup {ref}
<1>1. CASE Registered(c, ref)
  BY <1>1 DEF IsChannel, Settles
<1>2. CASE ~Registered(c, ref)
  <2> DEFINE kept == IF Contains(c.unmatched, ref) THEN c.unmatched ELSE Append(c.unmatched, ref)
             u == IF Len(kept) > UnmatchedMax THEN Tail(kept) ELSE kept
  <2>1. Settles(c, ref) = [c EXCEPT !.unmatched = u]
    BY <1>2 DEF Settles
  <2>2. ASSUME c.unmatched \in Seq(Nat)
        PROVE  u \in Seq(Nat) /\ ToSet(u) \subseteq ToSet(c.unmatched) \cup {ref}
    <3>1. kept \in Seq(Nat) /\ ToSet(kept) \subseteq ToSet(c.unmatched) \cup {ref}
      BY <2>2, AppendFacts, MembersOf
    <3> HIDE DEF kept
    <3>2. Len(kept) > UnmatchedMax => kept # <<>>
      BY <3>1, ChannelBounds, EmptySeq
    <3>3. QED
      BY <3>1, <3>2, TailFacts, MembersOf
  <2> HIDE DEF u, kept
  <2>3. QED
    BY <1>2, <2>1, <2>2 DEF IsChannel, Registered
<1>3. QED BY <1>1, <1>2

(* dispatch, for a message that validates: what EnqueueFacts and           *)
(* SettlesFacts say.                                                       *)
LEMMA DispatchedFacts ==
  ASSUME NEW c, IsChannel(c), ~c.closed, NEW m \in Message
  PROVE  /\ IsChannel(Dispatched(c, m))
         /\ Dispatched(c, m).next = c.next /\ ~Dispatched(c, m).closed
         /\ ~m.valid => Dispatched(c, m) = c
         /\ m.valid /\ IsControl(m) => /\ Dispatched(c, m).control = Append(c.control, m)
                                       /\ Dispatched(c, m).display = c.display
         /\ m.valid /\ ~IsControl(m) => /\ Dispatched(c, m).control = c.control
                                        /\ \/ Dispatched(c, m).display = Append(c.display, m)
                                           \/ /\ c.display # <<>>
                                              /\ Dispatched(c, m).display = Append(Tail(c.display), m)
         /\ m.type # "ack" => /\ Dispatched(c, m).pending = c.pending
                              /\ Dispatched(c, m).unmatched = c.unmatched
         /\ m.valid /\ m.type = "ack" =>
              /\ \A p \in c.pending : p.id # m.ref => p \in Dispatched(c, m).pending
              /\ \A p \in Dispatched(c, m).pending : p \in c.pending /\ p.id # m.ref
              /\ c.unmatched \in Seq(Nat) =>
                   /\ Dispatched(c, m).unmatched \in Seq(Nat)
                   /\ ToSet(Dispatched(c, m).unmatched) \subseteq ToSet(c.unmatched) \cup {m.ref}
<1>1. CASE ~m.valid
  BY <1>1 DEF Dispatched
<1>2. CASE m.valid
  <2> DEFINE s == IF m.type = "ack" THEN Settles(c, m.ref) ELSE c
             d == [s EXCEPT !.inbound = @ + 1]
  <2>1. Dispatched(c, m) = Enqueue(d, m)
    BY <1>2 DEF Dispatched
  <2>2. m.ref \in Nat
    BY DEF Message
  <2>3. /\ IsChannel(s) /\ s.next = c.next /\ ~s.closed
        /\ s.control = c.control /\ s.display = c.display
        /\ m.type # "ack" => s = c
        /\ m.type = "ack" => s = Settles(c, m.ref)
    BY <2>2, SettlesFacts
  <2> HIDE DEF s
  <2>4. /\ IsChannel(d) /\ d.next = s.next /\ ~d.closed /\ d.pending = s.pending
        /\ d.unmatched = s.unmatched /\ d.control = s.control /\ d.display = s.display
    BY <2>3 DEF IsChannel
  <2> HIDE DEF d
  <2>5. /\ IsChannel(Enqueue(d, m))
        /\ Enqueue(d, m).next = c.next /\ ~Enqueue(d, m).closed
        /\ Enqueue(d, m).pending = s.pending /\ Enqueue(d, m).unmatched = s.unmatched
    BY <2>3, <2>4, EnqueueFacts
  <2>6. /\ IsControl(m) => Enqueue(d, m).control = Append(c.control, m) /\ Enqueue(d, m).display = c.display
        /\ ~IsControl(m) => /\ Enqueue(d, m).control = c.control
                            /\ \/ Enqueue(d, m).display = Append(c.display, m)
                               \/ c.display # <<>> /\ Enqueue(d, m).display = Append(Tail(c.display), m)
    BY <2>3, <2>4, EnqueueFacts
  <2>7. ASSUME m.type = "ack"
        PROVE  /\ \A p \in c.pending : p.id # m.ref => p \in s.pending
               /\ \A p \in s.pending : p \in c.pending /\ p.id # m.ref
               /\ c.unmatched \in Seq(Nat) =>
                    s.unmatched \in Seq(Nat) /\ ToSet(s.unmatched) \subseteq ToSet(c.unmatched) \cup {m.ref}
    <3>1. s = Settles(c, m.ref)
      BY <2>3, <2>7
    <3>2. /\ \A p \in c.pending : p.id # m.ref => p \in Settles(c, m.ref).pending
          /\ \A p \in Settles(c, m.ref).pending : p \in c.pending /\ p.id # m.ref
      BY <2>2, SettlesFacts
    <3>3. ASSUME c.unmatched \in Seq(Nat)
          PROVE  /\ Settles(c, m.ref).unmatched \in Seq(Nat)
                 /\ ToSet(Settles(c, m.ref).unmatched) \subseteq ToSet(c.unmatched) \cup {m.ref}
      BY <2>2, <3>3, SettlesFacts
    <3>4. QED BY <3>1, <3>2, <3>3
  <2>8. QED
    BY <1>2, <2>1, <2>3, <2>5, <2>6, <2>7
<1>3. QED
  BY <1>1, <1>2 DEF Message

(* drain takes the first control message, or the first other one.          *)
LEMMA TakenFacts ==
  ASSUME NEW c, IsChannel(c), c.control # <<>> \/ c.display # <<>>
  PROVE  /\ IsChannel(Taken(c)) /\ NextUp(c) \in Message
         /\ Taken(c).next = c.next /\ Taken(c).closed = c.closed
         /\ Taken(c).pending = c.pending /\ Taken(c).unmatched = c.unmatched
         /\ IsControl(NextUp(c)) => /\ c.control # <<>> /\ NextUp(c) = Head(c.control)
                                    /\ Taken(c).control = Tail(c.control) /\ Taken(c).display = c.display
         /\ ~IsControl(NextUp(c)) => /\ c.display # <<>> /\ NextUp(c) = Head(c.display)
                                     /\ Taken(c).control = c.control /\ Taken(c).display = Tail(c.display)
<1> DEFINE Ctl == {n \in Message : IsControl(n)}
           Dsp == {n \in Message : ~IsControl(n)}
<1>1. c \in [next : Nat, pending : SUBSET [id : Nat, at : Nat], unmatched : {c.unmatched}, inbound : Nat,
              control : Seq(Ctl), display : Seq(Dsp), draining : BOOLEAN, closed : BOOLEAN]
  BY DEF IsChannel
<1>2. /\ c.control # <<>> => Tail(c.control) \in Seq(Ctl) /\ Head(c.control) \in Ctl
      /\ c.display # <<>> => Tail(c.display) \in Seq(Dsp) /\ Head(c.display) \in Dsp
  BY <1>1, TailFacts
<1>3. CASE c.control # <<>>
  <2>1. NextUp(c) = Head(c.control) /\ IsControl(NextUp(c)) /\ NextUp(c) \in Message
    BY <1>2, <1>3 DEF NextUp
  <2>2. PICK b \in BOOLEAN : Taken(c) = [c EXCEPT !.control = Tail(c.control), !.draining = b]
    <3>1. Taken(c) = [[c EXCEPT !.control = Tail(c.control)] EXCEPT
                        !.draining = [c EXCEPT !.control = Tail(c.control)].control # <<>>
                                     \/ [c EXCEPT !.control = Tail(c.control)].display # <<>>]
      BY <1>3 DEF Taken
    <3>2. QED BY <1>1, <3>1
  <2> HIDE DEF Ctl, Dsp
  <2>3. QED BY <1>1, <1>2, <1>3, <2>1, <2>2 DEF IsChannel, Ctl, Dsp
<1>4. CASE c.control = <<>>
  <2>1. NextUp(c) = Head(c.display) /\ ~IsControl(NextUp(c)) /\ NextUp(c) \in Message /\ c.display # <<>>
    BY <1>2, <1>4 DEF NextUp
  <2>2. PICK b \in BOOLEAN : Taken(c) = [c EXCEPT !.display = Tail(c.display), !.draining = b]
    <3>1. Taken(c) = [[c EXCEPT !.display = Tail(c.display)] EXCEPT
                        !.draining = [c EXCEPT !.display = Tail(c.display)].control # <<>>
                                     \/ [c EXCEPT !.display = Tail(c.display)].display # <<>>]
      BY <1>4 DEF Taken
    <3>2. QED BY <1>1, <3>1
  <2> HIDE DEF Ctl, Dsp
  <2>3. QED BY <1>1, <1>2, <1>4, <2>1, <2>2 DEF IsChannel, Ctl, Dsp
<1>5. QED BY <1>3, <1>4

-----------------------------------------------------------------------------
(* The lanes of one side when a message is sent to it, arrives, is handled.*)

(* A message that is sent comes after all that waits.                      *)
LEMMA SideSent ==
  ASSUME NEW c, NEW w, NEW last, NEW next, SideInOrder(c, w, last, next),
         NEW m \in Message, m.id = next
  PROVE  SideInOrder(c, Append(w, m), last, next + 1)
<1>1. w \in Seq(Message) /\ next \in Nat /\ next < next + 1
  BY DEF SideInOrder, Between
<1>2. Between(Append(w, m), 0, next + 1)
  BY <1>1, BetweenAppend DEF SideInOrder
<1>3. Arriving(Append(w, m), next + 1) = Arriving(w, next)
  <2>1. Append(w, m) # <<>> /\ Head(Append(w, m)) = Append(w, m)[1]
    BY <1>1, AppendFacts, TailFacts
  <2>2. CASE w = <<>>
    BY <1>1, <2>1, <2>2, AppendFacts DEF Arriving
  <2>3. CASE w # <<>>
    BY <1>1, <2>1, <2>3, AppendFacts, TailFacts DEF Arriving
  <2>4. QED BY <2>2, <2>3
<1>4. QED BY <1>2, <1>3 DEF SideInOrder

(* A message that arrives joins a lane or is forgotten.                    *)
LEMMA SideArrives ==
  ASSUME NEW c, NEW w, NEW last, NEW next, SideInOrder(c, w, last, next),
         IsChannel(c), ~c.closed, w # <<>>
  PROVE  SideInOrder(Dispatched(c, Head(w)), Tail(w), last, next)
<1> DEFINE m == Head(w)
           d == Dispatched(c, m)
           now == m.id
           later == Arriving(Tail(w), next)
<1>1. Between(w, 0, next) /\ Between(c.control, last[TRUE], now) /\ Between(c.display, last[FALSE], now)
  BY DEF SideInOrder, Arriving
<1>2. Between(Tail(w), 0, next) /\ Between(Tail(w), now, next) /\ m \in Message
  BY <1>1, BetweenTail
<1>3. later \in Nat /\ now < later /\ now <= later /\ now \in Nat
  <2>1. CASE Tail(w) = <<>>
    BY <1>2, <2>1 DEF Between, Arriving
  <2>2. CASE Tail(w) # <<>>
    <3>1. now < Head(Tail(w)).id /\ Head(Tail(w)) \in Message
      BY <1>2, <2>2, BetweenTail
    <3>2. later = Head(Tail(w)).id
      BY <2>2 DEF Arriving
    <3>3. later \in Nat /\ now \in Nat
      BY <1>2, <3>1, <3>2 DEF Message
    <3>4. now < later
      BY <3>1, <3>2, Zenon
    <3> HIDE DEF now
    <3>5. QED BY <3>3, <3>4
  <2>3. QED BY <2>1, <2>2
<1> HIDE DEF later
<1>4. Between(c.control, last[TRUE], later) /\ Between(c.display, last[FALSE], later)
  BY <1>1, <1>3, BetweenLater
<1>5. ASSUME c.display # <<>> PROVE Between(Tail(c.display), last[FALSE], now)
  BY <1>1, <1>5, BetweenTail
<1>6. /\ Between(Append(c.control, m), last[TRUE], later)
      /\ Between(Append(c.display, m), last[FALSE], later)
      /\ c.display # <<>> => Between(Append(Tail(c.display), m), last[FALSE], later)
  BY <1>1, <1>2, <1>3, <1>5, BetweenAppend
<1>7. Between(d.control, last[TRUE], later) /\ Between(d.display, last[FALSE], later)
  <2>1. CASE ~m.valid
    BY <1>2, <1>4, <2>1, DispatchedFacts
  <2>2. CASE m.valid /\ IsControl(m)
    <3>1. d.control = Append(c.control, m) /\ d.display = c.display
      BY <1>2, <2>2, DispatchedFacts
    <3>2. QED BY <1>4, <1>6, <3>1
  <2>3. CASE m.valid /\ ~IsControl(m)
    <3>1. /\ d.control = c.control
          /\ \/ d.display = Append(c.display, m)
             \/ c.display # <<>> /\ d.display = Append(Tail(c.display), m)
      BY <1>2, <2>3, DispatchedFacts
    <3>2. QED BY <1>4, <1>6, <3>1
  <2>4. QED BY <1>2, <2>1, <2>2, <2>3 DEF Message
<1>8. QED BY <1>2, <1>7 DEF SideInOrder, later

(* The message that is handled comes after the last one of its lane.       *)
LEMMA SideTaken ==
  ASSUME NEW c, NEW w, NEW last \in [BOOLEAN -> Nat], NEW next, SideInOrder(c, w, last, next),
         IsChannel(c), c.control # <<>> \/ c.display # <<>>
  PROVE  LET m == NextUp(c)
             then == [last EXCEPT ![IsControl(m)] = m.id]
         IN  /\ SideInOrder(Taken(c), w, then, next)
             /\ then \in [BOOLEAN -> Nat] /\ then[TRUE] >= last[TRUE] /\ then[FALSE] >= last[FALSE]
             /\ m.id < next
<1> DEFINE m == NextUp(c)
           then == [last EXCEPT ![IsControl(m)] = m.id]
           now == Arriving(w, next)
           ctl == last[TRUE]
           dsp == last[FALSE]
<1>1. Between(w, 0, next) /\ Between(c.control, ctl, now) /\ Between(c.display, dsp, now)
  BY DEF SideInOrder
<1>2. now <= next /\ now \in Nat /\ next \in Nat
  <2>1. CASE w = <<>>
    BY <1>1, <2>1 DEF Arriving, Between
  <2>2. CASE w # <<>>
    <3>1. Between(Tail(w), Head(w).id, next) /\ Head(w) \in Message
      BY <1>1, <2>2, BetweenTail
    <3>2. QED BY <2>2, <3>1 DEF Arriving, Between, Message
  <2>3. QED BY <2>1, <2>2
<1> HIDE DEF now
<1>3. m.id \in Nat /\ ctl \in Nat /\ dsp \in Nat
  BY TakenFacts DEF Message
<1> HIDE DEF ctl, dsp
<1>4. CASE IsControl(m)
  <2>1. Between(Tail(c.control), m.id, now) /\ ctl < m.id
    BY <1>1, <1>4, TakenFacts, BetweenTail
  <2>2. then = [last EXCEPT ![TRUE] = m.id]
    <3>1. IsControl(m) = TRUE
      BY <1>4 DEF IsControl
    <3>2. QED BY <3>1, Zenon
  <2>3. then[TRUE] = m.id /\ then[FALSE] = dsp /\ then \in [BOOLEAN -> Nat]
    BY <1>3, <2>2 DEF ctl, dsp
  <2>4. Taken(c).control = Tail(c.control) /\ Taken(c).display = c.display
    BY <1>4, TakenFacts
  <2>5. m.id < next
    BY <1>2, <1>3, <2>1 DEF Between
  <2> HIDE DEF then, m
  <2>6. SideInOrder(Taken(c), w, then, next)
    BY <1>1, <2>1, <2>3, <2>4 DEF SideInOrder, now
  <2>7. then[TRUE] >= last[TRUE] /\ then[FALSE] >= last[FALSE]
    <3>1. m.id >= ctl /\ dsp >= dsp
      BY <1>3, <2>1
    <3>2. QED BY <2>3, <3>1, Zenon DEF ctl, dsp
  <2>8. QED BY <2>3, <2>5, <2>6, <2>7 DEF then, m
<1>5. CASE ~IsControl(m)
  <2>1. Between(Tail(c.display), m.id, now) /\ dsp < m.id
    BY <1>1, <1>5, TakenFacts, BetweenTail
  <2>2. then = [last EXCEPT ![FALSE] = m.id]
    <3>1. IsControl(m) = FALSE
      BY <1>5 DEF IsControl
    <3>2. QED BY <3>1, Zenon
  <2>3. then[FALSE] = m.id /\ then[TRUE] = ctl /\ then \in [BOOLEAN -> Nat]
    BY <1>3, <2>2 DEF ctl, dsp
  <2>4. Taken(c).control = c.control /\ Taken(c).display = Tail(c.display)
    BY <1>5, TakenFacts
  <2>5. m.id < next
    BY <1>2, <1>3, <2>1 DEF Between
  <2> HIDE DEF then, m
  <2>6. SideInOrder(Taken(c), w, then, next)
    BY <1>1, <2>1, <2>3, <2>4 DEF SideInOrder, now
  <2>7. then[TRUE] >= last[TRUE] /\ then[FALSE] >= last[FALSE]
    <3>1. m.id >= dsp /\ ctl >= ctl
      BY <1>3, <2>1
    <3>2. QED BY <2>3, <3>1, Zenon DEF ctl, dsp
  <2>8. QED BY <2>3, <2>5, <2>6, <2>7 DEF then, m
<1>6. QED BY <1>4, <1>5

-----------------------------------------------------------------------------
(* The kinds of steps, by what they do to the channel of the two sides.    *)

ChannelInv == TypeOK /\ InOrder /\ NothingLeft /\ OpenWhileAlive /\ AcksAreStored /\ AckArrives
WaitInv == WaitsAreRegistered /\ AckedMeansStored

(* Init establishes the invariant.                                         *)
LEMMA IpcInitInv == IpcInit => IpcInv
<1> SUFFICES ASSUME IpcInit PROVE IpcInv
  OBVIOUS
<1>1. \A p \in Sides : chan[p] = NewChannel /\ wire[p] = <<>>
  BY DEF IpcInit
<1>2. IsChannel(NewChannel) /\ NewChannel.control = <<>> /\ NewChannel.display = <<>>
      /\ NewChannel.next = 1 /\ ~NewChannel.closed /\ NewChannel.unmatched = <<>>
  BY EmptySeq DEF IsChannel, NewChannel
<1>3. TypeOK
  <2>1. chan = [p \in Sides |-> chan[p]] /\ \A p \in Sides : IsChannel(chan[p])
    BY <1>1, <1>2 DEF IpcInit
  <2>2. wire \in [Sides -> Seq(Message)]
    BY EmptySeq DEF IpcInit
  <2>3. child \in ChildType
    BY DEF IpcInit, ChildType
  <2>4. QED BY <2>1, <2>2, <2>3 DEF TypeOK, IpcInit
<1>4. InOrder
  <2>1. \A p \in Sides : handled[p][TRUE] = 0 /\ handled[p][FALSE] = 0
    BY DEF IpcInit
  <2>2. Between(<<>>, 0, 1)
    BY BetweenEmpty
  <2>3. \A p \in Sides : Other(p) \in Sides
    BY DEF Sides, Other
  <2>4. QED BY <1>1, <1>2, <2>1, <2>2, <2>3 DEF InOrder, SideInOrder, Arriving
<1>5. NothingLeft /\ OpenWhileAlive
  BY <1>1, <1>2 DEF NothingLeft, OpenWhileAlive
<1>6. AcksAreStored
  <2>1. ToSet(<<>>) = {}
    BY DEF ToSet
  <2>2. child.arrived = {} /\ "child" \in Sides
    BY DEF IpcInit, Sides
  <2>3. QED BY <1>1, <1>2, <2>1, <2>2, EmptySeq DEF AcksAreStored
<1>7. AckArrives /\ WaitsAreRegistered /\ AckedMeansStored
  BY DEF IpcInit, AckArrives, WaitsAreRegistered, AckedMeansStored, Returned
<1>8. QED BY <1>3, <1>4, <1>5, <1>6, <1>7 DEF IpcInv

(* The channel objects of both sides, one by one.                          *)
LEMMA TwoSides ==
  ASSUME TypeOK
  PROVE  /\ IsChannel(chan["comm"]) /\ IsChannel(chan["child"])
         /\ wire["comm"] \in Seq(Message) /\ wire["child"] \in Seq(Message)
         /\ handled["comm"] \in [BOOLEAN -> Nat] /\ handled["child"] \in [BOOLEAN -> Nat]
         /\ Other("comm") = "child" /\ Other("child") = "comm"
         /\ "comm" \in Sides /\ "child" \in Sides /\ \A p \in Sides : p = "comm" \/ p = "child"
BY DEF TypeOK, Sides, Other

(* One side of the channel changes.                                        *)
LEMMA OneSideChanges ==
  ASSUME TypeOK, NEW p \in Sides, NEW c, IsChannel(c), chan' = [chan EXCEPT ![p] = c]
  PROVE  /\ chan' = [q \in Sides |-> chan'[q]] /\ \A q \in Sides : IsChannel(chan'[q])
         /\ chan'[p] = c /\ \A q \in Sides : q # p => chan'[q] = chan[q]
<1>1. chan = [q \in Sides |-> chan[q]] /\ \A q \in Sides : IsChannel(chan[q])
  BY DEF TypeOK
<1> HIDE DEF IsChannel
<1>2. DOMAIN chan' = Sides /\ chan'[p] = c /\ \A q \in Sides : q # p => chan'[q] = chan[q]
  BY <1>1
<1>3. \A q \in Sides : IsChannel(chan'[q])
  BY <1>1, <1>2
<1>4. chan' = [q \in Sides |-> chan'[q]]
  BY <1>1
<1>5. QED BY <1>2, <1>3, <1>4

(* The lanes stay as they are.                                             *)
SameLanes(c, d) ==
  /\ IsChannel(d) /\ d.next = c.next /\ d.closed = c.closed
  /\ d.control = c.control /\ d.display = c.display

(* Nothing moves in the channel: a timer, or a disconnection.              *)
LEMMA QuietStep ==
  ASSUME ChannelInv, NEW p \in Sides, NEW c, SameLanes(chan[p], c),
         p = "child" => c.unmatched = chan[p].unmatched,
         chan' = [chan EXCEPT ![p] = c],
         UNCHANGED <<wire, handled, stored>>,
         child' \in ChildType, Alive' = Alive, child'.arrived = child.arrived, child'.seen = child.seen,
         open' \in [state : {"no", "waiting", "ok", "failed"}, id : Nat]
  PROVE  ChannelInv'
<1> USE DEF ChannelInv
<1>1. /\ chan' = [q \in Sides |-> chan'[q]] /\ \A q \in Sides : IsChannel(chan'[q])
      /\ chan'[p] = c /\ \A q \in Sides : q # p => chan'[q] = chan[q]
  BY OneSideChanges DEF SameLanes
<1>2. TypeOK'
  BY <1>1 DEF TypeOK
<1>3. \A q \in Sides : SameLanes(chan[q], chan'[q])
  BY <1>1 DEF SameLanes, TypeOK
<1>4. InOrder'
  <2>1. \A q \in Sides : Other(q) \in Sides
    BY DEF Sides, Other
  <2>2. QED BY <1>3, <2>1 DEF InOrder, SideInOrder, SameLanes
<1>5. NothingLeft' /\ OpenWhileAlive'
  BY <1>3 DEF NothingLeft, OpenWhileAlive, SameLanes
<1>6. chan'["child"].unmatched = chan["child"].unmatched /\ chan'["child"].control = chan["child"].control
  BY <1>1, <1>3 DEF SameLanes, Sides
<1>7. AcksAreStored'
  BY <1>6 DEF AcksAreStored, ToChildMsg
<1>8. AckArrives'
  BY <1>6 DEF AckArrives, AckOnItsWay
<1>9. QED BY <1>2, <1>4, <1>5, <1>7, <1>8

(* The next id is taken.                                                   *)
Numbers(c, d) ==
  /\ IsChannel(d) /\ d.next = c.next + 1 /\ d.closed = c.closed
  /\ d.control = c.control /\ d.display = c.display

(* One side sends a message; to the child it acknowledges nothing.         *)
LEMMA SendStep ==
  ASSUME ChannelInv, Alive, NEW p \in Sides, NEW c, Numbers(chan[p], c),
         p = "child" => c.unmatched = chan[p].unmatched,
         chan' = [chan EXCEPT ![p] = c],
         NEW m \in Message, m.id = chan[p].next, p = "comm" => m.valid /\ m.type # "ack",
         wire' = [wire EXCEPT ![Other(p)] = @ \o <<m>>],
         UNCHANGED <<handled, stored>>,
         child' \in ChildType, Alive', child'.arrived = child.arrived, child'.seen = child.seen,
         open' \in [state : {"no", "waiting", "ok", "failed"}, id : Nat]
  PROVE  ChannelInv'
<1> USE DEF ChannelInv
<1> DEFINE o == Other(p)
<1>1. /\ chan' = [q \in Sides |-> chan'[q]] /\ \A q \in Sides : IsChannel(chan'[q])
      /\ chan'[p] = c /\ \A q \in Sides : q # p => chan'[q] = chan[q]
  BY OneSideChanges DEF Numbers
<1>2. /\ o \in Sides /\ o # p /\ Other(o) = p /\ \A q \in Sides : q = p \/ q = o
  BY DEF Sides, Other
<1> HIDE DEF o
<1>3. wire[o] \in Seq(Message) /\ wire[o] \o <<m>> = Append(wire[o], m) /\ Append(wire[o], m) \in Seq(Message)
  BY <1>2, AppendFacts DEF TypeOK
<1>4. wire' = [wire EXCEPT ![o] = Append(wire[o], m)]
  BY <1>3 DEF o
<1>5. wire'[o] = Append(wire[o], m) /\ wire'[p] = wire[p] /\ wire' \in [Sides -> Seq(Message)]
  BY <1>2, <1>3, <1>4 DEF TypeOK
<1>6. TypeOK'
  BY <1>1, <1>5 DEF TypeOK
<1>7. \A q \in Sides : /\ chan'[q].control = chan[q].control /\ chan'[q].display = chan[q].display
                        /\ chan'[q].closed = chan[q].closed
  BY <1>1 DEF Numbers
<1>8. InOrder'
  <2>1. SideInOrder(chan[o], wire[o], handled[o], chan[p].next) /\ SideInOrder(chan[p], wire[p], handled[p], chan[o].next)
    BY <1>2 DEF InOrder, o
  <2>2. SideInOrder(chan[o], wire'[o], handled[o], chan'[p].next)
    <3>1. SideInOrder(chan[o], Append(wire[o], m), handled[o], chan[p].next + 1)
      BY <2>1, SideSent
    <3>2. chan'[p].next = chan[p].next + 1
      BY <1>1 DEF Numbers
    <3>3. QED BY <1>5, <3>1, <3>2, Zenon
  <2>3. SideInOrder(chan[p], wire'[p], handled[p], chan'[o].next)
    BY <1>1, <1>2, <1>5, <2>1
  <2>4. ASSUME NEW q \in Sides PROVE SideInOrder(chan'[q], wire'[q], handled'[q], chan'[Other(q)].next)
    <3>1. SideInOrder(chan[q], wire'[q], handled[q], chan'[Other(q)].next)
      BY <1>2, <2>2, <2>3 DEF o
    <3>2. QED BY <1>7, <3>1 DEF SideInOrder
  <2>5. QED BY <2>4 DEF InOrder
<1>9. NothingLeft' /\ OpenWhileAlive'
  BY <1>7 DEF NothingLeft, OpenWhileAlive
<1>10. chan'["child"].unmatched = chan["child"].unmatched /\ chan'["child"].control = chan["child"].control
  BY <1>1, <1>7 DEF Sides
<1>11. AcksAreStored'
  <2>1. ToChildMsg' = ToChildMsg
    BY DEF ToChildMsg
  <2>2. wire'["child"] \in Seq(ToChildMsg)
    <3>1. CASE p = "comm"
      <4>1. o = "child" /\ m \in ToChildMsg
        BY <3>1 DEF o, Other, ToChildMsg
      <4>2. QED BY <1>5, <4>1, AppendFacts DEF AcksAreStored
    <3>2. CASE p = "child"
      BY <1>5, <3>2 DEF AcksAreStored
    <3>3. QED BY <3>1, <3>2 DEF Sides
  <2>3. QED BY <1>10, <2>1, <2>2 DEF AcksAreStored
<1>12. AckArrives'
  <2>1. ToSet(wire["child"]) \subseteq ToSet(wire'["child"])
    <3>1. CASE o = "child"
      <4>1. ToSet(Append(wire[o], m)) = ToSet(wire[o]) \cup {m}
        BY <1>3, MembersOf
      <4>2. QED BY <1>5, <3>1, <4>1
    <3>2. CASE o # "child"
      BY <1>2, <1>5, <3>2 DEF Sides
    <3>3. QED BY <3>1, <3>2
  <2>2. \A id : AckOnItsWay(id) => AckOnItsWay(id)'
    BY <1>10, <2>1 DEF AckOnItsWay
  <2>3. QED BY <2>2 DEF AckArrives
<1>13. QED BY <1>6, <1>8, <1>9, <1>11, <1>12

(* A message of the pipe reaches a channel object.                         *)
LEMMA DispatchChannel ==
  ASSUME ChannelInv, NEW p \in Sides, Dispatch(p)
  PROVE  /\ ChannelInv'
         /\ Head(wire[p]) \in Message
         /\ chan'[p] = Dispatched(chan[p], Head(wire[p])) /\ ~chan[p].closed /\ IsChannel(chan[p])
         /\ \A q \in Sides : q # p => chan'[q] = chan[q]
         /\ p = "child" => Head(wire[p]) \in ToChildMsg
<1> USE DEF ChannelInv
<1> DEFINE m == Head(wire[p])
           d == Dispatched(chan[p], m)
<1>1. /\ Alive /\ wire[p] # <<>> /\ wire' = [wire EXCEPT ![p] = Tail(wire[p])]
      /\ chan' = [chan EXCEPT ![p] = d] /\ UNCHANGED <<handled, stored>>
  BY DEF Dispatch
<1>2. /\ IsChannel(chan[p]) /\ ~chan[p].closed /\ m \in Message /\ Tail(wire[p]) \in Seq(Message)
      /\ wire[p] \in Seq(Message)
  BY <1>1, TailFacts DEF TypeOK, OpenWhileAlive
<1>3. IsChannel(d) /\ d.next = chan[p].next /\ ~d.closed
  BY <1>2, DispatchedFacts
<1> HIDE DEF d, m
<1>4. /\ chan' = [q \in Sides |-> chan'[q]] /\ \A q \in Sides : IsChannel(chan'[q])
      /\ chan'[p] = d /\ \A q \in Sides : q # p => chan'[q] = chan[q]
  BY <1>1, <1>3, OneSideChanges
<1>5. wire' \in [Sides -> Seq(Message)] /\ wire'[p] = Tail(wire[p]) /\ \A q \in Sides : q # p => wire'[q] = wire[q]
  BY <1>1, <1>2 DEF TypeOK
<1>6. child' \in ChildType /\ Alive' /\ child'.seen = child.seen
      /\ child'.arrived = IF m.type = "ack" /\ p = "child" THEN child.arrived \cup {m.ref} ELSE child.arrived
  <2>1. CASE m.type = "ack" /\ p = "child"
    <3>1. child' = [child EXCEPT !.waits = {w \in child.waits : Registered(chan'[p], w.id)},
                                 !.arrived = child.arrived \cup {m.ref}]
      BY <2>1 DEF Dispatch, m
    <3>2. m.ref \in Nat
      BY <1>2 DEF Message
    <3>3. QED BY <1>1, <2>1, <3>1, <3>2 DEF TypeOK, ChildType, Alive
  <2>2. CASE ~(m.type = "ack" /\ p = "child")
    <3>1. child' = child
      BY <2>2 DEF Dispatch, m
    <3>2. QED BY <1>1, <2>2, <3>1 DEF TypeOK, Alive
  <2>3. QED BY <2>1, <2>2
<1>7. open' \in [state : {"no", "waiting", "ok", "failed"}, id : Nat]
  <2>1. open' = open \/ open' = [open EXCEPT !.state = "ok"]
    BY DEF Dispatch
  <2>2. QED BY <2>1 DEF TypeOK
<1>8. TypeOK'
  BY <1>1, <1>4, <1>5, <1>6, <1>7 DEF TypeOK
<1>9. InOrder'
  <2>1. ASSUME NEW q \in Sides PROVE SideInOrder(chan'[q], wire'[q], handled'[q], chan'[Other(q)].next)
    <3>1. SideInOrder(chan[q], wire[q], handled[q], chan[Other(q)].next)
      BY <1>1, <2>1 DEF InOrder
    <3>2. chan'[Other(q)].next = chan[Other(q)].next
      <4>1. Other(q) \in Sides
        BY DEF Sides, Other
      <4>2. QED BY <1>3, <1>4, <4>1
    <3>3. CASE q = p
      BY <1>1, <1>2, <1>4, <1>5, <3>1, <3>2, <3>3, SideArrives DEF d, m
    <3>4. CASE q # p
      BY <1>1, <1>4, <1>5, <3>1, <3>2, <3>4
    <3>5. QED BY <3>3, <3>4
  <2>2. QED BY <2>1 DEF InOrder
<1>10. NothingLeft' /\ OpenWhileAlive'
  BY <1>1, <1>3, <1>4, <1>6 DEF NothingLeft, OpenWhileAlive
<1>11. ASSUME p = "comm" PROVE AcksAreStored' /\ AckArrives'
  <2>1. chan'["child"] = chan["child"] /\ wire'["child"] = wire["child"] /\ child'.arrived = child.arrived
    BY <1>4, <1>5, <1>6, <1>11 DEF Sides
  <2>2. QED BY <1>1, <1>6, <2>1 DEF AcksAreStored, ToChildMsg, AckArrives, AckOnItsWay
<1>12. ASSUME p = "child" PROVE AcksAreStored' /\ AckArrives' /\ m \in ToChildMsg
  <2>1. ToChildMsg' = ToChildMsg /\ ToChildMsg \subseteq Message
    BY <1>1 DEF ToChildMsg
  <2>2. m \in ToChildMsg /\ Tail(wire["child"]) \in Seq(ToChildMsg)
    BY <1>1, <1>12, TailFacts DEF AcksAreStored, m
  <2>3. m.valid
    BY <2>2 DEF ToChildMsg
  <2>4. d.control \in Seq({n \in ToChildMsg : IsControl(n)})
        /\ ToSet(chan["child"].control) \subseteq ToSet(d.control) /\ (IsControl(m) => m \in ToSet(d.control))
    <3> DEFINE Ctl == {n \in ToChildMsg : IsControl(n)}
    <3>1. chan["child"].control \in Seq(Ctl)
      BY DEF AcksAreStored
    <3>2. CASE IsControl(m)
      <4>1. d.control = Append(chan["child"].control, m) /\ m \in Ctl
        BY <1>2, <1>12, <2>2, <2>3, <3>2, DispatchedFacts DEF d
      <4> HIDE DEF Ctl
      <4>2. Append(chan["child"].control, m) \in Seq(Ctl)
            /\ ToSet(Append(chan["child"].control, m)) = ToSet(chan["child"].control) \cup {m}
        BY <3>1, <4>1, AppendFacts, MembersOf
      <4>3. QED BY <4>1, <4>2 DEF Ctl
    <3>3. CASE ~IsControl(m)
      <4>1. d.control = chan["child"].control
        BY <1>2, <1>12, <2>3, <3>3, DispatchedFacts DEF d
      <4>2. QED BY <3>1, <3>3, <4>1
    <3>4. QED BY <3>2, <3>3
  <2>5. child'.arrived \subseteq stored
    BY <1>6, <2>2 DEF AcksAreStored, ToChildMsg
  <2>6. d.unmatched \in Seq(Nat) /\ ToSet(d.unmatched) \subseteq child'.arrived
    <3>1. CASE m.type = "ack"
      <4>1. /\ d.unmatched \in Seq(Nat)
            /\ ToSet(d.unmatched) \subseteq ToSet(chan["child"].unmatched) \cup {m.ref}
        BY <1>2, <1>12, <2>3, <3>1, DispatchedFacts DEF d, AcksAreStored
      <4>2. QED BY <1>6, <1>12, <3>1, <4>1 DEF AcksAreStored
    <3>2. CASE m.type # "ack"
      <4>1. d.unmatched = chan["child"].unmatched
        BY <1>2, <1>12, <3>2, DispatchedFacts DEF d
      <4>2. QED BY <1>6, <3>2, <4>1 DEF AcksAreStored
    <3>3. QED BY <3>1, <3>2
  <2>7. AcksAreStored'
    BY <1>1, <1>4, <1>5, <1>12, <2>1, <2>2, <2>4, <2>5, <2>6 DEF AcksAreStored
  <2>8. ToSet(wire["child"]) = ToSet(wire'["child"]) \cup {m}
    BY <1>1, <1>2, <1>5, <1>12, MembersOf DEF m
  <2>9. \A id : AckOnItsWay(id) => AckOnItsWay(id)'
    <3>1. m.type = "ack" => IsControl(m)
      BY DEF IsControl, Control
    <3>2. chan'["child"] = d
      BY <1>4, <1>12
    <3>3. QED BY <2>4, <2>8, <3>1, <3>2 DEF AckOnItsWay
  <2>10. AckArrives'
    BY <1>1, <1>6, <2>9 DEF AckArrives
  <2>11. QED BY <2>2, <2>7, <2>10
<1>13. AcksAreStored' /\ AckArrives'
  BY <1>11, <1>12 DEF Sides
<1>14. QED BY <1>2, <1>4, <1>8, <1>9, <1>10, <1>12, <1>13 DEF d, m

(* A message is numbered, whatever else.                                   *)
LEMMA NumberedFacts ==
  ASSUME NEW c, IsChannel(c)
  PROVE  /\ IsChannel(Numbered(c)) /\ Numbered(c).next = c.next + 1 /\ Numbered(c).closed = c.closed
         /\ Numbered(c).control = c.control /\ Numbered(c).display = c.display
         /\ Numbered(c).pending = c.pending /\ Numbered(c).unmatched = c.unmatched
BY DEF IsChannel, Numbered

(* The messages that are sent are messages, and valid if they say so.      *)
LEMMA MsgFacts ==
  ASSUME NEW id \in Nat, NEW type \in MessageType, NEW ref \in Nat
  PROVE  /\ \A valid \in BOOLEAN :
              /\ Msg(id, type, ref, valid) \in Message
              /\ Msg(id, type, ref, valid).id = id /\ Msg(id, type, ref, valid).type = type
              /\ Msg(id, type, ref, valid).ref = ref
         /\ Msg(id, type, ref, TRUE).valid
BY DEF Msg, Message

(* So is an acknowledgement.                                               *)
LEMMA AckFacts ==
  ASSUME NEW id \in Nat, NEW ref \in Nat
  PROVE  /\ Msg(id, "ack", ref, TRUE) \in Message /\ Msg(id, "ack", ref, TRUE).valid
         /\ Msg(id, "ack", ref, TRUE).type = "ack" /\ Msg(id, "ack", ref, TRUE).ref = ref
         /\ Msg(id, "ack", ref, TRUE).id = id
<1> DEFINE m == Msg(id, "ack", ref, TRUE)
<1>1. m = [id |-> id, type |-> "ack", ref |-> ref, valid |-> TRUE]
  BY DEF Msg
<1> HIDE DEF m
<1>2. m \in Message
  <2>1. \A v \in BOOLEAN : [id |-> id, type |-> "ack", ref |-> ref, valid |-> v] \in Message
    BY DEF Message, MessageType
  <2>2. QED BY <1>1, <2>1, Zenon
<1>3. m.valid
  BY <1>1
<1>4. m.type = "ack" /\ m.ref = ref /\ m.id = id
  BY <1>1
<1>5. QED BY <1>2, <1>3, <1>4, Zenon DEF m

(* And an event, whether it validates or not.                              *)
LEMMA EventFacts ==
  ASSUME NEW id \in Nat, NEW valid \in BOOLEAN
  PROVE  Msg(id, "event", 0, valid) \in Message /\ Msg(id, "event", 0, valid).id = id
<1>1. Msg(id, "event", 0, valid) = [id |-> id, type |-> "event", ref |-> 0, valid |-> valid]
  BY DEF Msg
<1>2. [id |-> id, type |-> "event", ref |-> 0, valid |-> valid] \in Message
  BY DEF Message, MessageType
<1>3. [id |-> id, type |-> "event", ref |-> 0, valid |-> valid].id = id
  OBVIOUS
<1>4. QED BY <1>1, <1>2, <1>3, Zenon

(* A side handles a message.                                               *)
LEMMA HandledFacts ==
  ASSUME ChannelInv, NEW p \in Sides, Drains(p)
  PROVE  /\ Alive /\ IsChannel(Taken(chan[p])) /\ NextUp(chan[p]) \in Message
         /\ Taken(chan[p]).next = chan[p].next /\ Taken(chan[p]).closed = chan[p].closed
         /\ Taken(chan[p]).pending = chan[p].pending /\ Taken(chan[p]).unmatched = chan[p].unmatched
         /\ SideInOrder(Taken(chan[p]), wire[p], handled'[p], chan[Other(p)].next)
         /\ NextUp(chan[p]).id < chan[Other(p)].next
         /\ handled' \in [Sides -> [BOOLEAN -> Nat]]
         /\ handled'[p][TRUE] >= handled[p][TRUE] /\ handled'[p][FALSE] >= handled[p][FALSE]
         /\ \A q \in Sides : q # p => handled'[q] = handled[q]
<1> USE DEF ChannelInv
<1> DEFINE m == NextUp(chan[p])
           then == [handled[p] EXCEPT ![IsControl(m)] = m.id]
<1>1. Alive /\ IsChannel(chan[p]) /\ (chan[p].control # <<>> \/ chan[p].display # <<>>)
  BY DEF Drains, HasInput, NothingLeft, TypeOK
<1>2. SideInOrder(chan[p], wire[p], handled[p], chan[Other(p)].next) /\ handled[p] \in [BOOLEAN -> Nat]
  BY <1>1 DEF InOrder, TypeOK
<1>3. /\ SideInOrder(Taken(chan[p]), wire[p], then, chan[Other(p)].next)
      /\ then \in [BOOLEAN -> Nat] /\ then[TRUE] >= handled[p][TRUE] /\ then[FALSE] >= handled[p][FALSE]
      /\ m.id < chan[Other(p)].next
  BY <1>1, <1>2, SideTaken
<1>4. handled' = [handled EXCEPT ![p] = then]
  BY DEF Drains
<1> HIDE DEF then
<1>5. handled'[p] = then /\ handled' \in [Sides -> [BOOLEAN -> Nat]]
      /\ \A q \in Sides : q # p => handled'[q] = handled[q]
  BY <1>3, <1>4 DEF TypeOK
<1>6. /\ IsChannel(Taken(chan[p])) /\ m \in Message
      /\ Taken(chan[p]).next = chan[p].next /\ Taken(chan[p]).closed = chan[p].closed
      /\ Taken(chan[p]).pending = chan[p].pending /\ Taken(chan[p]).unmatched = chan[p].unmatched
  BY <1>1, TakenFacts
<1> HIDE DEF m
<1>7. QED BY <1>1, <1>3, <1>5, <1>6 DEF m

(* The Communicator handles a message; an event that it has stored is      *)
(* acknowledged.                                                           *)
LEMMA CommHandlesChannel ==
  ASSUME ChannelInv, NEW appended \in BOOLEAN, CommHandles(appended)
  PROVE  /\ ChannelInv' /\ chan'["child"] = chan["child"]
         /\ stored \subseteq stored' /\ \A id \in stored' \ stored : id < chan["child"].next
<1> USE DEF ChannelInv
<1> DEFINE c == chan["comm"]
           m == NextUp(c)
           stores == m.type = "event" /\ appended
           ack == Msg(c.next, "ack", m.id, TRUE)
           d == IF stores THEN Numbered(Taken(c)) ELSE Taken(c)
<1>1. Drains("comm") /\ UNCHANGED <<child, open>>
  BY DEF CommHandles
<1>2. /\ Alive /\ Alive' /\ IsChannel(Taken(c)) /\ m \in Message
      /\ Taken(c).next = c.next /\ Taken(c).closed = c.closed
      /\ SideInOrder(Taken(c), wire["comm"], handled'["comm"], chan["child"].next)
      /\ m.id < chan["child"].next
      /\ handled' \in [Sides -> [BOOLEAN -> Nat]] /\ handled'["child"] = handled["child"]
  BY <1>1, HandledFacts, TwoSides DEF Alive
<1>3. IsChannel(c) /\ c.next \in Nat /\ ~c.closed /\ wire["child"] \in Seq(Message)
      /\ wire["child"] \in Seq(ToChildMsg)
  BY <1>2, TwoSides, LaneTypes DEF OpenWhileAlive, AcksAreStored
<1>4. IsChannel(d) /\ ~d.closed /\ d.control = Taken(c).control /\ d.display = Taken(c).display
      /\ d.next = IF stores THEN c.next + 1 ELSE c.next
  <2>1. CASE stores
    <3>1. d = Numbered(Taken(c))
      BY <2>1
    <3> HIDE DEF d, c, stores
    <3>2. QED BY <1>2, <1>3, <2>1, <3>1, NumberedFacts
  <2>2. CASE ~stores
    BY <1>2, <1>3, <2>2
  <2>3. QED BY <2>1, <2>2
<1>5. ack \in Message /\ ack.type = "ack" /\ ack.ref = m.id /\ ack.id = c.next /\ ack.valid
  <2>1. m.id \in Nat
    BY <1>2 DEF Message
  <2> HIDE DEF m, c
  <2>2. QED BY <1>3, <2>1, AckFacts, Zenon
<1>6. /\ chan' = [chan EXCEPT !["comm"] = d]
      /\ stores => stored' = stored \cup {m.id} /\ wire' = [wire EXCEPT !["child"] = @ \o <<ack>>]
      /\ ~stores => UNCHANGED <<stored, wire>>
  <2>1. CASE stores
    <3>1. /\ stored' = stored \cup {m.id}
          /\ chan' = [chan EXCEPT !["comm"] = Numbered(Taken(c))]
          /\ wire' = [wire EXCEPT !["child"] = @ \o <<ack>>]
      BY <1>2, <2>1 DEF CommHandles, ToWire, Other
    <3>2. d = Numbered(Taken(c))
      BY <2>1
    <3> HIDE DEF stores, d, ack
    <3>3. QED BY <2>1, <3>1, <3>2
  <2>2. CASE ~stores
    BY <2>2 DEF CommHandles
  <2>3. QED BY <2>1, <2>2
<1> HIDE DEF d, ack, stores, m, c
<1>7. /\ chan' = [q \in Sides |-> chan'[q]] /\ \A q \in Sides : IsChannel(chan'[q])
      /\ chan'["comm"] = d /\ chan'["child"] = chan["child"]
  BY <1>4, <1>6, OneSideChanges, TwoSides
<1>8. /\ wire["child"] \o <<ack>> = Append(wire["child"], ack) /\ Append(wire["child"], ack) \in Seq(Message)
      /\ ToSet(Append(wire["child"], ack)) = ToSet(wire["child"]) \cup {ack}
  BY <1>3, <1>5, AppendFacts, MembersOf
<1>9. /\ wire' \in [Sides -> Seq(Message)] /\ wire'["comm"] = wire["comm"]
      /\ wire'["child"] = IF stores THEN Append(wire["child"], ack) ELSE wire["child"]
  <2>1. CASE stores
    <3>1. wire' = [wire EXCEPT !["child"] = Append(wire["child"], ack)]
      BY <1>6, <1>8, <2>1
    <3>2. QED BY <1>8, <2>1, <3>1 DEF TypeOK, Sides
  <2>2. CASE ~stores
    BY <1>6, <2>2 DEF TypeOK
  <2>3. QED BY <2>1, <2>2
<1>10. m.id \in Nat
  BY <1>2 DEF Message
<1>11. stored \subseteq stored' /\ stored' \in SUBSET Nat /\ (\A id \in stored' \ stored : stores /\ id = m.id)
  <2>1. CASE stores
    BY <1>6, <1>10, <2>1 DEF TypeOK
  <2>2. CASE ~stores
    BY <1>6, <2>2 DEF TypeOK
  <2>3. QED BY <2>1, <2>2
<1>12. TypeOK'
  BY <1>1, <1>2, <1>7, <1>9, <1>11 DEF TypeOK
<1>13. InOrder'
  <2>1. SideInOrder(chan["child"], wire["child"], handled["child"], c.next)
    BY <1>2, TwoSides DEF InOrder, c
  <2>2. SideInOrder(chan'["child"], wire'["child"], handled'["child"], chan'["comm"].next)
    <3>1. CASE stores
      <4>1. SideInOrder(chan["child"], Append(wire["child"], ack), handled["child"], c.next + 1)
        BY <1>5, <2>1, SideSent
      <4>2. QED BY <1>2, <1>4, <1>7, <1>9, <3>1, <4>1
    <3>2. CASE ~stores
      BY <1>2, <1>4, <1>7, <1>9, <2>1, <3>2
    <3>3. QED BY <3>1, <3>2
  <2>3. SideInOrder(chan'["comm"], wire'["comm"], handled'["comm"], chan'["child"].next)
    BY <1>2, <1>4, <1>7, <1>9 DEF SideInOrder
  <2>4. QED BY <2>2, <2>3 DEF InOrder, Sides, Other
<1>14. NothingLeft' /\ OpenWhileAlive'
  BY <1>2, <1>4, <1>7 DEF NothingLeft, OpenWhileAlive, Sides
<1>15. AcksAreStored'
  <2>1. ToChildMsg \subseteq ToChildMsg' /\ {n \in ToChildMsg : IsControl(n)} \subseteq {n \in ToChildMsg' : IsControl(n)}
    BY <1>11 DEF ToChildMsg
  <2>2. wire["child"] \in Seq(ToChildMsg')
    BY <1>3, <2>1, SeqMonotonic
  <2>3. wire'["child"] \in Seq(ToChildMsg')
    <3>1. CASE stores
      <4>1. ack \in ToChildMsg'
        BY <1>5, <1>6, <3>1 DEF ToChildMsg
      <4>2. QED BY <1>9, <2>2, <3>1, <4>1, AppendFacts
    <3>2. CASE ~stores
      BY <1>9, <2>2, <3>2
    <3>3. QED BY <3>1, <3>2
  <2>4. chan["child"].control \in Seq({n \in ToChildMsg' : IsControl(n)})
    <3>1. chan["child"].control \in Seq({n \in ToChildMsg : IsControl(n)})
      BY DEF AcksAreStored
    <3>2. QED BY <2>1, <3>1, SeqMonotonic
  <2>5. child'.arrived \subseteq stored' /\ chan'["child"].unmatched \in Seq(Nat)
        /\ ToSet(chan'["child"].unmatched) \subseteq child'.arrived
    BY <1>1, <1>7, <1>11 DEF AcksAreStored
  <2>6. {n \in ToChildMsg : IsControl(n)}' = {n \in ToChildMsg' : IsControl(n)}
    BY DEF IsControl, Control
  <2>7. QED BY <1>7, <2>3, <2>4, <2>5, <2>6 DEF AcksAreStored
<1>16. AckArrives'
  <2>1. \A id : AckOnItsWay(id) => AckOnItsWay(id)'
    BY <1>7, <1>8, <1>9 DEF AckOnItsWay
  <2>2. ASSUME stores, NEW id, id = m.id PROVE AckOnItsWay(id)'
    BY <1>5, <1>8, <1>9, <2>2 DEF AckOnItsWay
  <2>3. ASSUME NEW id \in stored' PROVE id \in child.seen \/ AckOnItsWay(id)'
    <3>1. CASE id \in stored
      BY <1>2, <2>1, <3>1 DEF AckArrives
    <3>2. CASE id \notin stored
      BY <1>11, <2>2, <3>2
    <3>3. QED BY <3>1, <3>2
  <2>4. QED BY <1>1, <2>3 DEF AckArrives
<1>17. QED BY <1>2, <1>7, <1>11, <1>12, <1>13, <1>14, <1>15, <1>16

(* The child handles a message; an acknowledgement is seen then.           *)
LEMMA ChildHandlesChannel ==
  ASSUME ChannelInv, ChildHandles
  PROVE  /\ ChannelInv' /\ Alive
         /\ chan'["child"].pending = chan["child"].pending /\ chan'["child"].next = chan["child"].next
         /\ child'.waits = child.waits /\ child'.awaited = child.awaited
         /\ child'.givenUp = child.givenUp /\ child'.arrived = child.arrived
         /\ UNCHANGED stored
<1> USE DEF ChannelInv
<1> DEFINE c == chan["child"]
           m == NextUp(c)
           d == Taken(c)
<1>1. Drains("child") /\ chan' = [chan EXCEPT !["child"] = d] /\ UNCHANGED <<wire, open, stored>>
  BY DEF ChildHandles
<1>2. /\ Alive /\ IsChannel(c) /\ IsChannel(d) /\ m \in Message
      /\ d.next = c.next /\ d.closed = c.closed /\ d.pending = c.pending /\ d.unmatched = c.unmatched
      /\ SideInOrder(d, wire["child"], handled'["child"], chan["comm"].next)
      /\ handled' \in [Sides -> [BOOLEAN -> Nat]] /\ handled'["comm"] = handled["comm"]
      /\ m.ref \in Nat /\ m.id \in Nat
  BY <1>1, HandledFacts, TwoSides DEF Message
<1>3. child' = CASE m.type = "session_open" -> [child EXCEPT !.opening = m.id, !.session = TRUE]
                 [] m.type = "shutdown" -> Leaves(child)
                 [] m.type = "ack" -> [child EXCEPT !.seen = @ \cup {m.ref}]
                 [] OTHER -> child
  BY DEF ChildHandles
<1>4. c.control # <<>> \/ c.display # <<>>
  BY <1>1 DEF Drains, HasInput
<1>5. \/ IsControl(m) /\ c.control # <<>> /\ m = Head(c.control) /\ d.control = Tail(c.control)
      \/ ~IsControl(m) /\ d.control = c.control
  BY <1>2, <1>4, TakenFacts
<1> HIDE DEF c, m, d
<1>6. /\ chan' = [q \in Sides |-> chan'[q]] /\ \A q \in Sides : IsChannel(chan'[q])
      /\ chan'["child"] = d /\ chan'["comm"] = chan["comm"]
  BY <1>1, <1>2, OneSideChanges, TwoSides
<1>7. /\ child' \in ChildType /\ Alive' /\ child'.waits = child.waits /\ child'.awaited = child.awaited
      /\ child'.givenUp = child.givenUp /\ child'.arrived = child.arrived
      /\ child.seen \subseteq child'.seen /\ (m.type = "ack" => m.ref \in child'.seen)
  <2>1. CASE m.type = "session_open"
    <3>1. child' = [child EXCEPT !.opening = m.id, !.session = TRUE]
      BY <1>3, <2>1
    <3>2. QED BY <1>2, <2>1, <3>1 DEF TypeOK, ChildType, Alive
  <2>2. CASE m.type = "shutdown"
    <3>1. child' = Leaves(child)
      BY <1>3, <2>2
    <3>2. child' = child \/ child' = [child EXCEPT !.leaving = "leaving"]
      BY <3>1 DEF Leaves
    <3>3. QED BY <1>2, <2>2, <3>2 DEF TypeOK, ChildType, Alive
  <2>3. CASE m.type = "ack"
    <3>1. child' = [child EXCEPT !.seen = child.seen \cup {m.ref}]
      BY <1>3, <2>3
    <3>2. QED BY <1>2, <2>3, <3>1 DEF TypeOK, ChildType, Alive
  <2>4. CASE m.type \notin {"session_open", "shutdown", "ack"}
    <3>1. child' = child
      BY <1>3, <2>4
    <3>2. QED BY <1>2, <2>4, <3>1 DEF TypeOK, Alive
  <2>5. QED BY <2>1, <2>2, <2>3, <2>4
<1>8. TypeOK'
  BY <1>1, <1>2, <1>6, <1>7 DEF TypeOK
<1>9. InOrder'
  <2>1. SideInOrder(chan["comm"], wire["comm"], handled["comm"], c.next)
    BY <1>2, TwoSides DEF InOrder, c
  <2>2. QED BY <1>1, <1>2, <1>6, <2>1 DEF InOrder, Sides, Other
<1>10. NothingLeft' /\ OpenWhileAlive'
  BY <1>2, <1>6, <1>7 DEF NothingLeft, OpenWhileAlive, Sides, c
<1>11. c.control \in Seq(Message)
  BY <1>2, LaneTypes
<1>12. AcksAreStored'
  <2>1. ToChildMsg' = ToChildMsg
    BY <1>1 DEF ToChildMsg
  <2>2. d.control \in Seq({n \in ToChildMsg : IsControl(n)})
    <3> DEFINE Ctl == {n \in ToChildMsg : IsControl(n)}
    <3>1. c.control \in Seq(Ctl)
      BY DEF AcksAreStored, c
    <3> HIDE DEF Ctl
    <3>2. d.control \in Seq(Ctl)
      BY <1>5, <3>1, TailFacts
    <3>3. QED BY <3>2 DEF Ctl
  <2>3. QED BY <1>1, <1>2, <1>6, <1>7, <2>1, <2>2 DEF AcksAreStored, c
<1>13. AckArrives'
  <2>1. ASSUME NEW id, AckOnItsWay(id) PROVE AckOnItsWay(id)' \/ (m.type = "ack" /\ m.ref = id)
    <3>1. ToSet(c.control) = ToSet(d.control) \/ ToSet(c.control) = ToSet(d.control) \cup {m}
      BY <1>5, <1>11, MembersOf
    <3>2. PICK n \in ToSet(wire["child"]) \cup ToSet(c.control) : n.type = "ack" /\ n.ref = id
      BY <2>1 DEF AckOnItsWay, c
    <3>3. n \in ToSet(wire["child"]) \cup ToSet(d.control) \/ n = m
      BY <3>1, <3>2
    <3>4. QED BY <1>1, <1>6, <3>2, <3>3 DEF AckOnItsWay
  <2>2. QED BY <1>1, <1>2, <1>7, <2>1 DEF AckArrives
<1>14. QED BY <1>1, <1>2, <1>6, <1>7, <1>8, <1>9, <1>10, <1>12, <1>13 DEF c

(* The process is gone, and all that was on its way with it.               *)
LEMMA GoneChannel ==
  ASSUME ChannelInv, Gone
  PROVE  /\ ChannelInv' /\ ~Alive'
         /\ child'.waits = child.waits /\ child'.awaited = child.awaited /\ child'.givenUp = child.givenUp
         /\ UNCHANGED <<handled, stored>>
<1> USE DEF ChannelInv
<1>1. /\ IsChannel(NewChannel) /\ NewChannel.control = <<>> /\ NewChannel.display = <<>>
      /\ NewChannel.unmatched = <<>>
  BY EmptySeq DEF IsChannel, NewChannel
<1>2. IsChannel(Closed(chan["comm"])) /\ Closed(chan["comm"]).control = <<>> /\ Closed(chan["comm"]).display = <<>>
  BY TwoSides DEF Gone, HasInput, IsChannel, Closed
<1>3. /\ chan' = [q \in Sides |-> chan'[q]] /\ chan'["comm"] = Closed(chan["comm"]) /\ chan'["child"] = NewChannel
  <2>1. chan = [q \in Sides |-> chan[q]] /\ chan' = [chan EXCEPT !["comm"] = Closed(chan["comm"]), !["child"] = NewChannel]
    BY DEF TypeOK, Gone
  <2>2. DOMAIN chan' = Sides /\ chan'["comm"] = Closed(chan["comm"]) /\ chan'["child"] = NewChannel
    BY <2>1 DEF Sides
  <2>3. QED BY <2>1, <2>2
<1>4. \A q \in Sides : IsChannel(chan'[q]) /\ chan'[q].control = <<>> /\ chan'[q].display = <<>> /\ wire'[q] = <<>>
  BY <1>1, <1>2, <1>3 DEF Sides, Gone
<1>5. child' = [child EXCEPT !.leaving = "exited"] /\ UNCHANGED <<handled, stored>>
  BY DEF Gone
<1>6. /\ child' \in ChildType /\ ~Alive' /\ child'.waits = child.waits /\ child'.awaited = child.awaited
      /\ child'.givenUp = child.givenUp /\ child'.arrived = child.arrived
  BY <1>5 DEF TypeOK, ChildType, Alive
<1>7. TypeOK'
  <2>1. wire' \in [Sides -> Seq(Message)]
    BY EmptySeq DEF Gone
  <2>2. open' \in [state : {"no", "waiting", "ok", "failed"}, id : Nat]
    <3>1. open' = open \/ open' = [open EXCEPT !.state = "failed"]
      BY DEF Gone
    <3>2. QED BY <3>1 DEF TypeOK
  <2>3. QED BY <1>3, <1>4, <1>5, <1>6, <2>1, <2>2 DEF TypeOK
<1>8. InOrder' /\ OpenWhileAlive' /\ AckArrives' /\ NothingLeft'
  BY <1>4, <1>6 DEF InOrder, OpenWhileAlive, AckArrives, NothingLeft
<1>9. AcksAreStored'
  <2>1. ToSet(<<>>) = {} /\ wire'["child"] = <<>> /\ chan'["child"].unmatched = <<>> /\ chan'["child"].control = <<>>
    BY <1>1, <1>3, <1>4 DEF ToSet, Sides
  <2>2. child'.arrived \subseteq stored'
    BY <1>5, <1>6 DEF AcksAreStored
  <2>3. QED BY <2>1, <2>2, EmptySeq DEF AcksAreStored
<1>10. QED BY <1>5, <1>6, <1>7, <1>8, <1>9

-----------------------------------------------------------------------------
(* The waits of the child.                                                 *)

(* A step that is no business of the waits.                                *)
LEMMA WaitsStay ==
  ASSUME IpcInv, child'.waits = child.waits, child'.awaited = child.awaited, child'.givenUp = child.givenUp,
         stored \subseteq stored', stored' \subseteq Nat,
         Alive' => /\ Alive /\ child'.arrived = child.arrived
                   /\ chan'["child"].pending = chan["child"].pending
                   /\ chan'["child"].next \in Nat /\ chan'["child"].next >= chan["child"].next
                   /\ \A id \in stored' \ stored : id < chan["child"].next
  PROVE  WaitInv'
<1> USE DEF IpcInv
<1>1. AckedMeansStored'
  BY DEF AckedMeansStored, Returned, Waiting
<1>2. ASSUME Alive' PROVE WaitsAreRegistered'
  <2>1. \A id : Registered(chan["child"], id) => Registered(chan'["child"], id)
    BY <1>2 DEF Registered
  <2>2. ASSUME NEW id \in stored' \cup child'.awaited PROVE id < chan'["child"].next
    <3>1. id < chan["child"].next /\ id \in Nat
      <4>1. CASE id \in stored \cup child.awaited
        BY <1>2, <4>1 DEF WaitsAreRegistered, TypeOK, ChildType
      <4>2. CASE id \in stored' \ stored
        BY <1>2, <4>2 DEF TypeOK
      <4>3. QED BY <4>1, <4>2
    <3>2. chan["child"].next \in Nat
      BY TwoSides, LaneTypes
    <3>3. QED BY <1>2, <3>1, <3>2
  <2>3. QED BY <1>2, <2>1, <2>2 DEF WaitsAreRegistered
<1>3. QED BY <1>1, <1>2 DEF WaitInv, WaitsAreRegistered

(* An acknowledgement reaches the child: the wait for its event ends, and  *)
(* that event is stored.                                                   *)
LEMMA AckEndsWait ==
  ASSUME IpcInv, Dispatch("child")
  PROVE  WaitInv'
<1> USE DEF IpcInv
<1> DEFINE c == chan["child"]
           m == Head(wire["child"])
           d == Dispatched(c, m)
<1>1. "child" \in Sides
  BY DEF Sides
<1>2. /\ m \in Message /\ m \in ToChildMsg /\ m.valid /\ m.ref \in Nat
      /\ chan'["child"] = d /\ ~c.closed /\ IsChannel(c)
  BY <1>1, DispatchChannel DEF ChannelInv, ToChildMsg, Message
<1>3. Alive /\ UNCHANGED stored /\ d.next = c.next
  BY <1>2, DispatchedFacts DEF Dispatch
<1>4. CASE m.type # "ack"
  <2>1. child' = child /\ d.pending = c.pending
    BY <1>2, <1>4, DispatchedFacts DEF Dispatch
  <2>2. stored \subseteq Nat /\ c.next \in Nat
    BY <1>2, LaneTypes DEF TypeOK
  <2> HIDE DEF c, d
  <2>3. QED BY <1>2, <1>3, <2>1, <2>2, WaitsStay DEF c
<1>5. CASE m.type = "ack"
  <2>1. /\ \A p \in c.pending : p.id # m.ref => p \in d.pending
        /\ \A p \in d.pending : p \in c.pending /\ p.id # m.ref
    BY <1>2, <1>5, DispatchedFacts
  <2>2. child' = [child EXCEPT !.waits = {w \in child.waits : Registered(d, w.id)},
                               !.arrived = child.arrived \cup {m.ref}]
    BY <1>2, <1>5 DEF Dispatch
  <2>3. m.ref \in stored
    BY <1>2, <1>5 DEF ToChildMsg
  <2> HIDE DEF c, d, m
  <2>4. /\ child'.waits = {w \in child.waits : Registered(d, w.id)}
        /\ child'.arrived = child.arrived \cup {m.ref}
        /\ child'.awaited = child.awaited /\ child'.givenUp = child.givenUp
    BY <2>2 DEF TypeOK, ChildType
  <2>5. \A w \in child.waits : w.id # m.ref <=> Registered(d, w.id)
    <3>1. \A w \in child.waits : Registered(c, w.id)
      BY <1>3 DEF WaitsAreRegistered, c
    <3>2. QED BY <2>1, <3>1 DEF Registered
  <2>6. WaitsAreRegistered'
    BY <1>2, <1>3, <2>4, <2>5 DEF WaitsAreRegistered, c
  <2>7. AckedMeansStored'
    BY <1>3, <2>3, <2>4, <2>5 DEF AckedMeansStored, Returned, Waiting
  <2>8. QED BY <2>6, <2>7 DEF WaitInv
<1>6. QED BY <1>4, <1>5

(* A wait is registered for the id of a new message, which nobody has      *)
(* acknowledged yet.                                                       *)
LEMMA AwaitingFacts ==
  ASSUME IpcInv, NEW c, IsChannel(c), c.unmatched = chan["child"].unmatched,
         NEW id \in Nat, id \notin child.arrived
  PROVE  /\ IsChannel(Awaiting(c, id)) /\ Awaiting(c, id).next = c.next
         /\ Awaiting(c, id).closed = c.closed
         /\ Awaiting(c, id).control = c.control /\ Awaiting(c, id).display = c.display
         /\ Awaiting(c, id).unmatched = c.unmatched
         /\ c.pending \subseteq Awaiting(c, id).pending /\ Registered(Awaiting(c, id), id)
<1>1. c.unmatched \in Seq(Nat) /\ ToSet(c.unmatched) \subseteq child.arrived
  BY DEF IpcInv, AcksAreStored
<1>2. ~Contains(c.unmatched, id)
  <2>1. DOMAIN c.unmatched = 1 .. Len(c.unmatched)
    BY <1>1, LenProperties
  <2>2. QED BY <1>1, <2>1 DEF Contains, ToSet
<1>3. Awaiting(c, id) = [c EXCEPT !.pending = c.pending \cup {[id |-> id, at |-> c.inbound]}]
  BY <1>2 DEF Awaiting
<1> DEFINE p == [id |-> id, at |-> c.inbound]
           a == Awaiting(c, id)
<1>4. /\ c \in [next : Nat, pending : SUBSET [id : Nat, at : Nat], unmatched : {c.unmatched}, inbound : Nat,
                control : Seq({m \in Message : IsControl(m)}), display : Seq({m \in Message : ~IsControl(m)}),
                draining : BOOLEAN, closed : BOOLEAN]
      /\ c.inbound \in Nat /\ c.pending \in SUBSET [id : Nat, at : Nat]
  BY DEF IsChannel
<1>5. p \in [id : Nat, at : Nat] /\ p.id = id
  BY <1>4
<1> HIDE DEF p
<1>6. c.pending \cup {p} \in SUBSET [id : Nat, at : Nat]
  BY <1>4, <1>5
<1>7. a = [c EXCEPT !.pending = c.pending \cup {p}]
  BY <1>3 DEF p
<1> HIDE DEF a
<1>8. /\ a.next = c.next /\ a.closed = c.closed /\ a.control = c.control /\ a.display = c.display
      /\ a.unmatched = c.unmatched /\ a.pending = c.pending \cup {p}
  BY <1>4, <1>7
<1>9. IsChannel(a)
  BY <1>4, <1>6, <1>7 DEF IsChannel
<1>10. Registered(a, id)
  BY <1>5, <1>8 DEF Registered
<1>11. QED BY <1>8, <1>9, <1>10 DEF a

(* The child sends what it waits for.                                      *)
LEMMA SendEventAwaitsStep ==
  ASSUME IpcInv, NEW valid \in BOOLEAN, SendEventAwaits(valid)
  PROVE  ChannelInv' /\ WaitInv'
<1> USE DEF IpcInv
<1> DEFINE c == chan["child"]
           id == c.next
           a == Awaiting(c, id)
           d == Numbered(a)
           m == Msg(id, "event", 0, valid)
<1>1. /\ chan' = [chan EXCEPT !["child"] = d]
      /\ child' = [child EXCEPT !.sent = child.sent + 1, !.awaited = child.awaited \cup {id},
                                !.waits = child.waits \cup {[id |-> id, interval |-> 1]}]
      /\ wire' = [wire EXCEPT ![Other("child")] = @ \o <<m>>]
      /\ UNCHANGED <<open, handled, stored>> /\ Alive
  BY DEF SendEventAwaits, ToWire, Running
<1>2. IsChannel(c) /\ id \in Nat /\ "child" \in Sides
  BY TwoSides, LaneTypes
<1>3. id \notin child.arrived /\ id \notin child.awaited /\ id \notin stored
  BY <1>1, <1>2 DEF WaitsAreRegistered, AcksAreStored, TypeOK, ChildType
<1>4. /\ IsChannel(a) /\ a.next = c.next /\ a.closed = c.closed /\ a.control = c.control
      /\ a.display = c.display /\ a.unmatched = c.unmatched
      /\ c.pending \subseteq a.pending /\ Registered(a, id)
  BY <1>2, <1>3, AwaitingFacts
<1> HIDE DEF a
<1>5. /\ Numbers(c, d) /\ d.unmatched = c.unmatched /\ d.pending = a.pending /\ d.next = id + 1
  BY <1>4, NumberedFacts DEF Numbers
<1> HIDE DEF c, d, id
<1>6. m \in Message /\ m.id = id
  BY <1>2, EventFacts, Zenon
<1> HIDE DEF m
<1>7. /\ child' \in ChildType /\ Alive' /\ child'.arrived = child.arrived /\ child'.seen = child.seen
      /\ child'.givenUp = child.givenUp /\ child'.awaited = child.awaited \cup {id}
      /\ child'.waits = child.waits \cup {[id |-> id, interval |-> 1]}
  <2> DEFINE v == [id |-> id, interval |-> 1]
  <2>1. v \in [id : Nat, interval : {1, 2}]
    BY <1>2
  <2>2. child' = [child EXCEPT !.sent = child.sent + 1, !.awaited = child.awaited \cup {id},
                               !.waits = child.waits \cup {v}]
    BY <1>1
  <2> HIDE DEF v
  <2>3. child \in ChildType /\ child.leaving # "exited"
    BY <1>1 DEF TypeOK, Alive
  <2>4. /\ child'.arrived = child.arrived /\ child'.seen = child.seen /\ child'.givenUp = child.givenUp
        /\ child'.awaited = child.awaited \cup {id} /\ child'.waits = child.waits \cup {v}
        /\ child'.leaving = child.leaving
    BY <2>2, <2>3 DEF ChildType
  <2>5. child.waits \cup {v} \in SUBSET [id : Nat, interval : {1, 2}]
        /\ child.awaited \cup {id} \in SUBSET Nat /\ child.sent + 1 \in Nat
    BY <1>2, <2>1, <2>3 DEF ChildType
  <2>6. child' \in ChildType
    BY <2>2, <2>3, <2>5 DEF ChildType
  <2>7. QED BY <2>3, <2>4, <2>6 DEF Alive, v
<1>8. ChannelInv'
  <2>1. open' \in [state : {"no", "waiting", "ok", "failed"}, id : Nat]
    BY <1>1 DEF TypeOK
  <2>2. ChannelInv
    BY DEF ChannelInv
  <2>3. QED BY <1>1, <1>2, <1>5, <1>6, <1>7, <2>1, <2>2, SendStep DEF c, id
<1>9. chan'["child"] = d
  BY <1>1, <1>2, <1>5, OneSideChanges DEF Numbers
<1>10. WaitsAreRegistered'
  <2>1. \A x \in stored' \cup child'.awaited : x < id + 1
    BY <1>1, <1>2, <1>7 DEF WaitsAreRegistered, c, id, TypeOK, ChildType
  <2>2. ASSUME NEW w \in child'.waits
        PROVE  /\ w.id \in child'.awaited \ child'.arrived
               /\ Registered(d, w.id)
               /\ \A v \in child'.waits : v.id = w.id => v = w
    <3>1. CASE w \in child.waits
      <4>1. w.id \in child.awaited \ child.arrived /\ Registered(c, w.id) /\ \A v \in child.waits : v.id = w.id => v = w
        BY <1>1, <3>1 DEF WaitsAreRegistered, c
      <4>2. w.id # id
        BY <1>3, <4>1
      <4>3. QED BY <1>4, <1>5, <1>7, <4>1, <4>2 DEF Registered
    <3>2. CASE w = [id |-> id, interval |-> 1]
      <4>1. \A v \in child.waits : v.id # id
        BY <1>1, <1>3 DEF WaitsAreRegistered
      <4>2. QED BY <1>3, <1>4, <1>5, <1>7, <3>2, <4>1 DEF Registered
    <3>3. QED BY <1>7, <3>1, <3>2
  <2>3. QED BY <1>5, <1>9, <2>1, <2>2 DEF WaitsAreRegistered
<1>11. AckedMeansStored'
  <2>1. \A x : Waiting(x) => Waiting(x)'
    BY <1>7 DEF Waiting
  <2>2. ASSUME NEW x, x = id PROVE Waiting(x)'
    <3> DEFINE v == [id |-> id, interval |-> 1]
    <3>1. v \in child'.waits
      BY <1>7
    <3>2. v.id = x
      BY <2>2
    <3> HIDE DEF v
    <3>3. QED BY <3>1, <3>2 DEF Waiting
  <2>3. ASSUME NEW x \in Returned' PROVE x \in Returned
    BY <1>7, <2>1, <2>2, <2>3 DEF Returned
  <2>4. QED BY <1>1, <2>3 DEF AckedMeansStored
<1>12. QED BY <1>8, <1>10, <1>11 DEF WaitInv

(* The timer of a wait: the wait is given up, or registered once more.     *)
LEMMA AckTimerStep ==
  ASSUME IpcInv, NEW w \in child.waits, AckTimer(w)
  PROVE  ChannelInv' /\ WaitInv' /\ \A id \in child'.givenUp \ child.givenUp : id \notin child.arrived
<1> USE DEF IpcInv
<1> DEFINE c == chan["child"]
<1>1. Alive /\ AckTimer(w)
  BY DEF AckTimer, AckTimerOnce, AckTimerRenewed, Running
<1>2. IsChannel(c) /\ c.next \in Nat /\ "child" \in Sides /\ ChannelInv
  BY TwoSides, LaneTypes DEF ChannelInv
<1>3. /\ w.id \in child.awaited \ child.arrived /\ w.id \in Nat
      /\ \A v \in child.waits : v.id = w.id => v = w
      /\ w \in [id : Nat, interval : {1, 2}]
  BY <1>1 DEF WaitsAreRegistered, TypeOK, ChildType
<1>4. ASSUME NEW p \in c.pending, p.id = w.id
      PROVE  /\ IsChannel(Expired(c, p)) /\ Expired(c, p).next = c.next /\ Expired(c, p).closed = c.closed
             /\ Expired(c, p).control = c.control /\ Expired(c, p).display = c.display
             /\ Expired(c, p).unmatched = c.unmatched
             /\ \A v \in child.waits : v # w => Registered(Expired(c, p), v.id)
  <2>1. Expired(c, p) = [c EXCEPT !.pending = c.pending \ {p}]
    BY DEF Expired
  <2>2. \A v \in child.waits : Registered(c, v.id) /\ (v # w => v.id # w.id)
    BY <1>1, <1>3 DEF WaitsAreRegistered
  <2> HIDE DEF c
  <2>3. /\ IsChannel(Expired(c, p)) /\ Expired(c, p).pending = c.pending \ {p}
    BY <1>2, <2>1 DEF IsChannel
  <2>4. ASSUME NEW v \in child.waits, v # w PROVE Registered(Expired(c, p), v.id)
    BY <1>4, <2>2, <2>3, <2>4 DEF Registered
  <2>5. QED BY <1>2, <2>1, <2>3, <2>4 DEF IsChannel
<1>5. CASE AckTimerOnce(w)
  <2>1. PICK p \in c.pending :
          /\ p.id = w.id /\ chan' = [chan EXCEPT !["child"] = Expired(c, p)]
          /\ child' = [Leaves(child) EXCEPT !.waits = @ \ {w}, !.givenUp = @ \cup {w.id}]
    BY <1>5 DEF AckTimerOnce
  <2>2. UNCHANGED <<wire, open, handled, stored>>
    BY <1>5 DEF AckTimerOnce
  <2> HIDE DEF c
  <2>3. Leaves(child) = child \/ Leaves(child) = [child EXCEPT !.leaving = "leaving"]
    BY DEF Leaves
  <2>4. Leaves(child) \in ChildType /\ Leaves(child).leaving # "exited"
        /\ Leaves(child).waits = child.waits /\ Leaves(child).givenUp = child.givenUp
        /\ Leaves(child).awaited = child.awaited
        /\ Leaves(child).arrived = child.arrived /\ Leaves(child).seen = child.seen
    BY <1>1, <2>3 DEF TypeOK, ChildType, Alive
  <2>5. /\ child' \in ChildType /\ Alive' /\ child'.arrived = child.arrived /\ child'.seen = child.seen
        /\ child'.waits = child.waits \ {w} /\ child'.givenUp = child.givenUp \cup {w.id}
        /\ child'.awaited = child.awaited
    BY <1>3, <2>1, <2>4 DEF ChildType, Alive
  <2>6. SameLanes(c, Expired(c, p)) /\ Expired(c, p).unmatched = c.unmatched
    BY <1>4, <2>1 DEF SameLanes
  <2>7. open' \in [state : {"no", "waiting", "ok", "failed"}, id : Nat]
    BY <2>2 DEF TypeOK
  <2>8. ChannelInv'
    <3>1. Alive' = Alive
      BY <1>1, <2>5 DEF Alive
    <3>2. QED BY <1>2, <2>1, <2>2, <2>5, <2>6, <2>7, <3>1, QuietStep DEF c
  <2>9. chan'["child"] = Expired(c, p)
    BY <1>2, <1>4, <2>1, OneSideChanges
  <2>10. WaitsAreRegistered'
    BY <1>1, <1>4, <2>1, <2>2, <2>5, <2>6, <2>9 DEF WaitsAreRegistered, SameLanes, c
  <2>11. AckedMeansStored'
    BY <2>2, <2>5 DEF AckedMeansStored, Returned, Waiting
  <2>12. QED BY <1>3, <2>5, <2>8, <2>10, <2>11 DEF WaitInv
<1>6. CASE AckTimerRenewed(w)
  <2>1. PICK p \in c.pending :
          /\ p.id = w.id
          /\ chan' = [chan EXCEPT !["child"] = Numbered(Awaiting(Expired(c, p), w.id))]
          /\ child' = [child EXCEPT !.waits = (child.waits \ {w}) \cup
                         IF Registered(chan'["child"], w.id) THEN {[w EXCEPT !.interval = 2]} ELSE {}]
          /\ wire' = [wire EXCEPT ![Other("child")] = @ \o <<Msg(c.next, "event", 0, TRUE)>>]
    BY <1>6 DEF AckTimerRenewed, ToWire
  <2>2. UNCHANGED <<open, handled, stored>>
    BY <1>6 DEF AckTimerRenewed
  <2> DEFINE x == Expired(c, p)
             a == Awaiting(x, w.id)
             d == Numbered(a)
             m == Msg(c.next, "event", 0, TRUE)
             v == [w EXCEPT !.interval = 2]
  <2>3. /\ IsChannel(x) /\ x.next = c.next /\ x.closed = c.closed /\ x.control = c.control
        /\ x.display = c.display /\ x.unmatched = c.unmatched
        /\ \A u \in child.waits : u # w => Registered(x, u.id)
    BY <1>4, <2>1
  <2> HIDE DEF x
  <2>4. /\ IsChannel(a) /\ a.next = c.next /\ a.closed = c.closed /\ a.control = c.control
        /\ a.display = c.display /\ a.unmatched = c.unmatched
        /\ x.pending \subseteq a.pending /\ Registered(a, w.id)
    BY <1>3, <2>3, AwaitingFacts
  <2> HIDE DEF a
  <2>5. Numbers(c, d) /\ d.unmatched = c.unmatched /\ d.pending = a.pending /\ d.next = c.next + 1
    BY <2>4, NumberedFacts DEF Numbers
  <2>6. m \in Message /\ m.id = c.next
    <3> DEFINE n == c.next
    <3>1. n \in Nat
      BY <1>2
    <3> HIDE DEF n
    <3>2. \A b \in BOOLEAN : Msg(n, "event", 0, b) \in Message /\ Msg(n, "event", 0, b).id = n
      BY <3>1, EventFacts, Zenon
    <3>3. Msg(n, "event", 0, TRUE) \in Message /\ Msg(n, "event", 0, TRUE).id = n
      BY <3>2, Zenon
    <3>4. QED BY <3>3, Zenon DEF n
  <2>7. v \in [id : Nat, interval : {1, 2}] /\ v.id = w.id
    BY <1>3
  <2> HIDE DEF d, m, v
  <2>8. chan' = [chan EXCEPT !["child"] = d] /\ chan'["child"] = d
    <3>1. chan' = [chan EXCEPT !["child"] = d]
      BY <2>1 DEF d, a, x
    <3>2. QED BY <1>2, <2>5, <3>1, OneSideChanges DEF Numbers
  <2>9. \A u \in child.waits : Registered(d, u.id)
    <3>1. \A u \in child.waits : u # w => Registered(d, u.id)
      BY <2>3, <2>4, <2>5 DEF Registered
    <3>2. Registered(d, w.id)
      BY <2>4, <2>5 DEF Registered
    <3>3. QED BY <3>1, <3>2
  <2>10. child' = [child EXCEPT !.waits = (child.waits \ {w}) \cup {v}]
    BY <2>1, <2>8, <2>9 DEF v
  <2>11. /\ child' \in ChildType /\ Alive' /\ child'.arrived = child.arrived /\ child'.seen = child.seen
         /\ child'.givenUp = child.givenUp /\ child'.awaited = child.awaited
         /\ child'.waits = (child.waits \ {w}) \cup {v}
    BY <1>1, <2>7, <2>10 DEF TypeOK, ChildType, Alive
  <2>12. ChannelInv'
    <3>1. open' \in [state : {"no", "waiting", "ok", "failed"}, id : Nat]
      BY <2>2 DEF TypeOK
    <3>2. wire' = [wire EXCEPT ![Other("child")] = @ \o <<m>>]
      BY <2>1 DEF m
    <3> HIDE DEF c
    <3>3. QED BY <1>1, <1>2, <2>2, <2>5, <2>6, <2>8, <2>11, <3>1, <3>2, SendStep DEF c
  <2>13. WaitsAreRegistered'
    <3>1. \A id \in stored' \cup child'.awaited : id < d.next
      BY <1>1, <1>2, <2>2, <2>5, <2>11 DEF WaitsAreRegistered, TypeOK, ChildType
    <3>2. \A u \in child'.waits : u.id \in child'.awaited \ child'.arrived /\ Registered(d, u.id)
      BY <1>1, <1>3, <2>7, <2>9, <2>11 DEF WaitsAreRegistered
    <3>3. \A u, y \in child'.waits : y.id = u.id => y = u
      BY <1>1, <1>3, <2>7, <2>11 DEF WaitsAreRegistered
    <3>4. QED BY <2>8, <3>1, <3>2, <3>3 DEF WaitsAreRegistered
  <2>14. AckedMeansStored'
    BY <2>2, <2>7, <2>11 DEF AckedMeansStored, Returned, Waiting
  <2>15. QED BY <2>11, <2>12, <2>13, <2>14 DEF WaitInv
<1>7. QED BY <1>1, <1>5, <1>6 DEF AckTimer

-----------------------------------------------------------------------------
(* The steps, one by one.                                                  *)

(* A session_open, a prompt, a halt or a shutdown is a message.            *)
LEMMA OrderFacts ==
  ASSUME NEW id \in Nat, NEW type \in {"session_open", "prompt", "halt", "shutdown"}
  PROVE  /\ Msg(id, type, 0, TRUE) \in Message /\ Msg(id, type, 0, TRUE).id = id
         /\ Msg(id, type, 0, TRUE).valid /\ Msg(id, type, 0, TRUE).type # "ack"
<1> DEFINE m == Msg(id, type, 0, TRUE)
<1>1. m = [id |-> id, type |-> type, ref |-> 0, valid |-> TRUE] /\ type \in MessageType /\ type # "ack"
  BY DEF Msg, MessageType
<1>2. \A b \in BOOLEAN : [id |-> id, type |-> type, ref |-> 0, valid |-> b] \in Message
  BY <1>1 DEF Message
<1> HIDE DEF m
<1>3. m \in Message
  BY <1>1, <1>2, Zenon
<1>4. m.id = id /\ m.type # "ack"
  BY <1>1
<1>5. m.valid
  BY <1>1
<1>6. QED BY <1>3, <1>4, <1>5 DEF m

(* The Communicator sends a message that acknowledges nothing, and may     *)
(* register a wait of its own.                                             *)
LEMMA CommSendsStep ==
  ASSUME IpcInv, NEW c, Numbers(chan["comm"], c),
         NEW type \in {"session_open", "prompt", "halt", "shutdown"},
         chan' = [chan EXCEPT !["comm"] = c],
         ToWire("comm", <<Msg(chan["comm"].next, type, 0, TRUE)>>),
         UNCHANGED <<child, handled, stored>>, Alive,
         open' \in [state : {"no", "waiting", "ok", "failed"}, id : Nat]
  PROVE  ChannelInv' /\ WaitInv'
<1> USE DEF IpcInv
<1> DEFINE n == chan["comm"].next
           m == Msg(n, type, 0, TRUE)
<1>1. n \in Nat /\ "comm" \in Sides /\ "child" \in Sides /\ ChannelInv
  BY TwoSides, LaneTypes DEF ChannelInv
<1> HIDE DEF n
<1>2. m \in Message /\ m.id = n /\ m.valid /\ m.type # "ack"
  BY <1>1, OrderFacts, Zenon
<1>3. wire' = [wire EXCEPT ![Other("comm")] = @ \o <<m>>]
  BY DEF ToWire, m, n
<1> HIDE DEF m
<1>4. child' \in ChildType /\ Alive' /\ child'.arrived = child.arrived /\ child'.seen = child.seen
  BY DEF TypeOK, Alive
<1>5. ChannelInv'
  BY <1>1, <1>2, <1>3, <1>4, SendStep DEF n
<1>6. chan'["child"] = chan["child"]
  BY <1>1, OneSideChanges DEF Numbers
<1>7. WaitInv'
  <2>1. stored \subseteq Nat /\ chan["child"].next \in Nat
    BY TwoSides, LaneTypes DEF TypeOK
  <2>2. QED BY <1>6, <2>1, WaitsStay
<1>8. QED BY <1>5, <1>7

(* sendSessionOpen: the wait for the answer is the Communicator's own.     *)
LEMMA SendSessionOpenStep ==
  ASSUME IpcInv, SendSessionOpen
  PROVE  ChannelInv' /\ WaitInv'
<1> USE DEF IpcInv
<1> DEFINE c == chan["comm"]
           id == c.next
           a == Awaiting(c, id)
<1>1. IsChannel(c) /\ id \in Nat
  BY TwoSides, LaneTypes
<1>2. /\ open' = [state |-> "waiting", id |-> id]
      /\ chan' = [chan EXCEPT !["comm"] = Numbered(a)]
      /\ ToWire("comm", <<Msg(id, "session_open", 0, TRUE)>>)
      /\ UNCHANGED <<child, handled, stored>> /\ Alive
  BY DEF SendSessionOpen
<1>3. IsChannel(a) /\ a.next = c.next /\ a.closed = c.closed /\ a.control = c.control /\ a.display = c.display
  <2>1. c \in [next : Nat, pending : SUBSET [id : Nat, at : Nat], unmatched : {c.unmatched}, inbound : Nat,
                control : Seq({m \in Message : IsControl(m)}), display : Seq({m \in Message : ~IsControl(m)}),
                draining : BOOLEAN, closed : BOOLEAN]
    BY <1>1 DEF IsChannel
  <2> HIDE DEF c, id
  <2>2. CASE Contains(c.unmatched, id)
    <3>1. PICK u : a = [c EXCEPT !.unmatched = u]
      BY <2>2 DEF Awaiting
    <3> HIDE DEF a
    <3>2. QED BY <2>1, <3>1 DEF IsChannel
  <2>3. CASE ~Contains(c.unmatched, id)
    <3> DEFINE p == [id |-> id, at |-> c.inbound]
    <3>1. a = [c EXCEPT !.pending = c.pending \cup {p}]
      BY <2>3 DEF Awaiting
    <3>2. p \in [id : Nat, at : Nat]
      BY <1>1, <2>1
    <3> HIDE DEF a, p
    <3>3. c.pending \cup {p} \in SUBSET [id : Nat, at : Nat]
      BY <2>1, <3>2
    <3>4. QED BY <2>1, <3>1, <3>3 DEF IsChannel
  <2>4. QED BY <2>2, <2>3
<1> HIDE DEF a
<1>4. Numbers(c, Numbered(a))
  BY <1>3, NumberedFacts DEF Numbers
<1>5. open' \in [state : {"no", "waiting", "ok", "failed"}, id : Nat]
  <2> HIDE DEF id
  <2>1. QED BY <1>1, <1>2
<1>6. QED BY <1>2, <1>4, <1>5, CommSendsStep

(* A prompt, a halt or a shutdown.                                         *)
LEMMA OrderStep ==
  ASSUME IpcInv, NEW type \in {"prompt", "halt", "shutdown"}, CommSends(type)
  PROVE  ChannelInv' /\ WaitInv'
<1> USE DEF IpcInv
<1>1. IsChannel(chan["comm"]) /\ open \in [state : {"no", "waiting", "ok", "failed"}, id : Nat]
  BY TwoSides DEF TypeOK
<1>2. /\ chan' = [chan EXCEPT !["comm"] = Numbered(chan["comm"])]
      /\ ToWire("comm", <<Msg(chan["comm"].next, type, 0, TRUE)>>)
      /\ UNCHANGED <<child, open, handled, stored>> /\ Alive
  BY DEF CommSends, CommMaySend
<1>3. Numbers(chan["comm"], Numbered(chan["comm"]))
  BY <1>1, NumberedFacts DEF Numbers
<1>4. open' \in [state : {"no", "waiting", "ok", "failed"}, id : Nat]
  BY <1>1, <1>2
<1>5. type \in {"session_open", "prompt", "halt", "shutdown"}
  OBVIOUS
<1>6. QED BY <1>2, <1>3, <1>4, <1>5, CommSendsStep

(* The wait for session_open times out.                                    *)
LEMMA OpenTimerStep ==
  ASSUME IpcInv, OpenTimer
  PROVE  ChannelInv' /\ WaitInv'
<1> USE DEF IpcInv
<1> DEFINE c == chan["comm"]
           d == [c EXCEPT !.pending = {p \in c.pending : p.id # open.id}]
<1>1. chan' = [chan EXCEPT !["comm"] = d] /\ UNCHANGED <<wire, child, handled, stored>>
  BY DEF OpenTimer
<1>2. IsChannel(c) /\ "comm" \in Sides /\ ChannelInv
  BY TwoSides DEF ChannelInv
<1>3. SameLanes(c, d)
  <2> HIDE DEF c
  <2>1. QED BY <1>2 DEF SameLanes, IsChannel
<1>4. open' \in [state : {"no", "waiting", "ok", "failed"}, id : Nat]
  BY DEF OpenTimer, TypeOK
<1> HIDE DEF d
<1>5. child' \in ChildType /\ Alive' = Alive /\ child'.arrived = child.arrived /\ child'.seen = child.seen
  BY <1>1 DEF TypeOK, Alive
<1>6. ChannelInv'
  BY <1>1, <1>2, <1>3, <1>4, <1>5, QuietStep
<1>7. chan'["child"] = chan["child"] /\ stored \subseteq Nat /\ chan["child"].next \in Nat
  BY <1>1, <1>2, <1>3, OneSideChanges, TwoSides, LaneTypes DEF SameLanes, TypeOK
<1>8. WaitInv'
  BY <1>1, <1>5, <1>7, WaitsStay
<1>9. QED BY <1>6, <1>8

(* The child sends a message that it does not wait for.                    *)
LEMMA ChildSendsStep ==
  ASSUME IpcInv, Alive, NEW m \in Message, m.id = chan["child"].next,
         chan' = [chan EXCEPT !["child"] = Numbered(chan["child"])],
         ToWire("child", <<m>>), UNCHANGED <<open, handled, stored>>,
         child' \in ChildType, child'.leaving = child.leaving,
         child'.arrived = child.arrived, child'.seen = child.seen,
         child'.waits = child.waits, child'.awaited = child.awaited, child'.givenUp = child.givenUp
  PROVE  ChannelInv' /\ WaitInv'
<1> USE DEF IpcInv
<1> DEFINE c == chan["child"]
<1>1. IsChannel(c) /\ c.next \in Nat /\ "child" \in Sides /\ ChannelInv
  BY TwoSides, LaneTypes DEF ChannelInv
<1>2. Numbers(c, Numbered(c)) /\ Numbered(c).unmatched = c.unmatched /\ Numbered(c).pending = c.pending
  BY <1>1, NumberedFacts DEF Numbers
<1>3. wire' = [wire EXCEPT ![Other("child")] = @ \o <<m>>]
  BY DEF ToWire
<1>4. Alive' /\ open' \in [state : {"no", "waiting", "ok", "failed"}, id : Nat] /\ stored \subseteq Nat
  BY DEF Alive, TypeOK
<1>5. ChannelInv'
  BY <1>1, <1>2, <1>3, <1>4, SendStep
<1>6. chan'["child"] = Numbered(c)
  BY <1>1, <1>2, OneSideChanges DEF Numbers
<1> HIDE DEF c
<1>7. WaitInv'
  <2>1. chan'["child"].pending = c.pending /\ chan'["child"].next = c.next + 1
    BY <1>2, <1>6 DEF Numbers
  <2>2. QED BY <1>1, <1>4, <2>1, WaitsStay DEF c
<1>8. QED BY <1>5, <1>7

(* An event or a heartbeat nobody waits for.                               *)
LEMMA SendEventStep ==
  ASSUME IpcInv, SendEvent
  PROVE  ChannelInv' /\ WaitInv'
<1> USE DEF IpcInv
<1> DEFINE n == chan["child"].next
           m == Msg(n, "event", 0, TRUE)
<1>1. n \in Nat
  BY TwoSides, LaneTypes
<1>2. Alive /\ UNCHANGED <<open, handled, stored>>
      /\ chan' = [chan EXCEPT !["child"] = Numbered(chan["child"])]
      /\ child' = [child EXCEPT !.sent = child.sent + 1]
      /\ ToWire("child", <<m>>)
  BY DEF SendEvent, Running
<1> HIDE DEF n
<1>3. \A b \in BOOLEAN : Msg(n, "event", 0, b) \in Message /\ Msg(n, "event", 0, b).id = n
  BY <1>1, EventFacts, Zenon
<1>4. m \in Message /\ m.id = n
  BY <1>3, Zenon
<1> HIDE DEF m
<1>5. /\ child' \in ChildType /\ child'.leaving = child.leaving
      /\ child'.arrived = child.arrived /\ child'.seen = child.seen
      /\ child'.waits = child.waits /\ child'.awaited = child.awaited /\ child'.givenUp = child.givenUp
  <2> DEFINE k == child.sent + 1
  <2>1. child \in ChildType /\ k \in Nat
    BY DEF TypeOK, ChildType
  <2>2. child' = [child EXCEPT !.sent = k]
    BY <1>2
  <2> HIDE DEF k
  <2>3. QED BY <2>1, <2>2 DEF ChildType
<1>6. QED BY <1>2, <1>4, <1>5, ChildSendsStep DEF n

(* The answer to session_open.                                             *)
LEMMA SessionOpenedStep ==
  ASSUME IpcInv, SessionOpened
  PROVE  ChannelInv' /\ WaitInv'
<1> USE DEF IpcInv
<1> DEFINE n == chan["child"].next
           m == Msg(n, "ack", child.opening, TRUE)
<1>1. n \in Nat /\ child.opening \in Nat
  BY TwoSides, LaneTypes DEF TypeOK, ChildType
<1>2. Alive /\ UNCHANGED <<open, handled, stored>>
      /\ chan' = [chan EXCEPT !["child"] = Numbered(chan["child"])]
      /\ child' = [child EXCEPT !.opening = 0]
      /\ ToWire("child", <<m>>)
  BY DEF SessionOpened, Running
<1> HIDE DEF n
<1>3. m \in Message /\ m.id = n
  BY <1>1, AckFacts, Zenon
<1> HIDE DEF m
<1>4. /\ child' \in ChildType /\ child'.leaving = child.leaving
      /\ child'.arrived = child.arrived /\ child'.seen = child.seen
      /\ child'.waits = child.waits /\ child'.awaited = child.awaited /\ child'.givenUp = child.givenUp
  BY <1>2 DEF TypeOK, ChildType
<1>5. QED BY <1>2, <1>3, <1>4, ChildSendsStep DEF n

(* The pipe is closed under the child, which starts to leave.              *)
LEMMA DisconnectedStep ==
  ASSUME IpcInv, Disconnected
  PROVE  ChannelInv' /\ WaitInv'
<1> USE DEF IpcInv
<1>1. /\ UNCHANGED <<chan, wire, open, handled, stored>> /\ Alive
      /\ child' = [child EXCEPT !.leaving = "leaving"]
  BY DEF Disconnected, Leaves, Running
<1>2. /\ child' \in ChildType /\ Alive' = Alive /\ child'.arrived = child.arrived /\ child'.seen = child.seen
      /\ child'.waits = child.waits /\ child'.awaited = child.awaited /\ child'.givenUp = child.givenUp
  BY <1>1 DEF TypeOK, ChildType, Alive
<1>3. ChannelInv'
  BY <1>1, <1>2 DEF ChannelInv, TypeOK, InOrder, NothingLeft, OpenWhileAlive, AcksAreStored, ToChildMsg,
                    AckArrives, AckOnItsWay
<1>4. WaitInv'
  <2>1. stored \subseteq Nat /\ chan["child"].next \in Nat
    BY TwoSides, LaneTypes DEF TypeOK
  <2>2. QED BY <1>1, <1>2, <2>1, WaitsStay
<1>5. QED BY <1>3, <1>4

(* A message reaches the Communicator, or is handled on either side: no    *)
(* wait of the child is concerned.                                         *)
LEMMA ReceiveSteps ==
  ASSUME IpcInv
  PROVE  /\ \A p \in Sides : Dispatch(p) => ChannelInv' /\ WaitInv'
         /\ \A appended \in BOOLEAN : CommHandles(appended) => ChannelInv' /\ WaitInv'
         /\ ChildHandles => ChannelInv' /\ WaitInv'
<1> USE DEF IpcInv
<1>1. ChannelInv /\ stored \subseteq Nat /\ chan["child"].next \in Nat /\ "child" \in Sides
  BY TwoSides, LaneTypes DEF ChannelInv, TypeOK
<1>2. ASSUME NEW p \in Sides, Dispatch(p) PROVE ChannelInv' /\ WaitInv'
  <2>1. ChannelInv'
    BY <1>1, <1>2, DispatchChannel
  <2>2. CASE p = "child"
    BY <1>2, <2>1, <2>2, AckEndsWait
  <2>3. CASE p # "child"
    <3>1. chan'["child"] = chan["child"]
      BY <1>1, <1>2, <2>3, DispatchChannel
    <3>2. Alive /\ child' = child /\ stored' = stored
      BY <1>2, <2>3 DEF Dispatch
    <3>3. WaitInv'
      BY <1>1, <3>1, <3>2, WaitsStay
    <3>4. QED BY <2>1, <3>3
  <2>4. QED BY <2>2, <2>3
<1>3. ASSUME NEW appended \in BOOLEAN, CommHandles(appended) PROVE ChannelInv' /\ WaitInv'
  <2>1. /\ ChannelInv' /\ chan'["child"] = chan["child"]
        /\ stored \subseteq stored' /\ \A id \in stored' \ stored : id < chan["child"].next
    BY <1>1, <1>3, CommHandlesChannel
  <2>2. child' = child /\ (Alive' => Alive)
    BY <1>3 DEF CommHandles, Alive
  <2>3. stored' \subseteq Nat
    BY <2>1 DEF ChannelInv, TypeOK
  <2>4. WaitInv'
    BY <1>1, <2>1, <2>2, <2>3, WaitsStay
  <2>5. QED BY <2>1, <2>4
<1>4. ASSUME ChildHandles PROVE ChannelInv' /\ WaitInv'
  <2>1. /\ ChannelInv' /\ Alive
        /\ chan'["child"].pending = chan["child"].pending /\ chan'["child"].next = chan["child"].next
        /\ child'.waits = child.waits /\ child'.awaited = child.awaited
        /\ child'.givenUp = child.givenUp /\ child'.arrived = child.arrived
        /\ UNCHANGED stored
    BY <1>1, <1>4, ChildHandlesChannel
  <2>2. WaitInv'
    BY <1>1, <2>1, WaitsStay
  <2>3. QED BY <2>1, <2>2
<1>5. QED BY <1>2, <1>3, <1>4

(* The process is gone, and its waits with it.                             *)
LEMMA GoneStep ==
  ASSUME IpcInv, Gone
  PROVE  ChannelInv' /\ WaitInv'
<1>1. /\ ChannelInv' /\ ~Alive'
      /\ child'.waits = child.waits /\ child'.awaited = child.awaited /\ child'.givenUp = child.givenUp
      /\ UNCHANGED <<handled, stored>>
  BY GoneChannel DEF IpcInv, ChannelInv
<1>2. stored' \subseteq Nat
  BY <1>1 DEF IpcInv, TypeOK
<1>3. WaitInv'
  BY <1>1, <1>2, WaitsStay
<1>4. QED BY <1>1, <1>3

-----------------------------------------------------------------------------
(* Every step of the channel keeps the invariant.                          *)
LEMMA IpcStepInv == IpcInv /\ [IpcNext]_ipcVars => IpcInv'
<1> SUFFICES ASSUME IpcInv, [IpcNext]_ipcVars PROVE ChannelInv' /\ WaitInv'
  BY DEF IpcInv, ChannelInv, WaitInv
<1>1. CASE \E p \in Sides : Dispatch(p)
  BY <1>1, ReceiveSteps
<1>2. CASE \E appended \in BOOLEAN : CommHandles(appended)
  BY <1>2, ReceiveSteps
<1>3. CASE SendSessionOpen
  BY <1>3, SendSessionOpenStep
<1>4. CASE \E t \in {"prompt", "halt", "shutdown"} : CommSends(t)
  BY <1>4, OrderStep
<1>5. CASE OpenTimer
  BY <1>5, OpenTimerStep
<1>6. CASE SendEvent
  BY <1>6, SendEventStep
<1>7. CASE \E valid \in BOOLEAN : SendEventAwaits(valid)
  BY <1>7, SendEventAwaitsStep
<1>8. CASE \E w \in child.waits : AckTimer(w)
  BY <1>8, AckTimerStep
<1>9. CASE ChildHandles
  BY <1>9, ReceiveSteps
<1>10. CASE SessionOpened
  BY <1>10, SessionOpenedStep
<1>11. CASE Disconnected
  BY <1>11, DisconnectedStep
<1>12. CASE Exits \/ Crashes \/ OpenThrows
  BY <1>12, GoneStep DEF Exits, Crashes, OpenThrows
<1>13. CASE UNCHANGED ipcVars
  BY <1>13 DEF ipcVars, IpcInv, ChannelInv, WaitInv, TypeOK, InOrder, NothingLeft, OpenWhileAlive, AcksAreStored,
               ToChildMsg, AckArrives, AckOnItsWay, WaitsAreRegistered, AckedMeansStored, Returned, Waiting,
               Alive, Registered, IsChannel
<1>14. QED
  BY <1>1, <1>2, <1>3, <1>4, <1>5, <1>6, <1>7, <1>8, <1>9, <1>10, <1>11, <1>12, <1>13 DEF IpcNext

(* The invariant holds in every state of the channel.                      *)
THEOREM ChannelIsSound == IpcSpec => []IpcInv
<1>1. IpcInit => IpcInv
  BY IpcInitInv
<1>2. IpcInv /\ [IpcNext]_ipcVars => IpcInv'
  BY IpcStepInv
<1>3. QED BY <1>1, <1>2, PTL DEF IpcSpec

(* An awaited sendEvent that returns has its event in the store, whatever  *)
(* is acknowledged late, twice or for another message                      *)
(* (ipc.ts:182-195, child.ts:143-166).                                     *)
THEOREM AckedIsStored == IpcSpec => []AckedMeansStored
<1>1. IpcInv => AckedMeansStored
  BY DEF IpcInv
<1>2. QED BY <1>1, ChannelIsSound, PTL

(* A lane is handled in the order it was sent.                             *)
LEMMA HandledGrows ==
  ASSUME IpcInv, [IpcNext]_ipcVars, NEW p \in Sides, NEW control \in BOOLEAN
  PROVE  handled'[p][control] >= handled[p][control]
<1> USE DEF IpcInv
<1>1. \A q \in Sides : handled[q] \in [BOOLEAN -> Nat]
  BY DEF TypeOK
<1>2. CASE UNCHANGED handled
  <2>1. handled[p][control] \in Nat
    BY <1>1
  <2>2. QED BY <1>2, <2>1
<1>3. CASE \E q \in Sides : Drains(q)
  <2>1. PICK q \in Sides : Drains(q)
    BY <1>3
  <2>2. /\ handled'[q][TRUE] >= handled[q][TRUE] /\ handled'[q][FALSE] >= handled[q][FALSE]
        /\ \A r \in Sides : r # q => handled'[r] = handled[r]
    BY <2>1, HandledFacts DEF ChannelInv
  <2>3. CASE p = q
    <3>1. handled'[p][TRUE] >= handled[p][TRUE] /\ handled'[p][FALSE] >= handled[p][FALSE]
      BY <2>2, <2>3
    <3>2. CASE control
      <4>1. control = TRUE
        BY <3>2
      <4>2. QED BY <3>1, <4>1, Zenon
    <3>3. CASE ~control
      <4>1. control = FALSE
        BY <3>3
      <4>2. QED BY <3>1, <4>1, Zenon
    <3>4. QED BY <3>2, <3>3
  <2>4. CASE p # q
    <3>1. handled'[p] = handled[p] /\ handled[p][control] \in Nat
      BY <1>1, <2>2, <2>4
    <3>2. QED BY <3>1
  <2>5. QED BY <2>3, <2>4
<1>4. UNCHANGED handled \/ \E q \in Sides : Drains(q)
  BY DEF IpcNext, ipcVars, Dispatch, CommHandles, SendSessionOpen, CommSends, OpenTimer, SendEvent,
         SendEventAwaits, AckTimer, AckTimerOnce, AckTimerRenewed, ChildHandles, SessionOpened, Disconnected,
         Exits, Crashes, OpenThrows, Gone, Sides
<1>5. QED BY <1>2, <1>3, <1>4

(* Each lane is handled in order, and no acknowledgement is lost on its    *)
(* way to a living child, however full the display lane is                 *)
(* (ipc.ts:46-82).                                                         *)
THEOREM LanesKeepTheirOrder == IpcSpec => LaneDiscipline
<1> DEFINE Step == /\ \A p \in Sides, control \in BOOLEAN : handled[p][control]' >= handled[p][control]
                   /\ Alive' => \A id \in stored' : id \in child.seen' \/ AckOnItsWay(id)'
<1>1. IpcInv /\ IpcInv' /\ [IpcNext]_ipcVars => [Step]_ipcVars
  <2> SUFFICES ASSUME IpcInv, IpcInv', [IpcNext]_ipcVars PROVE Step
    OBVIOUS
  <2>1. \A p \in Sides, control \in BOOLEAN : handled[p][control]' >= handled[p][control]
    BY HandledGrows
  <2>2. Alive' => \A id \in stored' : id \in child.seen' \/ AckOnItsWay(id)'
    BY DEF IpcInv, AckArrives
  <2>3. QED BY <2>1, <2>2
<1>2. IpcSpec => [][IpcNext]_ipcVars
  BY PTL DEF IpcSpec
<1>3. [][Step]_ipcVars <=> LaneDiscipline
  BY DEF LaneDiscipline
<1>4. IpcSpec => [][Step]_ipcVars
  BY <1>1, <1>2, ChannelIsSound, PTL
<1>5. QED BY <1>3, <1>4

(* A child never gives up a wait whose acknowledgement has arrived, though *)
(* the timer of its first interval fired in between (child.ts:157-165).    *)
THEOREM ArrivedIsNotGivenUp == IpcSpec => NoAckMissed
<1> DEFINE Step == \A id \in child.givenUp' \ child.givenUp : id \notin child.arrived
<1>1. IpcInv /\ [IpcNext]_ipcVars => [Step]_ipcVars
  <2> SUFFICES ASSUME IpcInv, [IpcNext]_ipcVars PROVE Step
    OBVIOUS
  <2>1. CASE \E w \in child.waits : AckTimer(w)
    BY <2>1, AckTimerStep
  <2>2. CASE child'.givenUp = child.givenUp
    BY <2>2
  <2>3. \/ \E w \in child.waits : AckTimer(w)
        \/ child'.givenUp = child.givenUp
    <3>1. child \in ChildType
      BY DEF IpcInv, TypeOK
    <3>2. ASSUME ChildHandles PROVE child'.givenUp = child.givenUp
      BY <3>2, ChildHandlesChannel DEF IpcInv, ChannelInv
    <3>3. ASSUME NEW p \in Sides, Dispatch(p) PROVE child'.givenUp = child.givenUp
      <4>1. \/ child' = child
            \/ \E s, t : child' = [child EXCEPT !.waits = s, !.arrived = t]
        BY <3>3 DEF Dispatch
      <4>2. QED BY <3>1, <4>1 DEF ChildType
    <3>4. ASSUME \E valid \in BOOLEAN : SendEventAwaits(valid) PROVE child'.givenUp = child.givenUp
      <4> DEFINE id == chan["child"].next
                 v == [id |-> id, interval |-> 1]
      <4>1. child' = [child EXCEPT !.sent = child.sent + 1, !.awaited = child.awaited \cup {id},
                                   !.waits = child.waits \cup {v}]
        BY <3>4 DEF SendEventAwaits
      <4> HIDE DEF id, v
      <4>2. QED BY <3>1, <4>1 DEF ChildType
    <3>5. ASSUME SendEvent \/ SessionOpened \/ Disconnected \/ Exits \/ Crashes \/ OpenThrows
          PROVE  child'.givenUp = child.givenUp
      BY <3>1, <3>5 DEF SendEvent, SessionOpened, Disconnected, Exits, Crashes, OpenThrows, Gone, Leaves, ChildType
    <3>6. ASSUME \/ \E appended \in BOOLEAN : CommHandles(appended)
                 \/ SendSessionOpen \/ OpenTimer
                 \/ \E t \in {"prompt", "halt", "shutdown"} : CommSends(t)
                 \/ UNCHANGED ipcVars
          PROVE  child' = child
      BY <3>6 DEF CommHandles, SendSessionOpen, CommSends, OpenTimer, ipcVars
    <3>7. QED BY <3>2, <3>3, <3>4, <3>5, <3>6 DEF IpcNext
  <2>4. QED BY <2>1, <2>2, <2>3
<1>2. IpcSpec => [][IpcNext]_ipcVars
  BY PTL DEF IpcSpec
<1>3. [][Step]_ipcVars <=> NoAckMissed
  BY DEF NoAckMissed
<1>4. IpcSpec => [][Step]_ipcVars
  BY <1>1, <1>2, ChannelIsSound, PTL
<1>5. QED BY <1>3, <1>4
=============================================================================
