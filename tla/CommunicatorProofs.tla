------------------------- MODULE CommunicatorProofs -------------------------
(***************************************************************************)
(* The write-ahead rule of the session store, for every set of prompts,    *)
(* every restart budget, any number of Executors and every combination of  *)
(* the faults of Communicator.                                             *)
(***************************************************************************)
EXTENDS Communicator, FiniteSetTheorems, SequenceTheorems, TLAPS

LineKind == {"user_message", "tool_call_requested", "tool_call_finished",
             "turn_finished", "provider_error", "halted"}
LineType == [kind : LineKind, prompt : Prompt \cup {None}, call : Call \cup {None}]

Requested == CallsIn(store, "tool_call_requested")

(* What an Executor may write to the Communicator.  A finish line is sent  *)
(* only for a call whose request line is in the store.                     *)
LineSafe(l) == l.kind = "tool_call_finished" => l.call \in Requested
ToCommMsg ==
  [type : {"hello", "open_ack", "halted"}]
    \cup [type : {"ask_user"}, call : Call \cup {None}]
    \cup [type : {"event"}, line : {l \in LineType : LineSafe(l)}, wait : BOOLEAN]

PC == {"boot", "fresh", "opening", "dead"} \cup HasAgent
ExecType == [pc : PC, prompt : Prompt \cup {None}, queued : Prompt \cup {None},
             abort : BOOLEAN, halted : BOOLEAN, call : Call \cup {None}]
EnvType == [typed : SUBSET Prompt, exits : Nat, halts : Nat, cancels : Nat,
            calls : 0 .. MaxCalls, ran : SUBSET Call, lost : SUBSET Prompt]

TypeOK ==
  /\ exec \in [Epoch -> ExecType]
  /\ toComm \in [Epoch -> Seq(ToCommMsg)]
  /\ acked \in [Epoch -> BOOLEAN]
  /\ store \in Seq(LineType)
  /\ env \in EnvType

(* A call that an Executor runs was requested in the store; one that it    *)
(* waits to run too, as soon as the acknowledgement is there.              *)
CallStored ==
  \A e \in Epoch :
    /\ exec[e].pc = "request" => exec[e].call \in Call
    /\ exec[e].pc = "request" /\ acked[e] => exec[e].call \in Requested
    /\ exec[e].pc \in {"tool", "ask"} => exec[e].call \in Requested

(* An Executor that lives has at most one line on its way that it waits    *)
(* for: the one its state owes.  So an acknowledgement is never mistaken   *)
(* for that of another line.                                               *)
Waits(m) == m.type = "event" /\ m.wait
Owed(x, l) == x.pc = "request" => l = Line("tool_call_requested", None, x.call)
OneWait ==
  \A e \in Epoch : exec[e].pc # "dead" =>
    \A i \in DOMAIN toComm[e] : Waits(toComm[e][i]) =>
      /\ exec[e].pc \in Awaiting /\ ~acked[e]
      /\ Owed(exec[e], toComm[e][i].line)
      /\ \A j \in DOMAIN toComm[e] : Waits(toComm[e][j]) => i = j

CommInv == TypeOK /\ CallStored /\ OneWait /\ RanWasRequested /\ FinishAfterRequest

-----------------------------------------------------------------------------
(* Facts about the store and the pipes.                                    *)

(* The empty log holds no call.                                            *)
LEMMA CallsOfEmpty == ASSUME NEW k PROVE CallsIn(<<>>, k) = {}
BY DEF CallsIn

(* What Append does to a sequence, place by place.                         *)
LEMMA AppendFacts ==
  ASSUME NEW S, NEW q \in Seq(S), NEW m \in S
  PROVE  /\ Append(q, m) \in Seq(S)
         /\ Len(q) \in Nat /\ DOMAIN q = 1 .. Len(q)
         /\ DOMAIN Append(q, m) = 1 .. Len(q) + 1
         /\ Append(q, m)[Len(q) + 1] = m
         /\ \A i \in 1 .. Len(q) : Append(q, m)[i] = q[i]
OBVIOUS

(* A function on 1 .. n is a sequence.                                     *)
LEMMA FunctionIsSeq ==
  ASSUME NEW S, NEW n \in Nat, NEW f \in [1 .. n -> S]
  PROVE  f \in Seq(S) /\ DOMAIN f = 1 .. n
OBVIOUS

(* A line of a kind adds its call to the calls of that kind.               *)
LEMMA CallsOfAppend ==
  ASSUME NEW S, NEW log \in Seq(S), NEW l \in S, NEW k
  PROVE  CallsIn(Append(log, l), k)
           = CallsIn(log, k) \cup (IF l.kind = k THEN {l.call} ELSE {})
BY AppendFacts DEF CallsIn

(* A message after others that nobody waits for.                           *)
LEMMA OnlyLastWaits ==
  ASSUME NEW S, NEW q \in Seq(S), NEW m \in S,
         \A i \in DOMAIN q : ~Waits(q[i])
  PROVE  \A i \in DOMAIN Append(q, m) : Waits(Append(q, m)[i]) =>
           /\ Append(q, m)[i] = m
           /\ \A j \in DOMAIN Append(q, m) : Waits(Append(q, m)[j]) => i = j
<1>1. \A i \in DOMAIN Append(q, m) : Waits(Append(q, m)[i]) => i = Len(q) + 1
  BY AppendFacts
<1>2. QED
  BY <1>1, AppendFacts

(* A longer log makes no message unsafe that was safe.                     *)
LEMMA MessagesStaySafe ==
  ASSUME Requested \subseteq Requested'
  PROVE  /\ ToCommMsg \subseteq ToCommMsg'
         /\ \A q : q \in Seq(ToCommMsg) => q \in Seq(ToCommMsg')
<1>1. ToCommMsg \subseteq ToCommMsg'
  BY DEF ToCommMsg, LineSafe
<1>2. QED
  BY <1>1, SeqMonotonic

-----------------------------------------------------------------------------
(* The inductive invariant holds at the start.                             *)

(* Init establishes the invariant.                                         *)
LEMMA InitInv == Init => CommInv
<1> SUFFICES ASSUME Init PROVE CommInv
  OBVIOUS
<1>1. TypeOK
  <2>1. exec \in [Epoch -> ExecType]
    BY DEF Init, ExecType, PC, HasAgent, NewExec
  <2>2. toComm \in [Epoch -> Seq(ToCommMsg)]
    BY EmptySeq DEF Init
  <2>3. acked \in [Epoch -> BOOLEAN] /\ store \in Seq(LineType)
    BY EmptySeq DEF Init
  <2>4. env \in EnvType
    BY BoundAssumption DEF Init, EnvType
  <2>5. QED BY <2>1, <2>2, <2>3, <2>4 DEF TypeOK
<1>2. CallStored
  BY DEF Init, CallStored, NewExec
<1>3. OneWait
  BY DEF Init, OneWait
<1>4. RanWasRequested /\ FinishAfterRequest
  BY DEF Init, RanWasRequested, FinishAfterRequest
<1>5. QED BY <1>1, <1>2, <1>3, <1>4 DEF CommInv

-----------------------------------------------------------------------------
(* The kinds of steps, by what they do to an Executor, its pipe and the    *)
(* store.                                                                  *)

(* Nothing that the invariant is about changes, but for other counters.    *)
LEMMA OnlyCounters ==
  ASSUME CommInv, UNCHANGED <<exec, toComm, acked, store>>,
         env' \in EnvType, env'.ran = env.ran
  PROVE  CommInv'
<1> USE DEF CommInv
<1>1. Requested' = Requested
  BY DEF Requested
<1>2. TypeOK'
  BY <1>1, MessagesStaySafe DEF TypeOK
<1>3. CallStored' /\ OneWait'
  BY <1>1 DEF CallStored, OneWait
<1>4. RanWasRequested' /\ FinishAfterRequest'
  BY DEF RanWasRequested, FinishAfterRequest
<1>5. QED BY <1>2, <1>3, <1>4

(* An Executor moves on to x and writes nothing, or a message that nobody  *)
(* waits for.                                                              *)
MovesOn(e, x) ==
  \/ x.pc = "dead"
  \/ x.pc = exec[e].pc /\ x.call = exec[e].call
  \/ /\ exec[e].pc \notin Awaiting \/ acked[e]
     /\ exec[e].pc # "dead" /\ x.pc # "request"
     /\ x.pc \in {"tool", "ask"} => x.call \in Requested

AddsQuietly(q, old) ==
  /\ q \in Seq(ToCommMsg)
  /\ \A i \in DOMAIN q : Waits(q[i]) => i \in DOMAIN old /\ q[i] = old[i]

(* One more message that nobody waits for is added quietly.                *)
LEMMA AppendAdds ==
  ASSUME NEW q \in Seq(ToCommMsg), NEW m \in ToCommMsg, ~Waits(m)
  PROVE  AddsQuietly(Append(q, m), q)
BY AppendFacts DEF AddsQuietly

(* So is a whole batch of such messages.                                  *)
LEMMA ConcatAdds ==
  ASSUME NEW q \in Seq(ToCommMsg), NEW r \in Seq(ToCommMsg),
         \A i \in DOMAIN r : ~Waits(r[i])
  PROVE  AddsQuietly(q \o r, q)
<1>1. /\ q \o r \in Seq(ToCommMsg) /\ Len(q \o r) = Len(q) + Len(r)
      /\ \A i \in 1 .. Len(q) + Len(r) :
           (q \o r)[i] = IF i <= Len(q) THEN q[i] ELSE r[i - Len(q)]
  BY ConcatProperties
<1>2. /\ Len(q) \in Nat /\ Len(r) \in Nat
      /\ DOMAIN q = 1 .. Len(q) /\ DOMAIN r = 1 .. Len(r)
      /\ DOMAIN (q \o r) = 1 .. Len(q) + Len(r)
  BY <1>1, LenProperties
<1>3. QED
  BY <1>1, <1>2 DEF AddsQuietly

(* A step that adds quietly to one pipe and leaves the store alone.        *)
LEMMA QuietStep ==
  ASSUME CommInv, NEW e \in Epoch, NEW x \in ExecType, MovesOn(e, x),
         exec' = [exec EXCEPT ![e] = x],
         NEW q, AddsQuietly(q, toComm[e]), toComm' = [toComm EXCEPT ![e] = q],
         UNCHANGED <<acked, store>>,
         env' \in EnvType, env'.ran \subseteq Requested
  PROVE  CommInv'
<1> USE DEF CommInv
<1>1. Requested' = Requested
  BY DEF Requested
<1>2. TypeOK'
  <2>1. exec' \in [Epoch -> ExecType] /\ acked' \in [Epoch -> BOOLEAN] /\ store' \in Seq(LineType)
    BY DEF TypeOK
  <2>2. toComm' \in [Epoch -> Seq(ToCommMsg)]
    BY DEF TypeOK, AddsQuietly
  <2>3. QED BY <1>1, <2>1, <2>2, MessagesStaySafe DEF TypeOK
<1>3. CallStored'
  BY <1>1 DEF CallStored, MovesOn, TypeOK
<1>4. OneWait'
  <2>1. ASSUME NEW f \in Epoch, f # e PROVE exec'[f] = exec[f] /\ toComm'[f] = toComm[f]
    BY <2>1 DEF TypeOK
  <2>2. exec'[e] = x /\ toComm'[e] = q
    BY DEF TypeOK
  <2>3. ASSUME x.pc # "dead", NEW i \in DOMAIN q, Waits(q[i])
        PROVE  /\ x.pc \in Awaiting /\ ~acked[e] /\ Owed(x, q[i].line)
               /\ \A j \in DOMAIN q : Waits(q[j]) => i = j
    <3>1. i \in DOMAIN toComm[e] /\ q[i] = toComm[e][i]
      BY <2>3 DEF AddsQuietly
    <3>2. exec[e].pc # "dead"
      BY <2>3 DEF MovesOn
    <3>3. exec[e].pc \in Awaiting /\ ~acked[e] /\ Owed(exec[e], q[i].line)
      BY <2>3, <3>1, <3>2 DEF OneWait
    <3>4. x.pc = exec[e].pc /\ x.call = exec[e].call
      BY <2>3, <3>3 DEF MovesOn
    <3>5. \A j \in DOMAIN q : Waits(q[j]) => i = j
      BY <2>3, <3>1, <3>2 DEF AddsQuietly, OneWait
    <3>6. QED BY <3>3, <3>4, <3>5 DEF Owed
  <2>4. QED BY <2>1, <2>2, <2>3 DEF OneWait
<1>5. RanWasRequested' /\ FinishAfterRequest'
  BY DEF RanWasRequested, FinishAfterRequest, Requested
<1>6. QED BY <1>2, <1>3, <1>4, <1>5

(* An Executor that waits for nothing writes a line ahead and waits for it.*)
LEMMA WriteAheadStep ==
  ASSUME CommInv, NEW e \in Epoch, NEW x \in ExecType, NEW m \in ToCommMsg,
         exec[e].pc \notin Awaiting \/ acked[e], exec[e].pc # "dead",
         x.pc \in Awaiting, Owed(x, m.line), x.pc = "request" => x.call \in Call,
         exec' = [exec EXCEPT ![e] = x], acked' = [acked EXCEPT ![e] = FALSE],
         toComm' = [toComm EXCEPT ![e] = Append(@, m)],
         UNCHANGED store, env' \in EnvType, env'.ran = env.ran
  PROVE  CommInv'
<1> USE DEF CommInv
<1>1. Requested' = Requested
  BY DEF Requested
<1>2. TypeOK'
  <2>1. exec' \in [Epoch -> ExecType] /\ acked' \in [Epoch -> BOOLEAN] /\ store' \in Seq(LineType)
    BY DEF TypeOK
  <2>3. toComm' \in [Epoch -> Seq(ToCommMsg)]
    <3>1. Append(toComm[e], m) \in Seq(ToCommMsg)
      BY AppendFacts DEF TypeOK
    <3>2. QED BY <3>1 DEF TypeOK
  <2>4. QED BY <1>1, <2>1, <2>3, MessagesStaySafe DEF TypeOK
<1>3. CallStored'
  BY <1>1 DEF CallStored, TypeOK, Awaiting
<1>4. OneWait'
  <2>1. ASSUME NEW f \in Epoch, f # e PROVE exec'[f] = exec[f] /\ toComm'[f] = toComm[f] /\ acked'[f] = acked[f]
    BY <2>1 DEF TypeOK
  <2>2. exec'[e] = x /\ ~acked'[e] /\ toComm'[e] = Append(toComm[e], m)
    BY DEF TypeOK
  <2>3. \A i \in DOMAIN toComm[e] : ~Waits(toComm[e][i])
    BY DEF OneWait
  <2>4. toComm[e] \in Seq(ToCommMsg)
    BY DEF TypeOK
  <2> DEFINE r == Append(toComm[e], m)
  <2>5. \A i \in DOMAIN r : Waits(r[i]) =>
          /\ r[i] = m
          /\ \A j \in DOMAIN r : Waits(r[j]) => i = j
    BY <2>3, <2>4, OnlyLastWaits
  <2> HIDE DEF r
  <2>6. \A i \in DOMAIN toComm'[e] : Waits(toComm'[e][i]) =>
          /\ toComm'[e][i] = m
          /\ \A j \in DOMAIN toComm'[e] : Waits(toComm'[e][j]) => i = j
    BY <2>2, <2>5, Zenon DEF r
  <2>7. QED BY <2>1, <2>2, <2>6 DEF OneWait
<1>5. RanWasRequested' /\ FinishAfterRequest'
  BY DEF RanWasRequested, FinishAfterRequest
<1>6. QED BY <1>2, <1>3, <1>4, <1>5

(* The store gets a line that is safe.                                     *)
LEMMA StoreKeepsOrder ==
  ASSUME CommInv, NEW l \in LineType, LineSafe(l), store' = Append(store, l)
  PROVE  /\ store' \in Seq(LineType)
         /\ Requested' = Requested \cup (IF l.kind = "tool_call_requested" THEN {l.call} ELSE {})
         /\ FinishAfterRequest'
<1>1. store \in Seq(LineType)
  BY DEF CommInv, TypeOK
<1>2. Requested' = Requested \cup (IF l.kind = "tool_call_requested" THEN {l.call} ELSE {})
  BY <1>1, CallsOfAppend DEF Requested
<1>3. ASSUME NEW i \in DOMAIN store', store'[i].kind = "tool_call_finished"
      PROVE  \E j \in 1 .. i - 1 : /\ store'[j].kind = "tool_call_requested"
                                   /\ store'[j].call = store'[i].call
  <2> DEFINE r == Append(store, l)
  <2>1. /\ DOMAIN store = 1 .. Len(store) /\ Len(store) \in Nat
        /\ DOMAIN r = 1 .. Len(store) + 1 /\ r[Len(store) + 1] = l
        /\ \A k \in 1 .. Len(store) : r[k] = store[k]
    BY <1>1, AppendFacts
  <2>2. CASE i \in DOMAIN store
    BY <1>3, <2>1, <2>2 DEF CommInv, FinishAfterRequest
  <2>3. CASE i = Len(store) + 1
    <3>1. PICK j \in DOMAIN store : store[j].kind = "tool_call_requested" /\ store[j].call = l.call
      BY <1>3, <2>1, <2>3 DEF LineSafe, Requested, CallsIn
    <3>2. QED BY <2>1, <2>3, <3>1
  <2>4. QED BY <1>3, <2>1, <2>2, <2>3
<1>4. QED BY <1>1, <1>2, <1>3, AppendFacts DEF FinishAfterRequest

(* What Tail does to a sequence, place by place.                           *)
LEMMA TailFacts ==
  ASSUME NEW S, NEW q \in Seq(S), q # <<>>
  PROVE  /\ Head(q) \in S /\ Tail(q) \in Seq(S) /\ 1 \in DOMAIN q /\ Head(q) = q[1]
         /\ \A i \in DOMAIN Tail(q) : /\ i \in Nat /\ i + 1 \in DOMAIN q /\ i + 1 # 1
                                      /\ Tail(q)[i] = q[i + 1]
OBVIOUS

(* The Communicator takes the first message of a pipe: it stores a line or *)
(* none, and acknowledges the message only when it is the line it stores.  *)
LEMMA ReceiveStep ==
  ASSUME CommInv, NEW e \in Epoch, toComm[e] # <<>>,
         toComm' = [toComm EXCEPT ![e] = Tail(@)], UNCHANGED exec,
         env' \in EnvType, env'.ran = env.ran,
         UNCHANGED store \/ \E l \in LineType : LineSafe(l) /\ store' = Append(store, l),
         \/ UNCHANGED acked
         \/ /\ Waits(Head(toComm[e])) /\ acked' = [acked EXCEPT ![e] = TRUE]
            /\ LineSafe(Head(toComm[e]).line) /\ Head(toComm[e]).line \in LineType
            /\ store' = Append(store, Head(toComm[e]).line)
  PROVE  CommInv'
<1> USE DEF CommInv
<1> DEFINE q == toComm[e]
<1>1. /\ q \in Seq(ToCommMsg) /\ q # <<>>
      /\ toComm'[e] = Tail(q)
      /\ \A f \in Epoch : f # e => toComm'[f] = toComm[f] /\ acked'[f] = acked[f]
  BY DEF TypeOK
<1>2. /\ store' \in Seq(LineType) /\ Requested \subseteq Requested' /\ FinishAfterRequest'
  <2>1. CASE UNCHANGED store
    BY <2>1 DEF TypeOK, Requested, FinishAfterRequest
  <2>2. CASE \E l \in LineType : LineSafe(l) /\ store' = Append(store, l)
    BY <2>2, StoreKeepsOrder
  <2>3. QED BY <2>1, <2>2
<1>3. TypeOK'
  <2>1. Tail(q) \in Seq(ToCommMsg)
    BY <1>1, TailFacts
  <2>2. toComm' \in [Epoch -> Seq(ToCommMsg)]
    BY <2>1 DEF TypeOK
  <2>3. exec' \in [Epoch -> ExecType] /\ acked' \in [Epoch -> BOOLEAN]
    BY DEF TypeOK
  <2>4. QED BY <1>2, <2>2, <2>3, MessagesStaySafe DEF TypeOK
<1>4. ASSUME acked'[e] # acked[e], exec[e].pc = "request"
      PROVE  exec[e].call \in Requested'
  <2>1. Waits(q[1]) /\ 1 \in DOMAIN q /\ q[1] = Head(q)
    BY <1>1, <1>4, TailFacts
  <2>2. q[1].line = Line("tool_call_requested", None, exec[e].call)
    BY <1>4, <2>1 DEF OneWait, Owed
  <2>3. /\ store' = Append(store, q[1].line) /\ q[1].line \in LineType /\ LineSafe(q[1].line)
    BY <1>4, <2>1
  <2>4. QED BY <2>2, <2>3, StoreKeepsOrder DEF Line
<1>5. CallStored'
  BY <1>1, <1>2, <1>4 DEF CallStored
<1>6. OneWait'
  <2>1. ASSUME exec[e].pc # "dead", NEW i \in DOMAIN Tail(q), Waits(Tail(q)[i])
        PROVE  /\ exec[e].pc \in Awaiting /\ ~acked'[e] /\ Owed(exec[e], Tail(q)[i].line)
               /\ \A j \in DOMAIN Tail(q) : Waits(Tail(q)[j]) => i = j
    <3>1. /\ 1 \in DOMAIN q /\ Head(q) = q[1]
          /\ \A k \in DOMAIN Tail(q) : /\ k \in Nat /\ k + 1 \in DOMAIN q /\ k + 1 # 1
                                       /\ Tail(q)[k] = q[k + 1]
      BY <1>1, TailFacts
    <3>2. Waits(q[i + 1]) /\ i + 1 \in DOMAIN q
      BY <2>1, <3>1
    <3>3. ~Waits(q[1])
      BY <2>1, <3>1, <3>2 DEF OneWait
    <3>4. acked'[e] = acked[e]
      BY <3>1, <3>3
    <3>5. exec[e].pc \in Awaiting /\ ~acked[e] /\ Owed(exec[e], q[i + 1].line)
      BY <2>1, <3>2 DEF OneWait
    <3>6. \A j \in DOMAIN q : Waits(q[j]) => i + 1 = j
      BY <2>1, <3>2 DEF OneWait
    <3>7. ASSUME NEW j \in DOMAIN Tail(q), Waits(Tail(q)[j]) PROVE i = j
      <4>1. i + 1 = j + 1
        BY <3>1, <3>6, <3>7
      <4>2. i \in Nat /\ j \in Nat
        BY <3>1
      <4>3. QED BY <4>1, <4>2
    <3>8. ~acked'[e]
      BY <3>4, <3>5
    <3>9. Owed(exec[e], Tail(q)[i].line)
      BY <3>1, <3>5
    <3>10. QED BY <3>5, <3>7, <3>8, <3>9
  <2> SUFFICES ASSUME NEW f \in Epoch, exec[f].pc # "dead",
                      NEW i \in DOMAIN toComm'[f], Waits(toComm'[f][i])
               PROVE  /\ exec[f].pc \in Awaiting /\ ~acked'[f]
                      /\ Owed(exec[f], toComm'[f][i].line)
                      /\ \A j \in DOMAIN toComm'[f] : Waits(toComm'[f][j]) => i = j
    BY DEF OneWait
  <2>2. CASE f = e
    BY <1>1, <2>1, <2>2
  <2>3. CASE f # e
    BY <1>1, <2>3 DEF OneWait
  <2>4. QED BY <2>2, <2>3
<1>7. RanWasRequested'
  BY <1>2 DEF RanWasRequested, Requested
<1>8. QED BY <1>2, <1>3, <1>5, <1>6, <1>7

-----------------------------------------------------------------------------
(* Forms of the quiet step that the actions of an Executor use.            *)

(* An Executor changes its state and sends nothing.                        *)
LEMMA SilentStep ==
  ASSUME CommInv, NEW e \in Epoch, NEW x \in ExecType, MovesOn(e, x),
         exec' = [exec EXCEPT ![e] = x], UNCHANGED <<toComm, acked, store>>,
         env' \in EnvType, env'.ran \subseteq Requested
  PROVE  CommInv'
<1>1. toComm \in [Epoch -> Seq(ToCommMsg)]
  BY DEF CommInv, TypeOK
<1>2. AddsQuietly(toComm[e], toComm[e]) /\ toComm' = [toComm EXCEPT ![e] = toComm[e]]
  BY <1>1 DEF AddsQuietly
<1>3. QED BY <1>2, QuietStep

(* An Executor changes its state and sends a line it does not wait for.    *)
LEMMA SayStep ==
  ASSUME CommInv, NEW e \in Epoch, NEW x \in ExecType, MovesOn(e, x),
         exec' = [exec EXCEPT ![e] = x],
         NEW m \in ToCommMsg, ~Waits(m), Say(e, m), UNCHANGED <<acked, store>>,
         env' \in EnvType, env'.ran \subseteq Requested
  PROVE  CommInv'
<1>1. toComm[e] \in Seq(ToCommMsg)
  BY DEF CommInv, TypeOK
<1>2. AddsQuietly(Append(toComm[e], m), toComm[e])
  BY <1>1, AppendAdds
<1>3. toComm' = [toComm EXCEPT ![e] = Append(toComm[e], m)]
  BY DEF Say
<1>4. QED BY <1>2, <1>3, QuietStep

(* The messages that the Executor builds are of the message type.          *)
LEMMA MessageTypes ==
  /\ \A t \in {"hello", "open_ack", "halted"} : Signal(t) \in ToCommMsg /\ ~Waits(Signal(t))
  /\ \A c \in Call : AskMsg(c) \in ToCommMsg /\ ~Waits(AskMsg(c))
  /\ \A c \in Call \cap Requested :
       LET m == EventMsg(Line("tool_call_finished", None, c), FALSE)
       IN m \in ToCommMsg /\ ~Waits(m)
  /\ \A p \in Prompt \cup {None} :
       LET m == EventMsg(Line("provider_error", p, None), FALSE)
       IN m \in ToCommMsg /\ ~Waits(m)
  /\ \A p \in Prompt \cup {None}, k \in {"user_message", "turn_finished"} :
       LET m == EventMsg(Line(k, p, None), TRUE)
       IN m \in ToCommMsg
  /\ \A c \in Call :
       LET m == EventMsg(Line("tool_call_requested", None, c), TRUE)
       IN m \in ToCommMsg /\ m.line = Line("tool_call_requested", None, c)
BY DEF Signal, AskMsg, EventMsg, Line, ToCommMsg, Waits, LineType, LineKind, LineSafe

-----------------------------------------------------------------------------
(* Every step keeps the invariant: one lemma for each process that acts.   *)

(* The steps of the user keep the invariant.                               *)
LEMMA UserStep ==
  ASSUME CommInv, User \/ IdleWindowPasses
  PROVE  CommInv'
<1>1. UNCHANGED <<exec, toComm, acked, store>>
  BY DEF User, TypePrompt, TypeAnswer, Cancel, Halt, Shutdown, IdleWindowPasses
<1>2. env \in EnvType
  BY DEF CommInv, TypeOK
<1>3. env' \in EnvType /\ env'.ran = env.ran
  <2>1. CASE User
    <3>1. ASSUME NEW p \in Prompt, TypePrompt(p) PROVE env' \in EnvType /\ env'.ran = env.ran
      BY <1>2, <3>1 DEF TypePrompt, EnvType
    <3>2. CASE TypeAnswer \/ Shutdown
      BY <1>2, <3>2 DEF TypeAnswer, Shutdown
    <3>3. CASE Cancel
      BY <1>2, <3>3 DEF Cancel, EnvType
    <3>4. CASE Halt
      BY <1>2, <3>4 DEF Halt, EnvType
    <3>5. QED BY <2>1, <3>1, <3>2, <3>3, <3>4 DEF User
  <2>2. CASE IdleWindowPasses
    BY <1>2, <2>2 DEF IdleWindowPasses
  <2>3. QED BY <2>1, <2>2
<1>4. QED BY <1>1, <1>3, OnlyCounters

(* The steps of the Communicator keep the invariant.                       *)
LEMMA CommunicatorStep ==
  ASSUME CommInv, NEW e \in Epoch, CommStep(e)
  PROVE  CommInv'
<1> DEFINE q == toComm[e]
<1>1. env \in EnvType /\ q \in Seq(ToCommMsg) /\ exec \in [Epoch -> ExecType]
  BY DEF CommInv, TypeOK
<1>2. q # <<>> => Head(q) \in ToCommMsg
  BY <1>1, TailFacts
<1>3. CASE RecvHello(e) \/ RecvOpenAck(e) \/ RecvAsk(e)
  <2>1. UNCHANGED <<exec, acked, store, env>> /\ q # <<>> /\ toComm' = [toComm EXCEPT ![e] = Tail(@)]
    BY <1>3 DEF RecvHello, RecvOpenAck, RecvAsk, CommReceives
  <2>2. QED BY <1>1, <2>1, ReceiveStep
<1>4. CASE RecvEvent(e)
  <2>1. /\ q # <<>> /\ Head(q).type = "event" /\ toComm' = [toComm EXCEPT ![e] = Tail(@)]
        /\ UNCHANGED <<exec, env>> /\ store' = Append(store, Head(q).line)
        /\ acked' = IF Head(q).wait THEN [acked EXCEPT ![e] = TRUE] ELSE acked
    BY <1>4 DEF RecvEvent, CommReceives
  <2>2. Head(q).line \in LineType /\ LineSafe(Head(q).line)
    BY <1>2, <2>1 DEF ToCommMsg
  <2>3. UNCHANGED acked \/ (Waits(Head(q)) /\ acked' = [acked EXCEPT ![e] = TRUE])
    BY <2>1 DEF Waits
  <2>4. QED BY <1>1, <2>1, <2>2, <2>3, ReceiveStep
<1>5. CASE AppendFails(e)
  <2>1. /\ UNCHANGED <<exec, acked, store>> /\ q # <<>> /\ toComm' = [toComm EXCEPT ![e] = Tail(@)]
        /\ env' = [env EXCEPT !.exits = @ + 1]
    BY <1>5 DEF AppendFails, CommReceives
  <2>2. env' \in EnvType /\ env'.ran = env.ran
    BY <1>1, <2>1 DEF EnvType
  <2>3. QED BY <2>1, <2>2, ReceiveStep
<1>6. CASE RecvHalted(e)
  <2>1. /\ UNCHANGED <<exec, acked, env>> /\ q # <<>> /\ toComm' = [toComm EXCEPT ![e] = Tail(@)]
        /\ store' = Append(store, Line("halted", None, None))
    BY <1>6 DEF RecvHalted, CommReceives
  <2>2. LET l == Line("halted", None, None) IN l \in LineType /\ LineSafe(l)
    BY DEF Line, LineType, LineKind, LineSafe
  <2>3. QED BY <1>1, <2>1, <2>2, ReceiveStep
<1>7. CASE OnChildExit(e)
  <2>1. UNCHANGED <<exec, acked, store, env>> /\ toComm' = [toComm EXCEPT ![e] = <<>>]
    BY <1>7 DEF OnChildExit
  <2>2. AddsQuietly(<<>>, q)
    BY EmptySeq DEF AddsQuietly
  <2>3. exec[e] \in ExecType /\ MovesOn(e, exec[e]) /\ exec' = [exec EXCEPT ![e] = exec[e]]
    BY <1>1, <2>1 DEF MovesOn
  <2>4. env' \in EnvType /\ env'.ran \subseteq Requested
    BY <1>1, <2>1 DEF CommInv, RanWasRequested, Requested
  <2>5. QED BY <2>1, <2>2, <2>3, <2>4, QuietStep
<1>8. QED BY <1>3, <1>4, <1>5, <1>6, <1>7 DEF CommStep

(* A process that ends keeps the invariant, whatever is left in its pipe.  *)
LEMMA ProcessEnds ==
  ASSUME CommInv, NEW e \in Epoch, exec' = [exec EXCEPT ![e] = DeadExec],
         UNCHANGED <<toComm, acked, store>>,
         UNCHANGED env \/ env' = [env EXCEPT !.exits = @ + 1]
  PROVE  CommInv'
<1>1. env \in EnvType /\ env.ran \subseteq Requested
  BY DEF CommInv, TypeOK, RanWasRequested, Requested
<1>2. env' \in EnvType /\ env'.ran = env.ran
  BY <1>1 DEF EnvType
<1>3. DeadExec \in ExecType /\ DeadExec.pc = "dead"
  BY DEF DeadExec, NewExec, ExecType, PC
<1>4. MovesOn(e, DeadExec)
  BY <1>3 DEF MovesOn
<1>5. QED BY <1>1, <1>2, <1>3, <1>4, SilentStep

(* The faults keep the invariant.                                          *)
LEMMA FaultStep ==
  ASSUME CommInv,
         \/ ShutdownDone
         \/ \E e \in Epoch : HelloTimeout(e) \/ OpenTimeout(e) \/ Exit(e)
  PROVE  CommInv'
<1>1. env \in EnvType /\ exec \in [Epoch -> ExecType]
  BY DEF CommInv, TypeOK
<1>2. CASE ShutdownDone
  <2>1. UNCHANGED <<toComm, acked, store, env>>
    BY <1>2 DEF ShutdownDone
  <2>2. CASE comm.live \in Epoch
    <3>1. exec' = [exec EXCEPT ![comm.live] = DeadExec]
      BY <1>1, <1>2 DEF ShutdownDone
    <3>2. QED BY <2>1, <2>2, <3>1, ProcessEnds
  <2>3. CASE comm.live \notin Epoch
    <3>1. exec' = exec
      BY <1>1, <1>2, <2>3 DEF ShutdownDone
    <3>2. QED BY <1>1, <2>1, <3>1, OnlyCounters
  <2>4. QED BY <2>2, <2>3
<1>3. ASSUME NEW e \in Epoch, HelloTimeout(e) \/ Exit(e) PROVE CommInv'
  BY <1>3, ProcessEnds DEF HelloTimeout, Exit
<1>4. ASSUME NEW e \in Epoch, OpenTimeout(e) PROVE CommInv'
  <2>1. UNCHANGED <<exec, toComm, acked, store>> /\ env' = [env EXCEPT !.exits = @ + 1]
    BY <1>4 DEF OpenTimeout
  <2>2. env' \in EnvType /\ env'.ran = env.ran
    BY <1>1, <2>1 DEF EnvType
  <2>3. QED BY <2>1, <2>2, OnlyCounters
<1>5. QED BY <1>2, <1>3, <1>4

(* What an Executor in one of the states of a turn may rely on.            *)
LEMMA ExecFacts ==
  ASSUME CommInv, NEW e \in Epoch
  PROVE  /\ exec[e] \in ExecType /\ exec \in [Epoch -> ExecType]
         /\ env \in EnvType /\ env.ran \subseteq Requested /\ Requested \subseteq Call \cup {None}
         /\ exec[e].pc = "request" /\ acked[e] => exec[e].call \in Call \cap Requested
         /\ exec[e].pc \in {"tool", "ask"} => exec[e].call \in Requested
<1>1. exec[e] \in ExecType /\ exec \in [Epoch -> ExecType] /\ env \in EnvType
  BY DEF CommInv, TypeOK
<1>2. env.ran \subseteq Requested
  BY DEF CommInv, RanWasRequested, Requested
<1>3. Requested \subseteq Call \cup {None}
  <2>1. \A i \in DOMAIN store : store[i] \in LineType
    BY DEF CommInv, TypeOK
  <2>2. QED BY <2>1 DEF Requested, CallsIn, LineType
<1>4. QED BY <1>1, <1>2, <1>3 DEF CommInv, CallStored

(* The session opens: the open calls are closed, all of them were          *)
(* requested in the store.                                                 *)
LEMMA SessionOpenedStep ==
  ASSUME CommInv, NEW e \in Epoch, SessionOpened(e)
  PROVE  CommInv'
<1> DEFINE open == OpenCalls(store)
           x == [exec[e] EXCEPT !.pc = "idle"]
<1>1. PICK order \in [1 .. Cardinality(open) -> open] :
        toComm' = [toComm EXCEPT ![e] = @
          \o [i \in DOMAIN order |-> EventMsg(Line("tool_call_finished", None, order[i]), FALSE)]
          \o <<Signal("open_ack")>>]
  BY DEF SessionOpened
<1> DEFINE finishes == [i \in DOMAIN order |->
                          EventMsg(Line("tool_call_finished", None, order[i]), FALSE)]
           tail == <<Signal("open_ack")>>
<1>2. open \subseteq Requested
  BY DEF OpenCalls, Requested
<1>3. Requested \subseteq Call \cup {None}
  BY ExecFacts
<1>4. Cardinality(open) \in Nat
  <2>1. IsFiniteSet(Call \cup {None})
    <3>1. IsFiniteSet(1 .. MaxCalls)
      BY FS_Interval, BoundAssumption
    <3>2. QED BY <3>1, FS_AddElement DEF Call
  <2>2. IsFiniteSet(open)
    BY <1>2, <1>3, <2>1, FS_Subset
  <2>3. QED BY <2>2, FS_CardinalityType
<1>5. finishes \in Seq(ToCommMsg) /\ \A i \in DOMAIN finishes : ~Waits(finishes[i])
  <2>1. \A c \in open : LET m == EventMsg(Line("tool_call_finished", None, c), FALSE)
                        IN m \in ToCommMsg /\ ~Waits(m)
    BY <1>2, <1>3 DEF EventMsg, Line, ToCommMsg, Waits, LineType, LineKind, LineSafe
  <2>2. \A i \in 1 .. Cardinality(open) : finishes[i] \in ToCommMsg /\ ~Waits(finishes[i])
    BY <2>1
  <2>3. finishes \in [1 .. Cardinality(open) -> ToCommMsg]
    BY <2>2
  <2>4. finishes \in Seq(ToCommMsg) /\ DOMAIN finishes = 1 .. Cardinality(open)
    BY <1>4, <2>3, FunctionIsSeq
  <2>5. QED BY <2>2, <2>4
<1>6. tail \in Seq(ToCommMsg) /\ \A i \in DOMAIN tail : ~Waits(tail[i])
  <2>1. Signal("open_ack") \in ToCommMsg /\ ~Waits(Signal("open_ack"))
    BY MessageTypes
  <2>2. QED BY <2>1
<1> HIDE DEF finishes, tail
<1>7. toComm[e] \in Seq(ToCommMsg)
  BY DEF CommInv, TypeOK
<1>8. AddsQuietly((toComm[e] \o finishes) \o tail, toComm[e])
  <2>1. AddsQuietly(toComm[e] \o finishes, toComm[e])
    BY <1>5, <1>7, ConcatAdds
  <2>2. toComm[e] \o finishes \in Seq(ToCommMsg)
    BY <1>5, <1>7, ConcatProperties
  <2>3. AddsQuietly((toComm[e] \o finishes) \o tail, toComm[e] \o finishes)
    BY <1>6, <2>2, ConcatAdds
  <2>4. QED BY <2>1, <2>3 DEF AddsQuietly
<1>9. toComm' = [toComm EXCEPT ![e] = (toComm[e] \o finishes) \o tail]
  BY <1>1 DEF finishes, tail
<1>10. exec' = [exec EXCEPT ![e] = x] /\ UNCHANGED <<acked, store, env>> /\ exec[e].pc = "opening"
  BY DEF SessionOpened
<1>11. x \in ExecType /\ MovesOn(e, x)
  BY <1>10, ExecFacts DEF MovesOn, ExecType, PC, HasAgent, Awaiting
<1>12. env' \in EnvType /\ env'.ran \subseteq Requested
  BY <1>10, ExecFacts
<1>13. QED BY <1>8, <1>9, <1>10, <1>11, <1>12, QuietStep

(* A turn begins with its user_message line, written ahead.                *)
LEMMA BeginTurnStep ==
  ASSUME CommInv, NEW e \in Epoch, NEW p \in Prompt, NEW y \in ExecType,
         BeginTurn(e, p, y), exec[e].pc \notin Awaiting \/ acked[e], exec[e].pc # "dead",
         UNCHANGED <<store, env>>
  PROVE  CommInv'
<1> DEFINE x == [y EXCEPT !.pc = "user", !.prompt = p, !.queued = None, !.abort = FALSE]
           m == EventMsg(Line("user_message", p, None), TRUE)
<1>1. x \in ExecType /\ x.pc = "user"
  BY DEF ExecType, PC, HasAgent
<1>2. m \in ToCommMsg
  BY MessageTypes
<1>3. /\ exec' = [exec EXCEPT ![e] = x] /\ acked' = [acked EXCEPT ![e] = FALSE]
      /\ toComm' = [toComm EXCEPT ![e] = Append(@, m)]
  BY DEF BeginTurn, Say
<1> HIDE DEF x, m
<1>4. env' \in EnvType /\ env'.ran = env.ran
  BY ExecFacts
<1>5. x.pc \in Awaiting /\ Owed(x, m.line) /\ (x.pc = "request" => x.call \in Call)
  BY <1>1 DEF Awaiting, Owed
<1>6. QED BY <1>1, <1>2, <1>3, <1>4, <1>5, WriteAheadStep

(* The Executor takes a message.                                           *)
LEMMA ExecutorReceives ==
  ASSUME CommInv, NEW e \in Epoch,
         \/ RecvSessionOpen(e) \/ RecvPrompt(e) \/ RecvCancel(e)
         \/ RecvHalt(e) \/ RecvShutdown(e) \/ RecvAnswer(e)
  PROVE  CommInv'
<1>0. /\ exec[e] \in ExecType /\ exec \in [Epoch -> ExecType] /\ exec[e].pc # "dead"
      /\ env \in EnvType /\ env.ran \subseteq Requested
  BY ExecFacts DEF RecvSessionOpen, RecvPrompt, RecvCancel, RecvHalt, RecvShutdown,
                   RecvAnswer, TakeSignal, Alive
<1>1. CASE RecvSessionOpen(e)
  <2> DEFINE x == IF exec[e].pc = "fresh" THEN [exec[e] EXCEPT !.pc = "opening"] ELSE exec[e]
  <2>1. exec' = [exec EXCEPT ![e] = x] /\ UNCHANGED <<toComm, acked, store, env>>
    BY <1>0, <1>1 DEF RecvSessionOpen
  <2>2. x \in ExecType /\ MovesOn(e, x)
    BY <1>0 DEF MovesOn, ExecType, PC, Awaiting
  <2>3. QED BY <1>0, <2>1, <2>2, SilentStep
<1>2. CASE RecvPrompt(e)
  <2>1. UNCHANGED store
    BY <1>2 DEF RecvPrompt
  <2>2. PICK p \in Prompt :
          \/ exec[e].pc = "idle" /\ BeginTurn(e, p, exec[e]) /\ UNCHANGED env
          \/ exec' = [exec EXCEPT ![e].queued = p] /\ UNCHANGED <<toComm, acked, env>>
          \/ Lose(p) /\ UNCHANGED <<exec, toComm, acked>>
    BY <1>2 DEF RecvPrompt
  <2>3. CASE exec[e].pc = "idle" /\ BeginTurn(e, p, exec[e]) /\ UNCHANGED env
    BY <1>0, <2>1, <2>3, BeginTurnStep DEF Awaiting
  <2>4. CASE exec' = [exec EXCEPT ![e].queued = p] /\ UNCHANGED <<toComm, acked, env>>
    <3> DEFINE x == [exec[e] EXCEPT !.queued = p]
    <3>1. x \in ExecType /\ MovesOn(e, x) /\ exec' = [exec EXCEPT ![e] = x]
      BY <1>0, <2>4 DEF MovesOn, ExecType
    <3>2. QED BY <1>0, <2>1, <2>4, <3>1, SilentStep
  <2>5. CASE Lose(p) /\ UNCHANGED <<exec, toComm, acked>>
    <3>1. env' \in EnvType /\ env'.ran = env.ran
      BY <1>0, <2>5 DEF Lose, EnvType
    <3>2. QED BY <2>1, <2>5, <3>1, OnlyCounters
  <2>6. QED BY <2>2, <2>3, <2>4, <2>5
<1>3. CASE RecvCancel(e)
  <2>1. exec' = [exec EXCEPT ![e] = Aborted(exec[e])] /\ UNCHANGED <<toComm, acked, store, env>>
    BY <1>3 DEF RecvCancel
  <2>2. Aborted(exec[e]) \in ExecType /\ MovesOn(e, Aborted(exec[e]))
    BY <1>0 DEF Aborted, MovesOn, ExecType
  <2>3. QED BY <1>0, <2>1, <2>2, SilentStep
<1>4. CASE RecvHalt(e)
  <2> DEFINE x == [Aborted(exec[e]) EXCEPT !.halted = TRUE]
  <2>1. CASE exec[e].pc \in HasAgent
    <3>1. /\ exec' = [exec EXCEPT ![e] = x] /\ Say(e, Signal("halted"))
          /\ UNCHANGED <<acked, store, env>>
      BY <1>4, <2>1 DEF RecvHalt
    <3>2. x \in ExecType /\ MovesOn(e, x)
      BY <1>0 DEF Aborted, MovesOn, ExecType
    <3>3. Signal("halted") \in ToCommMsg /\ ~Waits(Signal("halted"))
      BY MessageTypes
    <3>4. QED BY <1>0, <3>1, <3>2, <3>3, SayStep
  <2>2. CASE exec[e].pc \notin HasAgent
    <3>1. UNCHANGED <<exec, toComm, acked, store, env>>
      BY <1>4, <2>2 DEF RecvHalt
    <3>2. QED BY <1>0, <3>1, OnlyCounters
  <2>3. QED BY <2>1, <2>2
<1>5. CASE RecvShutdown(e)
  BY <1>5, ProcessEnds DEF RecvShutdown
<1>6. CASE RecvAnswer(e)
  <2>1. PICK c \in Call :
          IF exec[e].pc = "ask" /\ exec[e].call = c
            THEN /\ exec' = [exec EXCEPT ![e].pc = "model", ![e].call = None]
                 /\ Say(e, EventMsg(Line("tool_call_finished", None, c), FALSE))
            ELSE UNCHANGED <<exec, toComm>>
    BY <1>6 DEF RecvAnswer
  <2>2. UNCHANGED <<acked, store, env>>
    BY <1>6 DEF RecvAnswer
  <2>3. CASE exec[e].pc = "ask" /\ exec[e].call = c
    <3> DEFINE x == [exec[e] EXCEPT !.pc = "model", !.call = None]
               m == EventMsg(Line("tool_call_finished", None, c), FALSE)
    <3>1. exec' = [exec EXCEPT ![e] = x] /\ Say(e, m)
      BY <1>0, <2>1, <2>3
    <3>2. x \in ExecType /\ MovesOn(e, x)
      BY <1>0, <2>3 DEF MovesOn, ExecType, PC, HasAgent, Awaiting
    <3>3. m \in ToCommMsg /\ ~Waits(m)
      BY <2>3, ExecFacts, MessageTypes
    <3> HIDE DEF x, m
    <3>4. QED BY <1>0, <2>2, <3>1, <3>2, <3>3, SayStep
  <2>4. CASE ~(exec[e].pc = "ask" /\ exec[e].call = c)
    BY <1>0, <2>1, <2>2, <2>4, OnlyCounters
  <2>5. QED BY <2>3, <2>4
<1>7. QED BY <1>1, <1>2, <1>3, <1>4, <1>5, <1>6

(* The Executor goes on with its turn.                                     *)
LEMMA ExecutorActs ==
  ASSUME CommInv, NEW e \in Epoch,
         \/ Hello(e) \/ SessionOpened(e) \/ UserAcked(e) \/ ModelTool(e)
         \/ GateRefuses(e) \/ Dispatch(e) \/ ToolDone(e) \/ Finish(e)
         \/ ProviderError(e) \/ FinishAcked(e) \/ AckTimeout(e) \/ Disconnect(e)
  PROVE  CommInv'
<1>0. /\ exec[e] \in ExecType /\ exec \in [Epoch -> ExecType]
      /\ env \in EnvType /\ env.ran \subseteq Requested
  BY ExecFacts
<1> DEFINE done == EventMsg(Line("tool_call_finished", None, exec[e].call), FALSE)
           back == [exec[e] EXCEPT !.pc = "model", !.call = None]
<1>1. back \in ExecType
  BY <1>0 DEF ExecType, PC, HasAgent
<1>2. CASE Hello(e)
  <2> DEFINE x == [exec[e] EXCEPT !.pc = "fresh"]
  <2>1. /\ exec' = [exec EXCEPT ![e] = x] /\ Say(e, Signal("hello"))
        /\ UNCHANGED <<acked, store, env>> /\ exec[e].pc = "boot"
    BY <1>2 DEF Hello
  <2>2. x \in ExecType /\ MovesOn(e, x)
    BY <1>0, <2>1 DEF MovesOn, ExecType, PC, Awaiting
  <2>3. Signal("hello") \in ToCommMsg /\ ~Waits(Signal("hello"))
    BY MessageTypes
  <2>4. QED BY <1>0, <2>1, <2>2, <2>3, SayStep
<1>3. CASE SessionOpened(e)
  BY <1>3, SessionOpenedStep
<1>4. CASE UserAcked(e)
  <2> DEFINE x == [exec[e] EXCEPT !.pc = "model"]
  <2>1. /\ exec' = [exec EXCEPT ![e] = x] /\ UNCHANGED <<toComm, acked, store, env>>
        /\ exec[e].pc = "user" /\ acked[e]
    BY <1>4 DEF UserAcked, AckedIn
  <2>2. x \in ExecType /\ MovesOn(e, x)
    BY <1>0, <2>1 DEF MovesOn, ExecType, PC, HasAgent
  <2>3. QED BY <1>0, <2>1, <2>2, SilentStep
<1>5. CASE ModelTool(e)
  <2> DEFINE c == env.calls + 1
             x == [exec[e] EXCEPT !.pc = "request", !.call = c]
             m == EventMsg(Line("tool_call_requested", None, c), TRUE)
  <2>1. /\ exec' = [exec EXCEPT ![e] = x] /\ acked' = [acked EXCEPT ![e] = FALSE]
        /\ toComm' = [toComm EXCEPT ![e] = Append(@, m)] /\ UNCHANGED store
        /\ env' = [env EXCEPT !.calls = @ + 1] /\ env.calls < MaxCalls
        /\ exec[e].pc = "model"
    BY <1>5 DEF ModelTool, Say
  <2>2. env' \in EnvType /\ env'.ran = env.ran /\ c \in Call
    BY <1>0, <2>1, BoundAssumption DEF EnvType, Call
  <2>3. x \in ExecType /\ x.pc = "request" /\ x.call = c
    BY <1>0, <2>2 DEF ExecType, PC, HasAgent
  <2>4. m \in ToCommMsg /\ m.line = Line("tool_call_requested", None, c)
    BY <2>2, MessageTypes
  <2>5. x.pc \in Awaiting /\ Owed(x, m.line) /\ (x.pc = "request" => x.call \in Call)
    BY <2>2, <2>3, <2>4 DEF Awaiting, Owed
  <2>6. exec[e].pc \notin Awaiting /\ exec[e].pc # "dead"
    BY <2>1 DEF Awaiting
  <2> HIDE DEF x, m, c
  <2>7. QED BY <2>1, <2>2, <2>3, <2>4, <2>5, <2>6, WriteAheadStep
<1>6. CASE GateRefuses(e)
  <2>1. /\ exec' = [exec EXCEPT ![e] = back] /\ Say(e, done) /\ UNCHANGED <<acked, store, env>>
        /\ exec[e].pc = "request" /\ acked[e]
    BY <1>0, <1>6 DEF GateRefuses, AckedIn
  <2>2. MovesOn(e, back)
    BY <1>0, <2>1 DEF MovesOn, ExecType
  <2>3. done \in ToCommMsg /\ ~Waits(done)
    BY <2>1, ExecFacts, MessageTypes
  <2> HIDE DEF back, done
  <2>4. QED BY <1>0, <1>1, <2>1, <2>2, <2>3, SayStep
<1>7. CASE Dispatch(e)
  <2>1. /\ exec[e].pc = "request" /\ acked[e] /\ UNCHANGED <<acked, store>>
        /\ env' = [env EXCEPT !.ran = @ \cup {exec[e].call}]
    BY <1>7 DEF Dispatch, AckedIn
  <2>2. exec[e].call \in Call \cap Requested
    BY <2>1, ExecFacts
  <2>3. env' \in EnvType /\ env'.ran \subseteq Requested
    BY <1>0, <2>1, <2>2 DEF EnvType
  <2>4. CASE exec' = [exec EXCEPT ![e].pc = "tool"] /\ UNCHANGED toComm
    <3> DEFINE x == [exec[e] EXCEPT !.pc = "tool"]
    <3>1. x \in ExecType /\ MovesOn(e, x) /\ exec' = [exec EXCEPT ![e] = x]
      BY <1>0, <2>1, <2>2, <2>4 DEF MovesOn, ExecType, PC, HasAgent
    <3>2. QED BY <2>1, <2>3, <2>4, <3>1, SilentStep
  <2>5. CASE exec' = [exec EXCEPT ![e].pc = "ask"] /\ Say(e, AskMsg(exec[e].call))
    <3> DEFINE x == [exec[e] EXCEPT !.pc = "ask"]
    <3>1. x \in ExecType /\ MovesOn(e, x) /\ exec' = [exec EXCEPT ![e] = x]
      BY <1>0, <2>1, <2>2, <2>5 DEF MovesOn, ExecType, PC, HasAgent
    <3>2. AskMsg(exec[e].call) \in ToCommMsg /\ ~Waits(AskMsg(exec[e].call))
      BY <2>2, MessageTypes
    <3>3. QED BY <2>1, <2>3, <2>5, <3>1, <3>2, SayStep
  <2>6. QED BY <1>7, <2>4, <2>5 DEF Dispatch
<1>8. CASE ToolDone(e)
  <2>1. /\ exec' = [exec EXCEPT ![e] = back] /\ Say(e, done) /\ UNCHANGED <<acked, store, env>>
        /\ exec[e].pc \in {"tool", "ask"}
    BY <1>0, <1>8 DEF ToolDone
  <2>2. MovesOn(e, back)
    BY <1>0, <2>1 DEF MovesOn, ExecType, Awaiting
  <2>3. done \in ToCommMsg /\ ~Waits(done)
    <3>1. exec[e].call \in Requested /\ exec[e].call \in Call \cup {None}
      BY <1>0, <2>1, ExecFacts
    <3>2. QED
      BY <3>1 DEF EventMsg, Line, ToCommMsg, Waits, LineType, LineKind, LineSafe
  <2> HIDE DEF back, done
  <2>4. QED BY <1>0, <1>1, <2>1, <2>2, <2>3, SayStep
<1>9. CASE Finish(e)
  <2> DEFINE x == [exec[e] EXCEPT !.pc = "finish"]
             m == EventMsg(Line("turn_finished", exec[e].prompt, None), TRUE)
  <2>1. /\ exec' = [exec EXCEPT ![e] = x] /\ acked' = [acked EXCEPT ![e] = FALSE]
        /\ toComm' = [toComm EXCEPT ![e] = Append(@, m)] /\ UNCHANGED <<store, env>>
        /\ exec[e].pc \notin Awaiting /\ exec[e].pc # "dead"
    BY <1>9 DEF Finish, Say, Awaiting
  <2>2. x \in ExecType /\ x.pc = "finish" /\ exec[e].prompt \in Prompt \cup {None}
    BY <1>0 DEF ExecType, PC, HasAgent
  <2>3. m \in ToCommMsg
    BY <2>2, MessageTypes
  <2>4. x.pc \in Awaiting /\ Owed(x, m.line) /\ (x.pc = "request" => x.call \in Call)
    BY <2>2 DEF Awaiting, Owed
  <2>5. env' \in EnvType /\ env'.ran = env.ran
    BY <1>0, <2>1
  <2> HIDE DEF x, m
  <2>6. QED BY <2>1, <2>2, <2>3, <2>4, <2>5, WriteAheadStep
<1>10. CASE ProviderError(e)
  <2> DEFINE x == [exec[e] EXCEPT !.pc = "idle", !.prompt = None]
             m == EventMsg(Line("provider_error", exec[e].prompt, None), FALSE)
  <2>1. /\ exec' = [exec EXCEPT ![e] = x] /\ Say(e, m) /\ UNCHANGED <<acked, store, env>>
        /\ exec[e].pc = "model"
    BY <1>0, <1>10 DEF ProviderError
  <2>2. x \in ExecType /\ MovesOn(e, x) /\ exec[e].prompt \in Prompt \cup {None}
    BY <1>0, <2>1 DEF MovesOn, ExecType, PC, HasAgent, Awaiting
  <2>3. m \in ToCommMsg /\ ~Waits(m)
    BY <2>2, MessageTypes
  <2> HIDE DEF x, m
  <2>4. QED BY <1>0, <2>1, <2>2, <2>3, SayStep
<1>11. CASE FinishAcked(e)
  <2> DEFINE x == [exec[e] EXCEPT !.pc = "idle", !.prompt = None, !.abort = FALSE]
  <2>1. UNCHANGED <<store, env>> /\ exec[e].pc = "finish" /\ acked[e]
    BY <1>11 DEF FinishAcked, AckedIn
  <2>2. x \in ExecType /\ MovesOn(e, x) /\ x.queued \in Prompt \cup {None}
    BY <1>0, <2>1 DEF MovesOn, ExecType, PC, HasAgent
  <2>3. CASE x.queued # None
    <3>1. BeginTurn(e, x.queued, x)
      BY <1>11, <2>3 DEF FinishAcked
    <3>2. x.queued \in Prompt
      BY <2>2, <2>3
    <3> HIDE DEF x
    <3>3. QED BY <2>1, <2>2, <3>1, <3>2, BeginTurnStep
  <2>4. CASE x.queued = None
    <3>1. exec' = [exec EXCEPT ![e] = x] /\ UNCHANGED <<toComm, acked>>
      BY <1>11, <2>4 DEF FinishAcked
    <3> HIDE DEF x
    <3>2. QED BY <1>0, <2>1, <2>2, <3>1, SilentStep
  <2>5. QED BY <2>3, <2>4
<1>12. CASE AckTimeout(e) \/ Disconnect(e)
  BY <1>12, ProcessEnds DEF AckTimeout, Disconnect
<1>13. QED
  BY <1>2, <1>3, <1>4, <1>5, <1>6, <1>7, <1>8, <1>9, <1>10, <1>11, <1>12

-----------------------------------------------------------------------------
(* The invariant is inductive.                                             *)

(* Every step keeps the invariant.                                         *)
LEMMA StepInv == CommInv /\ [Next]_vars => CommInv'
<1> SUFFICES ASSUME CommInv, [Next]_vars PROVE CommInv'
  OBVIOUS
<1>1. CASE UNCHANGED vars
  <2>1. env' \in EnvType
    BY <1>1 DEF vars, CommInv, TypeOK
  <2>2. QED BY <1>1, <2>1, OnlyCounters DEF vars
<1>2. CASE User \/ IdleWindowPasses
  BY <1>2, UserStep
<1>3. CASE ShutdownDone \/ \E e \in Epoch : HelloTimeout(e) \/ OpenTimeout(e) \/ Exit(e)
  BY <1>3, FaultStep
<1>4. ASSUME NEW e \in Epoch, CommStep(e) PROVE CommInv'
  BY <1>4, CommunicatorStep
<1>5. ASSUME NEW e \in Epoch, ExecStep(e) PROVE CommInv'
  BY <1>5, ExecutorReceives, ExecutorActs DEF ExecStep
<1>6. QED BY <1>1, <1>2, <1>3, <1>4, <1>5 DEF Next

(* The Executors, the pipes, the store and the counters stay in their      *)
(* types, which say that a finish line in a pipe closes a stored request.  *)
THEOREM TypeCorrect == Spec => []TypeOK
<1>1. CommInv => TypeOK
  BY DEF CommInv
<1>2. QED BY <1>1, InitInv, StepInv, PTL DEF Spec

(* A tool runs only when its request line is in the store, and a call is   *)
(* closed in the store only after it was requested there (README, agent.ts *)
(* gate 1), whatever crashes, fails or comes too late.                     *)
THEOREM StoreIsWriteAhead == Spec => []WriteAhead
<1>1. CommInv => WriteAhead
  BY DEF CommInv, WriteAhead
<1>2. QED BY <1>1, InitInv, StepInv, PTL DEF Spec

(* An acknowledgement that an Executor gets is for the line it waits for.  *)
THEOREM AckIsForItsLine == Spec => []OneWait
<1>1. CommInv => OneWait
  BY DEF CommInv
<1>2. QED BY <1>1, InitInv, StepInv, PTL DEF Spec
=============================================================================
