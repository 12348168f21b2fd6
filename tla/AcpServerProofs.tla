--------------------------- MODULE AcpServerProofs ---------------------------
(***************************************************************************)
(* What an ACP client may rely on, for any number of prompts, cancels,     *)
(* calls, questions, exits and session switches: each prompt is answered   *)
(* once, by the end of its own turn unless an earlier turn was given up, a *)
(* permission names the call it is about, and the Communicator's turn ends *)
(* when the Executor's does.                                               *)
(***************************************************************************)
EXTENDS AcpServer, SequenceTheorems, FiniteSetTheorems, TLAPS

StopWord == {"none", "end", "cancelled", "error", "provider", "process", "turn ended"} \cup Kinds
EventMsg == {e \in [type : {"turn_finished", "error", "tool_call_requested", "ask_user"},
                    turn : Nat, stop : StopWord, rid : Nat] : e.type = "ask_user" => e.stop \in Kinds}
OrderMsg == [type : {"prompt", "cancel", "continue", "resolve", "answer"}, rid : Nat, yes : BOOLEAN]
PendType == [id : 0 .. MaxPrompts, withError : BOOLEAN, timer : BOOLEAN]
AnswerType == [stop : StopWord, turn : Nat]
TripType == [rid : Nat, kind : Kinds, shown : Nat]

AcpType == [state : {"uninitialized", "initialized", "shutdown"}, form : BOOLEAN,
            opening : {"no", "open", "switch", "acks"}, lastCall : Nat, pend : PendType,
            trips : SUBSET TripType, answers : [Prompts -> Seq(AnswerType)]]
CommType == [turn : {"idle", "running", "waiting"}, prompt : Nat, session : BOOLEAN,
             restarted : BOOLEAN, stalled : SUBSET Nat, noFinish : BOOLEAN]
ExecType == [up : BOOLEAN, turn : Nat, aborted : BOOLEAN, ask : [kind : Kinds \cup {"none"}, rid : Nat],
             call : Nat, open : Nat, writing : BOOLEAN]
UsedType == [prompts : 0 .. MaxPrompts, cancels : Nat, calls : Nat, asks : Nat, exits : Nat, opens : Nat]

TypeOK ==
  /\ acp \in AcpType /\ IsFiniteSet(acp.trips)
  /\ comm \in CommType /\ exec \in ExecType
  /\ toExec \in Seq(OrderMsg) /\ toComm \in Seq(EventMsg)
  /\ used \in UsedType

(* A prompt that is pending is the one the Communicator's turn is about, it *)
(* has no answer yet, and no later one has.                                *)
PendingIsCurrent ==
  /\ acp.pend.id = 0 => acp.pend = NoPrompt
  /\ acp.pend # NoPrompt => comm.turn # "idle" /\ comm.prompt = acp.pend.id
  /\ comm.turn # "idle" => comm.prompt > 0
  /\ comm.prompt <= used.prompts
  /\ \A r \in Prompts : r > used.prompts => acp.answers[r] = <<>>
(* A turn has a session, and an Executor that is down has nothing.         *)
SessionAndChannels ==
  /\ comm.turn # "idle" => comm.session
  /\ acp.opening \in {"open", "switch"} => ~comm.session
  /\ ~exec.up => exec.turn = 0 /\ toExec = <<>> /\ toComm = <<>>

(* The events that end a turn for the server.                              *)
Ends(e) == e.type = "turn_finished" \/ (e.type = "error" /\ e.stop \in {"provider", "turn ended"})
IsPrompt(m) == m.type = "prompt"

(* The turns that have ended, the one that runs and those that will, in    *)
(* the order of their prompts, up to the last one.                         *)
Ordered(q, e, p, last) ==
  /\ q \in Seq(EventMsg) /\ e \in Nat /\ p \in Seq(OrderMsg) /\ last \in Nat /\ e <= last
  /\ \A i \in 1 .. Len(q) : Ends(q[i]) => 0 < q[i].turn /\ q[i].turn <= last
  /\ \A j \in 1 .. Len(p) : IsPrompt(p[j]) => 0 < p[j].rid /\ p[j].rid <= last
  /\ \A i, k \in 1 .. Len(q) : i < k /\ Ends(q[i]) /\ Ends(q[k]) => q[i].turn < q[k].turn
  /\ \A i \in 1 .. Len(q) : e # 0 /\ Ends(q[i]) => q[i].turn < e
  /\ \A i \in 1 .. Len(q), j \in 1 .. Len(p) : Ends(q[i]) /\ IsPrompt(p[j]) => q[i].turn < p[j].rid
  /\ \A j \in 1 .. Len(p) : e # 0 /\ IsPrompt(p[j]) => e < p[j].rid
  /\ \A j, k \in 1 .. Len(p) : j < k /\ IsPrompt(p[j]) /\ IsPrompt(p[k]) => p[j].rid < p[k].rid
(* One of these turns.                                                     *)
LiveIn(q, e, p, t) ==
  \/ \E i \in 1 .. Len(q) : Ends(q[i]) /\ q[i].turn = t
  \/ e # 0 /\ e = t
  \/ \E j \in 1 .. Len(p) : IsPrompt(p[j]) /\ p[j].rid = t
Live(t) == LiveIn(toComm, exec.turn, toExec, t)
TurnsInOrder == Ordered(toComm, exec.turn, toExec, comm.prompt)

(* Each of them is the Communicator's turn, or one that does not answer    *)
(* its prompt any more; when the turn has its answer already and goes on,  *)
(* it is the only one.                                                     *)
LiveIsCurrent ==
  \A t \in Nat : Live(t) => (comm.turn # "idle" /\ t = comm.prompt) \/ (t \in Prompts /\ Unanswering(t))
AnsweredGoesOn ==
  comm.turn # "idle" /\ acp.pend = NoPrompt =>
    \/ comm.prompt \in Prompts /\ Unanswering(comm.prompt)
    \/ \A t \in Nat : Live(t) => t = comm.prompt

(* A turn that still runs for the Communicator will be finished for it.    *)
TurnWillEnd ==
  comm.turn # "idle" /\ exec.up /\ ~comm.noFinish =>
    \/ exec.turn # 0
    \/ \E i \in 1 .. Len(toComm) : toComm[i].type = "turn_finished"
    \/ \E j \in 1 .. Len(toExec) : IsPrompt(toExec[j])

(* Tool calls are numbered, and the Executor asks about the one the server *)
(* has heard of last.                                                      *)
CallsInOrder(q, call) ==
  /\ \A i \in 1 .. Len(q) : q[i].type = "tool_call_requested" => q[i].rid <= call
  /\ \A i, k \in 1 .. Len(q) :
       i < k /\ q[i].type = "tool_call_requested" /\ q[k].type = "tool_call_requested" => q[i].rid < q[k].rid
NoCall(q) == \A i \in 1 .. Len(q) : q[i].type # "tool_call_requested"
AsksAfterCalls(q, lastCall) ==
  \A i \in 1 .. Len(q) : q[i].type = "ask_user" /\ q[i].stop = "pending" =>
    /\ q[i].rid = lastCall
    /\ \A k \in 1 .. i : q[k].type # "tool_call_requested"
CallsAreKnown ==
  /\ CallsInOrder(toComm, exec.call)
  /\ AsksAfterCalls(toComm, acp.lastCall)
  /\ exec.open > 0 /\ ~exec.writing => acp.lastCall = exec.open /\ NoCall(toComm)

ServerInv ==
  /\ TypeOK /\ PendingIsCurrent /\ SessionAndChannels /\ AnsweredOnce
  /\ TurnsInOrder /\ LiveIsCurrent /\ AnsweredGoesOn /\ OwnAnswer
  /\ TurnWillEnd /\ CallsAreKnown /\ PermissionNamesItsCall
-----------------------------------------------------------------------------
(* Sequences of messages.                                                  *)

(* What Append does to a sequence, place by place.                         *)
LEMMA AppendFacts ==
  ASSUME NEW S, NEW q \in Seq(S), NEW m \in S
  PROVE  /\ Append(q, m) \in Seq(S) /\ Len(q) \in Nat /\ Len(Append(q, m)) = Len(q) + 1
         /\ Append(q, m)[Len(q) + 1] = m
         /\ \A i \in 1 .. Len(q) : Append(q, m)[i] = q[i]
BY AppendProperties, LenProperties

(* What Head and Tail do, place by place.                                  *)
LEMMA TailFacts ==
  ASSUME NEW S, NEW q \in Seq(S), q # <<>>
  PROVE  /\ Tail(q) \in Seq(S) /\ Head(q) \in S /\ Head(q) = q[1]
         /\ Len(q) \in Nat \ {0} /\ Len(Tail(q)) = Len(q) - 1
         /\ \A i \in 1 .. Len(q) - 1 : Tail(q)[i] = q[i + 1]
OBVIOUS

(* What concatenation does, place by place.                                *)
LEMMA ConcatFacts ==
  ASSUME NEW S, NEW q \in Seq(S), NEW p \in Seq(S)
  PROVE  /\ q \o p \in Seq(S) /\ Len(q) \in Nat /\ Len(p) \in Nat /\ Len(q \o p) = Len(q) + Len(p)
         /\ \A i \in 1 .. Len(q) : (q \o p)[i] = q[i]
         /\ \A i \in 1 .. Len(q \o p) : i > Len(q) => (q \o p)[i] = p[i - Len(q)] /\ i - Len(q) \in 1 .. Len(p)
BY ConcatProperties, LenProperties

(* What a sequence is without one of its members.                          *)
LEMMA RemoveFacts ==
  ASSUME NEW S, NEW q \in Seq(S), NEW i \in 1 .. Len(q)
  PROVE  /\ RemoveAt(q, i) \in Seq(S) /\ Len(q) \in Nat \ {0} /\ Len(RemoveAt(q, i)) = Len(q) - 1
         /\ \A j \in 1 .. Len(q) - 1 : RemoveAt(q, i)[j] = q[IF j < i THEN j ELSE j + 1]
<1> DEFINE a == SubSeq(q, 1, i - 1)
           b == SubSeq(q, i + 1, Len(q))
<1>1. Len(q) \in Nat \ {0} /\ i \in Int /\ 1 <= i /\ i <= Len(q)
  BY LenProperties
<1>2. /\ a \in Seq(S) /\ Len(a) = i - 1
      /\ \A j \in 1 .. i - 1 : a[j] = q[j]
  <2>1. \A j \in 1 .. i - 1 : q[j] \in S
    BY <1>1, ElementOfSeq
  <2>2. a \in Seq(S) /\ Len(a) = i - 1
    BY <1>1, <2>1, SubSeqProperties
  <2>3. QED BY <1>1, <2>2, SubSeqProperties
<1>3. /\ b \in Seq(S) /\ Len(b) = Len(q) - i
      /\ \A j \in 1 .. Len(q) - i : b[j] = q[i + j]
  BY <1>1, SubSeqProperties
<1>4. RemoveAt(q, i) = a \o b
  BY DEF RemoveAt
<1> HIDE DEF a, b
<1>5. /\ a \o b \in Seq(S) /\ Len(a \o b) = Len(a) + Len(b)
      /\ \A j \in 1 .. Len(a) : (a \o b)[j] = a[j]
      /\ \A j \in 1 .. Len(a \o b) : j > Len(a) => (a \o b)[j] = b[j - Len(a)]
  BY <1>2, <1>3, ConcatFacts
<1>6. ASSUME NEW j \in 1 .. Len(q) - 1 PROVE (a \o b)[j] = q[IF j < i THEN j ELSE j + 1]
  <2>1. CASE j < i
    <3>1. j \in 1 .. i - 1 BY <1>1, <2>1
    <3>2. QED BY <1>2, <1>5, <2>1, <3>1
  <2>2. CASE ~(j < i)
    <3>1. j - (i - 1) \in 1 .. Len(q) - i /\ i + (j - (i - 1)) = j + 1 /\ j > Len(a) /\ j \in 1 .. Len(a \o b)
      BY <1>1, <1>2, <1>3, <1>5, <2>2
    <3>2. (a \o b)[j] = b[j - (i - 1)] BY <1>2, <1>5, <3>1
    <3>3. QED BY <1>3, <2>2, <3>1, <3>2
  <2>3. QED BY <2>1, <2>2
<1>7. QED BY <1>1, <1>2, <1>3, <1>4, <1>5, <1>6

(* What ends or starts a turn in one queue comes from another, in order.    *)
EndsFrom(q2, q, f) ==
  /\ \A i \in 1 .. Len(q2) : Ends(q2[i]) => f[i] \in 1 .. Len(q) /\ q2[i] = q[f[i]]
  /\ \A i, k \in 1 .. Len(q2) : i < k /\ Ends(q2[i]) /\ Ends(q2[k]) => f[i] < f[k]
PromptsFrom(p2, p, g) ==
  /\ \A j \in 1 .. Len(p2) : IsPrompt(p2[j]) => g[j] \in 1 .. Len(p) /\ p2[j] = p[g[j]]
  /\ \A j, k \in 1 .. Len(p2) : j < k /\ IsPrompt(p2[j]) /\ IsPrompt(p2[k]) => g[j] < g[k]

(* Turns stay in order when messages go, when messages that start and end   *)
(* no turn come, and when the one that runs is given up.                   *)
LEMMA FewerTurns ==
  ASSUME NEW q, NEW e, NEW p, NEW last, Ordered(q, e, p, last),
         NEW q2 \in Seq(EventMsg), NEW e2 \in {e, 0}, NEW p2 \in Seq(OrderMsg),
         NEW f, NEW g, EndsFrom(q2, q, f), PromptsFrom(p2, p, g)
  PROVE  /\ Ordered(q2, e2, p2, last)
         /\ \A t \in Nat : LiveIn(q2, e2, p2, t) => LiveIn(q, e, p, t)
<1>1. /\ e \in Nat /\ last \in Nat /\ e <= last /\ e2 \in Nat /\ e2 <= last /\ (e2 # 0 => e2 = e)
  BY DEF Ordered
<1>2. ASSUME NEW i \in 1 .. Len(q2), Ends(q2[i]) PROVE f[i] \in 1 .. Len(q) /\ q2[i] = q[f[i]] /\ Ends(q[f[i]])
  BY <1>2 DEF EndsFrom
<1>3. ASSUME NEW j \in 1 .. Len(p2), IsPrompt(p2[j]) PROVE g[j] \in 1 .. Len(p) /\ p2[j] = p[g[j]] /\ IsPrompt(p[g[j]])
  BY <1>3 DEF PromptsFrom
<1>4. \A i \in 1 .. Len(q2) : Ends(q2[i]) => 0 < q2[i].turn /\ q2[i].turn <= last
  BY <1>2 DEF Ordered
<1>5. \A j \in 1 .. Len(p2) : IsPrompt(p2[j]) => 0 < p2[j].rid /\ p2[j].rid <= last
  BY <1>3 DEF Ordered
<1>6. \A i, k \in 1 .. Len(q2) : i < k /\ Ends(q2[i]) /\ Ends(q2[k]) => q2[i].turn < q2[k].turn
  BY <1>2 DEF Ordered, EndsFrom
<1>7. \A i \in 1 .. Len(q2) : e2 # 0 /\ Ends(q2[i]) => q2[i].turn < e2
  BY <1>1, <1>2 DEF Ordered
<1>8. \A i \in 1 .. Len(q2), j \in 1 .. Len(p2) : Ends(q2[i]) /\ IsPrompt(p2[j]) => q2[i].turn < p2[j].rid
  BY <1>2, <1>3 DEF Ordered
<1>9. \A j \in 1 .. Len(p2) : e2 # 0 /\ IsPrompt(p2[j]) => e2 < p2[j].rid
  BY <1>1, <1>3 DEF Ordered
<1>10. \A j, k \in 1 .. Len(p2) : j < k /\ IsPrompt(p2[j]) /\ IsPrompt(p2[k]) => p2[j].rid < p2[k].rid
  BY <1>3 DEF Ordered, PromptsFrom
<1>11. \A t \in Nat : LiveIn(q2, e2, p2, t) => LiveIn(q, e, p, t)
  BY <1>1, <1>2, <1>3 DEF LiveIn
<1>12. Ordered(q2, e2, p2, last)
  BY <1>1, <1>4, <1>5, <1>6, <1>7, <1>8, <1>9, <1>10 DEF Ordered
<1>13. QED BY <1>11, <1>12

(* A message that ends no turn is sent to the Communicator.                *)
LEMMA EventAppended ==
  ASSUME NEW q, NEW e, NEW p, NEW last, Ordered(q, e, p, last),
         NEW m \in EventMsg, ~Ends(m)
  PROVE  /\ Ordered(Append(q, m), e, p, last)
         /\ \A t \in Nat : LiveIn(Append(q, m), e, p, t) => LiveIn(q, e, p, t)
<1> DEFINE f == [i \in Nat |-> i]
           r == Append(q, m)
<1>1. q \in Seq(EventMsg) /\ p \in Seq(OrderMsg)
  BY DEF Ordered
<1>2. /\ r \in Seq(EventMsg) /\ Len(q) \in Nat /\ Len(p) \in Nat /\ Len(r) = Len(q) + 1
      /\ r[Len(q) + 1] = m
      /\ \A i \in 1 .. Len(q) : r[i] = q[i]
  BY <1>1, AppendFacts, LenProperties
<1>3. \A i \in Nat : f[i] = i
  OBVIOUS
<1> HIDE DEF f, r
<1>4. \A i \in 1 .. Len(r) : Ends(r[i]) => f[i] \in 1 .. Len(q) /\ r[i] = q[f[i]]
  <2>1. \A i \in 1 .. Len(q) + 1 : i = Len(q) + 1 \/ i \in 1 .. Len(q)
    BY <1>2
  <2>2. \A i \in 1 .. Len(q) + 1 : i \in Nat
    BY <1>2
  <2>3. QED BY <1>2, <1>3, <2>1, <2>2
<1>5. /\ \A i, k \in 1 .. Len(r) : i < k /\ Ends(r[i]) /\ Ends(r[k]) => f[i] < f[k]
      /\ \A j \in 1 .. Len(p) : IsPrompt(p[j]) => f[j] \in 1 .. Len(p) /\ p[j] = p[f[j]]
      /\ \A j, k \in 1 .. Len(p) : j < k /\ IsPrompt(p[j]) /\ IsPrompt(p[k]) => f[j] < f[k]
  BY <1>2, <1>3
<1>6. Ordered(r, e, p, last) /\ \A t \in Nat : LiveIn(r, e, p, t) => LiveIn(q, e, p, t)
  <2>1. e \in {e, 0} OBVIOUS
  <2>2. EndsFrom(r, q, f) BY <1>4, <1>5 DEF EndsFrom
  <2>3. PromptsFrom(p, p, f) BY <1>5 DEF PromptsFrom
  <2>4. QED BY <1>1, <1>2, <2>1, <2>2, <2>3, FewerTurns
<1>7. QED BY <1>6 DEF r

(* The first message to the Communicator is taken; if it ended a turn, the  *)
(* turns that are left are later ones.                                     *)
LEMMA EventTaken ==
  ASSUME NEW q, NEW e, NEW p, NEW last, Ordered(q, e, p, last), q # <<>>
  PROVE  /\ Ordered(Tail(q), e, p, last)
         /\ \A t \in Nat : LiveIn(Tail(q), e, p, t) => LiveIn(q, e, p, t)
         /\ Ends(Head(q)) =>
              /\ Head(q).turn \in Nat \ {0} /\ Head(q).turn <= last /\ LiveIn(q, e, p, Head(q).turn)
              /\ \A t \in Nat : LiveIn(Tail(q), e, p, t) => Head(q).turn < t /\ t <= last
<1> DEFINE f == [i \in Nat |-> i + 1]
           g == [i \in Nat |-> i]
           r == Tail(q)
<1>1. q \in Seq(EventMsg) /\ p \in Seq(OrderMsg) /\ last \in Nat /\ e \in Nat /\ e <= last
  BY DEF Ordered
<1>2. /\ r \in Seq(EventMsg) /\ Head(q) \in EventMsg /\ Head(q) = q[1]
      /\ Len(q) \in Nat \ {0} /\ Len(r) = Len(q) - 1
      /\ \A i \in 1 .. Len(q) - 1 : r[i] = q[i + 1]
  BY <1>1, TailFacts
<1>3. (\A i \in Nat : f[i] = i + 1) /\ (\A i \in Nat : g[i] = i) /\ Len(p) \in Nat
  BY <1>1, LenProperties
<1> HIDE DEF f, g, r
<1>4. \A i \in 1 .. Len(r) : Ends(r[i]) => f[i] \in 1 .. Len(q) /\ r[i] = q[f[i]]
  <2>1. \A i \in 1 .. Len(r) : i \in Nat /\ i + 1 \in 1 .. Len(q) /\ i \in 1 .. Len(q) - 1
    BY <1>2
  <2>2. QED BY <1>2, <1>3, <2>1
<1>5. /\ \A i, k \in 1 .. Len(r) : i < k /\ Ends(r[i]) /\ Ends(r[k]) => f[i] < f[k]
      /\ \A j \in 1 .. Len(p) : IsPrompt(p[j]) => g[j] \in 1 .. Len(p) /\ p[j] = p[g[j]]
      /\ \A j, k \in 1 .. Len(p) : j < k /\ IsPrompt(p[j]) /\ IsPrompt(p[k]) => g[j] < g[k]
  <2>1. ASSUME NEW i \in Nat, NEW k \in Nat, i < k PROVE f[i] < f[k] /\ g[i] < g[k] /\ g[i] = i
    <3>1. f[i] = i + 1 /\ f[k] = k + 1 /\ g[i] = i /\ g[k] = k BY <1>3
    <3>2. QED BY <2>1, <3>1
  <2>2. \A i \in 1 .. Len(p) : i \in Nat /\ g[i] = i BY <1>3
  <2>3. \A i \in 1 .. Len(r) : i \in Nat BY <1>2
  <2>4. QED BY <2>1, <2>2, <2>3
<1>6. /\ Ordered(r, e, p, last)
      /\ \A t \in Nat : LiveIn(r, e, p, t) => LiveIn(q, e, p, t)
  <2>1. e \in {e, 0} OBVIOUS
  <2>2. EndsFrom(r, q, f) BY <1>4, <1>5 DEF EndsFrom
  <2>3. PromptsFrom(p, p, g) BY <1>5 DEF PromptsFrom
  <2>4. QED BY <1>1, <1>2, <2>1, <2>2, <2>3, FewerTurns
<1>7. ASSUME Ends(Head(q))
      PROVE  /\ Head(q).turn \in Nat \ {0} /\ Head(q).turn <= last /\ LiveIn(q, e, p, Head(q).turn)
             /\ \A t \in Nat : LiveIn(r, e, p, t) => Head(q).turn < t /\ t <= last
  <2>1. 1 \in 1 .. Len(q) /\ Ends(q[1]) /\ Head(q).turn = q[1].turn /\ Head(q).turn \in Nat
    <3>1. \A n \in EventMsg : n.turn \in Nat
      BY DEF EventMsg
    <3>2. QED BY <1>2, <1>7, <3>1
  <2>2. Head(q).turn \in Nat \ {0} /\ Head(q).turn <= last /\ LiveIn(q, e, p, Head(q).turn)
    BY <2>1 DEF Ordered, LiveIn
  <2>3. ASSUME NEW t \in Nat, NEW i \in 1 .. Len(r), Ends(r[i]), r[i].turn = t
        PROVE  Head(q).turn < t /\ t <= last
    <3>1. i + 1 \in 1 .. Len(q) /\ 1 < i + 1 /\ r[i] = q[i + 1]
      BY <1>2
    <3>2. QED BY <2>1, <2>3, <3>1 DEF Ordered
  <2>4. ASSUME e # 0 PROVE Head(q).turn < e
    BY <2>1, <2>4 DEF Ordered
  <2>5. ASSUME NEW j \in 1 .. Len(p), IsPrompt(p[j]) PROVE Head(q).turn < p[j].rid /\ p[j].rid <= last
    BY <2>1, <2>5 DEF Ordered
  <2>6. QED BY <1>1, <2>2, <2>3, <2>4, <2>5 DEF LiveIn
<1>8. QED BY <1>6, <1>7 DEF r

(* The Executor's turn ends.                                               *)
LEMMA TurnEnds ==
  ASSUME NEW q, NEW e, NEW p, NEW last, Ordered(q, e, p, last), e # 0,
         NEW m \in EventMsg, m.turn = e
  PROVE  /\ Ordered(Append(q, m), 0, p, last)
         /\ \A t \in Nat : LiveIn(Append(q, m), 0, p, t) => LiveIn(q, e, p, t)
<1>1. /\ q \in Seq(EventMsg) /\ p \in Seq(OrderMsg) /\ last \in Nat /\ e \in Nat /\ 0 < e /\ e <= last
      /\ Len(p) \in Nat
  BY LenProperties DEF Ordered
<1> DEFINE r == Append(q, m)
<1>2. /\ r \in Seq(EventMsg) /\ Len(q) \in Nat /\ Len(r) = Len(q) + 1
      /\ r[Len(q) + 1] = m
      /\ \A i \in 1 .. Len(q) : r[i] = q[i]
  BY <1>1, AppendFacts
<1> HIDE DEF r
<1>3. ASSUME NEW i \in 1 .. Len(r) PROVE (i = Len(q) + 1 /\ r[i].turn = e) \/ (i \in 1 .. Len(q) /\ r[i] = q[i])
  BY <1>2
<1>4. \A i \in 1 .. Len(r) : Ends(r[i]) => 0 < r[i].turn /\ r[i].turn <= last
  BY <1>1, <1>3 DEF Ordered
<1>5. \A i, k \in 1 .. Len(r) : i < k /\ Ends(r[i]) /\ Ends(r[k]) => r[i].turn < r[k].turn
  <2>1. ASSUME NEW i \in 1 .. Len(r), NEW k \in 1 .. Len(r), i < k, Ends(r[i]), Ends(r[k])
        PROVE  r[i].turn < r[k].turn
    <3>1. i \in 1 .. Len(q) /\ r[i] = q[i]
      BY <1>2, <2>1
    <3>2. CASE k = Len(q) + 1 /\ r[k].turn = e
      BY <1>1, <2>1, <3>1, <3>2 DEF Ordered
    <3>3. CASE k \in 1 .. Len(q) /\ r[k] = q[k]
      BY <2>1, <3>1, <3>3 DEF Ordered
    <3>4. QED BY <1>3, <3>2, <3>3
  <2>2. QED BY <2>1
<1>6. \A i \in 1 .. Len(r), j \in 1 .. Len(p) : Ends(r[i]) /\ IsPrompt(p[j]) => r[i].turn < p[j].rid
  BY <1>1, <1>3 DEF Ordered
<1>7. Ordered(r, 0, p, last)
  BY <1>1, <1>2, <1>4, <1>5, <1>6 DEF Ordered
<1>8. \A t \in Nat : LiveIn(r, 0, p, t) => LiveIn(q, e, p, t)
  BY <1>1, <1>3 DEF LiveIn
<1>9. QED BY <1>7, <1>8 DEF r

(* A new prompt is sent, and becomes the last one.                         *)
LEMMA PromptSent ==
  ASSUME NEW q, NEW e, NEW p, NEW last, Ordered(q, e, p, last),
         NEW m \in OrderMsg, IsPrompt(m), last < m.rid
  PROVE  /\ Ordered(q, e, Append(p, m), m.rid)
         /\ \A t \in Nat : LiveIn(q, e, Append(p, m), t) => LiveIn(q, e, p, t) \/ t = m.rid
<1>1. /\ q \in Seq(EventMsg) /\ p \in Seq(OrderMsg) /\ last \in Nat /\ e \in Nat /\ e <= last
      /\ Len(q) \in Nat /\ m.rid \in Nat /\ 0 < m.rid /\ e < m.rid
  <2>1. m.rid \in Nat
    BY DEF OrderMsg
  <2>2. QED BY <2>1, LenProperties DEF Ordered
<1> DEFINE r == Append(p, m)
           n == m.rid
<1>2. /\ r \in Seq(OrderMsg) /\ Len(p) \in Nat /\ Len(r) = Len(p) + 1
      /\ r[Len(p) + 1] = m
      /\ \A i \in 1 .. Len(p) : r[i] = p[i]
  BY <1>1, AppendFacts
<1> HIDE DEF r
<1>3. ASSUME NEW i \in 1 .. Len(r) PROVE (i = Len(p) + 1 /\ r[i].rid = n) \/ (i \in 1 .. Len(p) /\ r[i] = p[i])
  BY <1>2
<1>4. n \in Nat /\ 0 < n /\ e < n /\ last < n
  BY <1>1
<1> HIDE DEF n
<1>5. \A i \in 1 .. Len(q) : Ends(q[i]) => 0 < q[i].turn /\ q[i].turn < n /\ q[i].turn <= n
  <2>1. ASSUME NEW i \in 1 .. Len(q) PROVE q[i].turn \in Nat
    <3>1. q[i] \in EventMsg BY <1>1, ElementOfSeq
    <3>2. \A x \in EventMsg : x.turn \in Nat BY DEF EventMsg
    <3>3. QED BY <3>1, <3>2
  <2>2. QED BY <1>1, <1>4, <2>1 DEF Ordered
<1>6. \A i \in 1 .. Len(p) : IsPrompt(p[i]) => p[i].rid \in Nat /\ 0 < p[i].rid /\ p[i].rid < n /\ p[i].rid <= n
  <2>1. ASSUME NEW i \in 1 .. Len(p) PROVE p[i].rid \in Nat
    <3>1. p[i] \in OrderMsg BY <1>1, ElementOfSeq
    <3>2. \A x \in OrderMsg : x.rid \in Nat BY DEF OrderMsg
    <3>3. QED BY <3>1, <3>2
  <2>2. QED BY <1>1, <1>4, <2>1 DEF Ordered
<1>7. \A j \in 1 .. Len(r) : IsPrompt(r[j]) => 0 < r[j].rid /\ r[j].rid <= n
  BY <1>3, <1>4, <1>6
<1>8. \A i \in 1 .. Len(q), j \in 1 .. Len(r) : Ends(q[i]) /\ IsPrompt(r[j]) => q[i].turn < r[j].rid
  BY <1>3, <1>5 DEF Ordered
<1>9. \A j \in 1 .. Len(r) : e # 0 /\ IsPrompt(r[j]) => e < r[j].rid
  BY <1>3, <1>4 DEF Ordered
<1>10. \A j, k \in 1 .. Len(r) : j < k /\ IsPrompt(r[j]) /\ IsPrompt(r[k]) => r[j].rid < r[k].rid
  <2>1. ASSUME NEW j \in 1 .. Len(r), NEW k \in 1 .. Len(r), j < k, IsPrompt(r[j]), IsPrompt(r[k])
        PROVE  r[j].rid < r[k].rid
    <3>1. j \in 1 .. Len(p) /\ r[j] = p[j]
      BY <1>2, <2>1
    <3>2. CASE k = Len(p) + 1 /\ r[k].rid = n
      BY <1>6, <2>1, <3>1, <3>2
    <3>3. CASE k \in 1 .. Len(p) /\ r[k] = p[k]
      BY <2>1, <3>1, <3>3 DEF Ordered
    <3>4. QED BY <1>3, <3>2, <3>3
  <2>2. QED BY <2>1
<1>11. /\ \A i, k \in 1 .. Len(q) : i < k /\ Ends(q[i]) /\ Ends(q[k]) => q[i].turn < q[k].turn
       /\ \A i \in 1 .. Len(q) : e # 0 /\ Ends(q[i]) => q[i].turn < e
  BY DEF Ordered
<1>12. Ordered(q, e, r, n)
  <2>1. e <= n BY <1>1, <1>4
  <2>2. QED BY <1>1, <1>2, <1>4, <1>5, <1>7, <1>8, <1>9, <1>10, <1>11, <2>1 DEF Ordered
<1>13. \A t \in Nat : LiveIn(q, e, r, t) => LiveIn(q, e, p, t) \/ t = n
  BY <1>3 DEF LiveIn
<1>14. QED BY <1>12, <1>13 DEF r, n

-----------------------------------------------------------------------------
(* What the server's operators do to its record.                           *)

(* The server has given the pending prompt, if there is one, its answer.   *)
Answered(a, b, turn) ==
  /\ b.pend = NoPrompt
  /\ a.pend = NoPrompt => b.answers = a.answers
  /\ a.pend # NoPrompt =>
       \E s \in StopWord :
         b.answers = [a.answers EXCEPT ![a.pend.id] = Append(a.answers[a.pend.id], [stop |-> s, turn |-> turn])]
Unanswered(a, b) == b.pend = a.pend /\ b.answers = a.answers
SameServer(a, b) == b.state = a.state /\ b.form = a.form /\ b.opening = a.opening /\ b.trips = a.trips

(* The fields of the server's record.                                      *)
LEMMA AcpFields ==
  ASSUME NEW a
  PROVE  a \in AcpType <=>
           /\ a = [state |-> a.state, form |-> a.form, opening |-> a.opening, lastCall |-> a.lastCall,
                   pend |-> a.pend, trips |-> a.trips, answers |-> a.answers]
           /\ a.state \in {"uninitialized", "initialized", "shutdown"} /\ a.form \in BOOLEAN
           /\ a.opening \in {"no", "open", "switch", "acks"} /\ a.lastCall \in Nat
           /\ a.pend \in PendType /\ a.trips \in SUBSET TripType
           /\ a.answers \in [Prompts -> Seq(AnswerType)]
BY DEF AcpType

(* finishPrompt answers the pending prompt and leaves the rest alone.      *)
LEMMA FinishFacts ==
  ASSUME NEW a \in AcpType, NEW stop \in StopWord, NEW turn \in Nat
  PROVE  LET b == Finish(a, stop, turn) IN
         b \in AcpType /\ Answered(a, b, turn) /\ SameServer(a, b) /\ b.lastCall = a.lastCall
<1>1. CASE a.pend = NoPrompt
  BY <1>1, Zenon DEF Finish, Answered, SameServer
<1>2. CASE a.pend # NoPrompt
  <2> DEFINE x == [stop |-> stop, turn |-> turn]
             v == [a.answers EXCEPT ![a.pend.id] = Append(a.answers[a.pend.id], x)]
             b == [state |-> a.state, form |-> a.form, opening |-> a.opening, lastCall |-> a.lastCall,
                   pend |-> NoPrompt, trips |-> a.trips, answers |-> v]
  <2>1. x \in AnswerType
    BY DEF AnswerType
  <2>2. a.answers \in [Prompts -> Seq(AnswerType)] /\ a.pend \in PendType
    BY AcpFields
  <2>3. v \in [Prompts -> Seq(AnswerType)]
    <3>1. ASSUME a.pend.id \in Prompts PROVE Append(a.answers[a.pend.id], x) \in Seq(AnswerType)
      <4>1. a.answers[a.pend.id] \in Seq(AnswerType)
        BY <2>2, <3>1
      <4>2. QED BY <2>1, <4>1, AppendProperties
    <3>2. QED BY <2>2, <3>1
  <2>4. Finish(a, stop, turn) = b
    <3>1. a = [state |-> a.state, form |-> a.form, opening |-> a.opening, lastCall |-> a.lastCall,
               pend |-> a.pend, trips |-> a.trips, answers |-> a.answers]
      BY AcpFields
    <3>2. QED BY <1>2, <3>1 DEF Finish
  <2>5. /\ b.pend = NoPrompt /\ b.answers = v /\ b.state = a.state /\ b.form = a.form /\ b.opening = a.opening
        /\ b.trips = a.trips /\ b.lastCall = a.lastCall
    OBVIOUS
  <2>6. NoPrompt \in PendType
    <3>1. 0 \in 0 .. MaxPrompts
      BY BoundsAreNaturals
    <3>2. QED BY <3>1 DEF NoPrompt, Pending, PendType
  <2>7. b \in AcpType
    <3>1. /\ a.state \in {"uninitialized", "initialized", "shutdown"} /\ a.form \in BOOLEAN
          /\ a.opening \in {"no", "open", "switch", "acks"} /\ a.lastCall \in Nat /\ a.trips \in SUBSET TripType
      BY AcpFields
    <3> HIDE DEF v
    <3>2. QED BY <2>3, <2>6, <3>1 DEF AcpType
  <2>8. Answered(a, b, turn)
    <3>1. v = [a.answers EXCEPT ![a.pend.id] = Append(a.answers[a.pend.id], [stop |-> stop, turn |-> turn])]
      OBVIOUS
    <3> HIDE DEF v, b
    <3>2. QED BY <1>2, <2>5, <3>1, Zenon DEF Answered
  <2> HIDE DEF b
  <2>9. QED BY <2>4, <2>5, <2>7, <2>8 DEF SameServer
<1>3. QED BY <1>1, <1>2

(* An event answers the pending prompt, if it ends a turn, and a tool call  *)
(* is remembered.                                                          *)
LEMMA OnEventFacts ==
  ASSUME NEW a \in AcpType, NEW e \in EventMsg
  PROVE  LET b == OnEvent(a, e) IN
         /\ b \in AcpType /\ SameServer(a, b)
         /\ b.lastCall = IF e.type = "tool_call_requested" THEN e.rid ELSE a.lastCall
         /\ IF Ends(e) THEN Answered(a, b, e.turn) ELSE Unanswered(a, b)
<1>0. e.turn \in Nat /\ e.rid \in Nat /\ e.stop \in StopWord
      /\ e.type \in {"turn_finished", "error", "tool_call_requested", "ask_user"}
  BY DEF EventMsg
<1>1. CASE a.pend = NoPrompt /\ e.type = "error"
  <2>1. OnEvent(a, e) = a
    BY <1>1 DEF OnEvent
  <2>2. QED BY <1>1, <2>1 DEF Answered, Unanswered, SameServer
<1>2. CASE e.type = "tool_call_requested"
  <2> DEFINE b == [state |-> a.state, form |-> a.form, opening |-> a.opening, lastCall |-> e.rid,
                   pend |-> a.pend, trips |-> a.trips, answers |-> a.answers]
  <2>1. OnEvent(a, e) = b
    <3>1. a = [state |-> a.state, form |-> a.form, opening |-> a.opening, lastCall |-> a.lastCall,
               pend |-> a.pend, trips |-> a.trips, answers |-> a.answers]
      BY AcpFields
    <3>2. QED BY <1>2, <3>1 DEF OnEvent, FinishOnEvent
  <2>2. b \in AcpType
    BY <1>0, AcpFields DEF AcpType
  <2>3. QED BY <1>2, <2>1, <2>2 DEF Ends, Unanswered, SameServer
<1>3. CASE ~(a.pend = NoPrompt /\ e.type = "error") /\ e.type # "tool_call_requested"
  <2>1. OnEvent(a, e) = FinishOnEvent(a, e)
    BY <1>3 DEF OnEvent
  <2>2. CASE e.type = "turn_finished"
    <3> DEFINE s == IF a.pend.withError THEN "error" ELSE e.stop
    <3>1. s \in StopWord
      BY <1>0 DEF StopWord
    <3>2. OnEvent(a, e) = Finish(a, s, e.turn)
      BY <2>1, <2>2 DEF FinishOnEvent
    <3> HIDE DEF s
    <3> DEFINE c == Finish(a, s, e.turn)
    <3>3. c \in AcpType /\ Answered(a, c, e.turn) /\ SameServer(a, c) /\ c.lastCall = a.lastCall
      BY <1>0, <3>1, FinishFacts
    <3>4. OnEvent(a, e) = c
      BY <3>2
    <3> HIDE DEF c
    <3>5. QED BY <1>3, <2>2, <3>3, <3>4 DEF Ends
  <2>3. CASE e.type = "error" /\ e.stop \in {"provider", "turn ended"}
    <3>1. "error" \in StopWord
      BY DEF StopWord
    <3>2. OnEvent(a, e) = Finish(a, "error", e.turn)
      BY <2>1, <2>3 DEF FinishOnEvent
    <3> DEFINE c == Finish(a, "error", e.turn)
    <3>3. c \in AcpType /\ Answered(a, c, e.turn) /\ SameServer(a, c) /\ c.lastCall = a.lastCall
      BY <1>0, <3>1, FinishFacts
    <3>4. OnEvent(a, e) = c
      BY <3>2
    <3> HIDE DEF c
    <3>5. QED BY <1>3, <2>3, <3>3, <3>4 DEF Ends
  <2>4. CASE ~Ends(e)
    <3>1. OnEvent(a, e) = a
      BY <2>1, <2>4 DEF FinishOnEvent, Ends
    <3>2. QED BY <1>3, <2>4, <3>1 DEF Unanswered, SameServer
  <2>5. QED BY <2>2, <2>3, <2>4 DEF Ends
<1>4. QED BY <1>1, <1>2, <1>3

-----------------------------------------------------------------------------
(* Answers.                                                                *)

(* No prompt is pending when its number is 0.                              *)
LEMMA NoPromptIsZero == NoPrompt.id = 0
BY DEF NoPrompt, Pending

(* What the type says of each part.                                        *)
LEMMA PartTypes ==
  ASSUME TypeOK
  PROVE  /\ acp \in AcpType /\ comm \in CommType /\ exec \in ExecType /\ used \in UsedType
         /\ acp.pend \in PendType /\ acp.pend.id \in 0 .. MaxPrompts
         /\ acp.answers \in [Prompts -> Seq(AnswerType)]
         /\ acp.trips \in SUBSET TripType /\ acp.lastCall \in Nat
         /\ comm.turn \in {"idle", "running", "waiting"} /\ comm.prompt \in Nat /\ comm.stalled \in SUBSET Nat
         /\ exec.turn \in Nat /\ exec.call \in Nat /\ exec.open \in Nat
         /\ toExec \in Seq(OrderMsg) /\ toComm \in Seq(EventMsg)
         /\ used.prompts \in 0 .. MaxPrompts /\ MaxPrompts \in Nat
BY BoundsAreNaturals, AcpFields DEF TypeOK, CommType, ExecType, UsedType, PendType

(* Requests keep their answers, and a new answer comes from the turn of its *)
(* own prompt, or from an earlier turn that was given up.                  *)
AllowedAnswer(r, seq) ==
  /\ acp.answers[r] = <<>>
  /\ \E s \in StopWord, t \in Nat :
       seq = <<[stop |-> s, turn |-> t]>> /\ (t \in {0, r} \/ (t < r /\ Unanswering(t)))
AnswersGrow ==
  \A r \in Prompts : acp'.answers[r] = acp.answers[r] \/ AllowedAnswer(r, acp'.answers[r])
Stays == \A t \in Prompts : Unanswering(t) => Unanswering(t)'

(* Then a turn that does not answer its prompt never will, and every answer *)
(* stays the right one.                                                    *)
LEMMA AnswersStay ==
  ASSUME TypeOK, TypeOK', OwnAnswer, AnswersGrow, comm.stalled \subseteq comm'.stalled
  PROVE  Stays /\ OwnAnswer'
<1>1. ASSUME NEW t \in Prompts, Unanswering(t) PROVE Unanswering(t)'
  <2>1. CASE t \in comm.stalled
    BY <2>1 DEF Unanswering
  <2>2. CASE \E i \in 1 .. Len(acp.answers[t]) : acp.answers[t][i].turn \notin {0, t}
    <3>1. acp.answers[t] # <<>>
      BY <2>2, EmptySeq
    <3>2. acp'.answers[t] = acp.answers[t]
      BY <3>1 DEF AnswersGrow, AllowedAnswer
    <3>3. QED BY <2>2, <3>2 DEF Unanswering
  <2>3. QED BY <1>1, <2>1, <2>2 DEF Unanswering
<1>2. Stays
  BY <1>1 DEF Stays
<1>3. ASSUME NEW r \in Prompts, NEW i \in 1 .. Len(acp'.answers[r]), NEW t, t = acp'.answers[r][i].turn
      PROVE  t \in {0, r} \/ (t < r /\ Unanswering(t)')
  <2>1. t \in Nat /\ (t \in {0, r} \/ (t < r /\ Unanswering(t)))
    <3>1. CASE acp'.answers[r] = acp.answers[r]
      <4>1. acp.answers[r] \in Seq(AnswerType) /\ i \in 1 .. Len(acp.answers[r]) /\ t = acp.answers[r][i].turn
        BY PartTypes, <1>3, <3>1
      <4>2. acp.answers[r][i] \in AnswerType
        BY <4>1, ElementOfSeq
      <4>3. t \in Nat
        BY <4>1, <4>2 DEF AnswerType
      <4>4. t \in {0, r} \/ (t < r /\ Unanswering(t))
        BY <4>1 DEF OwnAnswer
      <4>5. QED BY <4>3, <4>4
    <3>2. CASE AllowedAnswer(r, acp'.answers[r])
      <4>1. PICK s \in StopWord, u \in Nat :
               acp'.answers[r] = <<[stop |-> s, turn |-> u]>> /\ (u \in {0, r} \/ (u < r /\ Unanswering(u)))
        BY <3>2 DEF AllowedAnswer
      <4>2. i = 1 /\ t = u
        BY <1>3, <4>1
      <4>3. QED BY <4>1, <4>2
    <3>3. QED BY <3>1, <3>2 DEF AnswersGrow
  <2>2. ASSUME t # 0, t < r PROVE t \in Prompts
    BY <2>1, <2>2, PartTypes DEF Prompts
  <2>3. QED BY <1>1, <2>1, <2>2
<1>4. OwnAnswer'
  BY <1>3, Zenon DEF OwnAnswer
<1>5. QED BY <1>2, <1>4

(* Nothing is answered.                                                    *)
LEMMA NoAnswerGiven ==
  ASSUME TypeOK, AnsweredOnce, acp'.answers = acp.answers, acp'.pend.id = acp.pend.id,
         used'.prompts = used.prompts
  PROVE  AnswersGrow /\ AnsweredOnce'
<1>1. AnswersGrow BY DEF AnswersGrow
<1>2. AnsweredOnce' BY DEF AnsweredOnce
<1>3. QED BY <1>1, <1>2

(* The pending prompt is answered, by a turn that may.                     *)
LEMMA PendingAnswered ==
  ASSUME TypeOK, AnsweredOnce, PendingIsCurrent, used'.prompts = used.prompts,
         NEW t \in Nat, Answered(acp, acp', t),
         acp.pend # NoPrompt => t \in {0, acp.pend.id} \/ (t < acp.pend.id /\ Unanswering(t))
  PROVE  AnswersGrow /\ AnsweredOnce'
<1>1. NoPrompt.id = 0
  BY DEF NoPrompt, Pending
<1>2. CASE acp.pend = NoPrompt
  <2>1. acp'.answers = acp.answers /\ acp'.pend.id = acp.pend.id
    BY <1>2 DEF Answered
  <2>2. QED BY <2>1, NoAnswerGiven
<1>3. CASE acp.pend # NoPrompt
  <2> DEFINE r == acp.pend.id
  <2>1. r \in Prompts /\ r <= used.prompts
    <3>1. r \in 1 .. MaxPrompts
      BY <1>3, PartTypes DEF PendingIsCurrent
    <3>2. QED BY <1>3, <3>1, PartTypes DEF PendingIsCurrent, Prompts
  <2>2. acp.answers[r] = <<>>
    BY <2>1 DEF AnsweredOnce
  <2>3. PICK s \in StopWord :
          acp'.answers = [acp.answers EXCEPT ![r] = Append(acp.answers[r], [stop |-> s, turn |-> t])]
    BY <1>3 DEF Answered
  <2> HIDE DEF r
  <2>4. /\ acp'.answers[r] = <<[stop |-> s, turn |-> t]>>
        /\ \A x \in Prompts : x # r => acp'.answers[x] = acp.answers[x]
    <3>1. Append(<<>>, [stop |-> s, turn |-> t]) = <<[stop |-> s, turn |-> t]>>
      OBVIOUS
    <3>2. QED BY <2>1, <2>2, <2>3, <3>1, PartTypes
  <2>5. AllowedAnswer(r, acp'.answers[r])
    <3>1. t \in {0, r} \/ (t < r /\ Unanswering(t))
      BY <1>3 DEF r
    <3>2. QED BY <2>2, <2>4, <3>1 DEF AllowedAnswer
  <2>6. AnswersGrow
    BY <2>4, <2>5 DEF AnswersGrow
  <2>7. Len(acp'.answers[r]) = 1 /\ acp'.answers[r] # <<>>
    BY <2>4
  <2>8. acp'.pend.id = 0 /\ \A x \in Prompts : x # 0
    BY <1>1, PartTypes DEF Answered, Prompts
  <2>9. AnsweredOnce'
    <3>1. ASSUME NEW x \in Prompts
          PROVE  /\ Len(acp'.answers[x]) <= 1
                 /\ acp'.pend.id = x => acp'.answers[x] = <<>>
                 /\ x <= used'.prompts => acp'.answers[x] # <<>> \/ acp'.pend.id = x
      <4>1. CASE x = r
        <5>1. Len(acp'.answers[x]) = 1 /\ acp'.answers[x] # <<>> BY <2>7, <4>1, Zenon
        <5>2. acp'.pend.id # x BY <2>8
        <5>3. Len(acp'.answers[x]) <= 1 BY <5>1
        <5>4. QED BY <5>1, <5>2, <5>3
      <4>2. CASE x # r
        <5>1. acp'.answers[x] = acp.answers[x] /\ acp.pend.id # x
          BY <2>4, <4>2 DEF r
        <5>2. QED BY <2>8, <5>1 DEF AnsweredOnce
      <4>3. QED BY <4>1, <4>2
    <3>2. QED BY <3>1 DEF AnsweredOnce
  <2>10. QED BY <2>6, <2>9
<1>4. QED BY <1>2, <1>3

(* Then no request to come has an answer.                                  *)
LEMMA LaterUnanswered ==
  ASSUME TypeOK, PendingIsCurrent, NEW t, Answered(acp, acp', t)
  PROVE  \A r \in Prompts : r > used.prompts => acp'.answers[r] = <<>>
<1>1. CASE acp.pend = NoPrompt
  BY <1>1 DEF Answered, PendingIsCurrent
<1>2. CASE acp.pend # NoPrompt
  <2>1. acp.pend.id <= used.prompts /\ acp.pend.id \in Int /\ used.prompts \in Int
    BY <1>2, PartTypes DEF PendingIsCurrent
  <2>2. PICK x : acp'.answers = [acp.answers EXCEPT ![acp.pend.id] = x]
    BY <1>2 DEF Answered
  <2>3. ASSUME NEW r \in Prompts, r > used.prompts PROVE acp'.answers[r] = <<>>
    <3>1. r # acp.pend.id /\ acp.answers[r] = <<>>
      BY <2>1, <2>3 DEF Prompts, PendingIsCurrent
    <3>2. acp'.answers[r] = acp.answers[r]
      BY <2>2, <3>1, PartTypes
    <3>3. QED BY <3>1, <3>2
  <2>4. QED BY <2>3
<1>3. QED BY <1>1, <1>2

(* A turn that is on its way and ends may answer the pending prompt.       *)
LEMMA LiveTurnMayAnswer ==
  ASSUME TypeOK, PendingIsCurrent, LiveIsCurrent, TurnsInOrder, acp.pend # NoPrompt,
         NEW t \in Nat, Live(t), t <= comm.prompt
  PROVE  t \in {0, acp.pend.id} \/ (t < acp.pend.id /\ Unanswering(t))
<1>1. comm.prompt = acp.pend.id /\ comm.prompt \in Nat
  BY PartTypes DEF PendingIsCurrent
<1>2. t = comm.prompt \/ Unanswering(t)
  BY DEF LiveIsCurrent
<1>3. QED BY <1>1, <1>2
-----------------------------------------------------------------------------
(* Turns.                                                                  *)

(* No turn is started or ended for anyone.                                 *)
LEMMA SameTurns ==
  ASSUME TypeOK, TypeOK', LiveIsCurrent, AnsweredGoesOn, Stays,
         comm'.prompt = comm.prompt, (comm'.turn = "idle") <=> (comm.turn = "idle"),
         (acp'.pend = NoPrompt) <=> (acp.pend = NoPrompt),
         \A t \in Nat : Live(t)' => Live(t)
  PROVE  LiveIsCurrent' /\ AnsweredGoesOn'
<1>1. LiveIsCurrent'
  BY DEF LiveIsCurrent, Stays
<1>2. AnsweredGoesOn'
  BY DEF AnsweredGoesOn, Stays
<1>3. QED BY <1>1, <1>2

(* No turn is left.                                                        *)
LEMMA NoTurns ==
  ASSUME TypeOK', toComm' = <<>>, exec'.turn = 0, toExec' = <<>>
  PROVE  /\ \A t \in Nat : ~Live(t)'
         /\ TurnsInOrder' /\ LiveIsCurrent' /\ AnsweredGoesOn'
<1>1. \A t \in Nat : ~Live(t)'
  BY EmptySeq DEF Live, LiveIn
<1>2. TurnsInOrder'
  <2>1. toComm' \in Seq(EventMsg) /\ toExec' \in Seq(OrderMsg) /\ comm'.prompt \in Nat
    BY PartTypes DEF TypeOK, CommType
  <2>2. Len(toComm') = 0 /\ Len(toExec') = 0 /\ 0 <= comm'.prompt
    BY <2>1, EmptySeq
  <2>3. QED BY <2>1, <2>2 DEF TurnsInOrder, Ordered
<1>3. LiveIsCurrent' /\ AnsweredGoesOn'
  BY <1>1 DEF LiveIsCurrent, AnsweredGoesOn
<1>4. QED BY <1>1, <1>2, <1>3

(* The Executor gets messages that start no turn.                          *)
LEMMA OrdersSent ==
  ASSUME TurnsInOrder, NEW ms \in Seq(OrderMsg), \A j \in 1 .. Len(ms) : ~IsPrompt(ms[j])
  PROVE  /\ Ordered(toComm, exec.turn, toExec \o ms, comm.prompt)
         /\ \A t \in Nat : LiveIn(toComm, exec.turn, toExec \o ms, t) => Live(t)
<1> DEFINE f == [i \in Nat |-> i]
           q == toComm
           p == toExec
           r == p \o ms
<1>1. q \in Seq(EventMsg) /\ p \in Seq(OrderMsg) /\ Ordered(q, exec.turn, p, comm.prompt)
  BY DEF TurnsInOrder, Ordered
<1>2. /\ r \in Seq(OrderMsg) /\ Len(p) \in Nat /\ Len(ms) \in Nat /\ Len(q) \in Nat /\ Len(r) = Len(p) + Len(ms)
      /\ \A i \in 1 .. Len(p) : r[i] = p[i]
      /\ \A i \in 1 .. Len(r) : i > Len(p) => r[i] = ms[i - Len(p)] /\ i - Len(p) \in 1 .. Len(ms)
  BY <1>1, ConcatFacts, LenProperties
<1>3. \A i \in Nat : f[i] = i
  OBVIOUS
<1> HIDE DEF f, r, q, p
<1>4. ASSUME NEW i \in 1 .. Len(r), IsPrompt(r[i]) PROVE i \in 1 .. Len(p) /\ r[i] = p[i] /\ f[i] = i
  <2>1. i \in 1 .. Len(p)
    BY <1>2, <1>4
  <2>2. QED BY <1>2, <1>3, <2>1
<1>5. PromptsFrom(r, p, f)
  BY <1>2, <1>4 DEF PromptsFrom
<1>6. EndsFrom(q, q, f)
  BY <1>2, <1>3 DEF EndsFrom
<1>7. exec.turn \in {exec.turn, 0}
  OBVIOUS
<1>8. /\ Ordered(q, exec.turn, r, comm.prompt)
      /\ \A t \in Nat : LiveIn(q, exec.turn, r, t) => LiveIn(q, exec.turn, p, t)
  BY <1>1, <1>2, <1>5, <1>6, <1>7, FewerTurns
<1>9. QED BY <1>8 DEF q, p, r, Live

(* ... if it is there.                                                     *)
LEMMA SentFacts ==
  ASSUME TypeOK, TurnsInOrder, NEW ms \in Seq(OrderMsg), \A j \in 1 .. Len(ms) : ~IsPrompt(ms[j])
  PROVE  /\ Sent(ms) \in Seq(OrderMsg)
         /\ ~exec.up => Sent(ms) = toExec
         /\ Ordered(toComm, exec.turn, Sent(ms), comm.prompt)
         /\ \A t \in Nat : LiveIn(toComm, exec.turn, Sent(ms), t) => Live(t)
         /\ \A j \in 1 .. Len(toExec) : j \in 1 .. Len(Sent(ms)) /\ Sent(ms)[j] = toExec[j]
<1>1. CASE exec.up
  <2>1. Sent(ms) = toExec \o ms
    BY <1>1 DEF Sent
  <2>2. /\ toExec \o ms \in Seq(OrderMsg) /\ Len(toExec) \in Nat /\ Len(ms) \in Nat
        /\ Len(toExec \o ms) = Len(toExec) + Len(ms)
        /\ \A i \in 1 .. Len(toExec) : (toExec \o ms)[i] = toExec[i]
    BY PartTypes, ConcatFacts
  <2>3. \A j \in 1 .. Len(toExec) : j \in 1 .. Len(toExec \o ms)
    BY <2>2
  <2>4. QED BY <1>1, <2>1, <2>2, <2>3, OrdersSent
<1>2. CASE ~exec.up
  <2>1. Sent(ms) = toExec
    BY <1>2 DEF Sent
  <2>2. QED BY <2>1, PartTypes DEF TurnsInOrder, Live
<1>3. QED BY <1>1, <1>2

-----------------------------------------------------------------------------
(* Steps.                                                                  *)

(* Use counts one of the bounds, and the requests only when it is asked to. *)
LEMMA UseFacts ==
  ASSUME used \in UsedType,
         NEW what \in {"cancels", "calls", "asks", "exits", "opens"}, Use(what)
  PROVE  used' \in UsedType /\ used'.prompts = used.prompts
<1>1. used' = [used EXCEPT ![what] = used[what] + 1]
  BY DEF Use
<1>2. CASE what = "cancels" BY <1>1, <1>2 DEF UsedType
<1>3. CASE what = "calls" BY <1>1, <1>3 DEF UsedType
<1>4. CASE what = "asks" BY <1>1, <1>4 DEF UsedType
<1>5. CASE what = "exits" BY <1>1, <1>5 DEF UsedType
<1>6. CASE what = "opens" BY <1>1, <1>6 DEF UsedType
<1>7. QED BY <1>2, <1>3, <1>4, <1>5, <1>6

(* The calls on their way are the same, and no question is new.            *)
LEMMA SameCalls ==
  ASSUME CallsAreKnown, toComm' = toComm, acp'.lastCall = acp.lastCall, exec'.call = exec.call,
         exec'.open = exec.open, exec'.writing = exec.writing
  PROVE  CallsAreKnown'
BY DEF CallsAreKnown

(* No question is new.                                                     *)
LEMMA SameTrips ==
  ASSUME PermissionNamesItsCall, acp'.trips \subseteq acp.trips
  PROVE  PermissionNamesItsCall'
BY DEF PermissionNamesItsCall

(* The Executor gets more to do, and no turn changes.                      *)
LEMMA StillEnds ==
  ASSUME TurnWillEnd, comm.turn # "idle" \/ comm'.turn = "idle", ~comm.noFinish \/ comm'.noFinish,
         exec'.up = exec.up, exec'.turn = exec.turn, toComm' = toComm,
         \A j \in 1 .. Len(toExec) : j \in 1 .. Len(toExec') /\ toExec'[j] = toExec[j]
  PROVE  TurnWillEnd'
<1>1. ASSUME comm'.turn # "idle", exec'.up, ~comm'.noFinish
      PROVE  \/ exec.turn # 0
             \/ \E i \in 1 .. Len(toComm) : toComm[i].type = "turn_finished"
             \/ \E j \in 1 .. Len(toExec) : IsPrompt(toExec[j])
  BY <1>1 DEF TurnWillEnd
<1>2. QED BY <1>1 DEF TurnWillEnd

(* A request that concerns no turn.                                        *)
LEMMA QuietStep ==
  ASSUME ServerInv, TypeOK', SessionAndChannels', acp'.answers = acp.answers, acp'.pend = acp.pend,
         acp'.trips = acp.trips, acp'.lastCall = acp.lastCall,
         comm'.turn = comm.turn, comm'.prompt = comm.prompt, comm'.stalled = comm.stalled,
         comm'.noFinish = comm.noFinish, UNCHANGED <<exec, toExec, toComm>>, used'.prompts = used.prompts
  PROVE  ServerInv'
<1> USE DEF ServerInv
<1>1. PendingIsCurrent'
  BY DEF PendingIsCurrent
<1>2. AnsweredOnce' /\ AnswersGrow
  BY NoAnswerGiven
<1>3. Stays /\ OwnAnswer'
  BY <1>2, AnswersStay
<1>4. TurnsInOrder' /\ \A t \in Nat : Live(t)' => Live(t)
  BY DEF TurnsInOrder, Live
<1>5. LiveIsCurrent' /\ AnsweredGoesOn'
  BY <1>3, <1>4, SameTurns
<1>6. TurnWillEnd'
  BY DEF TurnWillEnd
<1>7. CallsAreKnown' /\ PermissionNamesItsCall'
  BY SameCalls, SameTrips
<1>8. QED BY <1>1, <1>2, <1>3, <1>4, <1>5, <1>6, <1>7

(* The handshake.                                                          *)
LEMMA InitializeStep ==
  ASSUME ServerInv, NEW form \in BOOLEAN, Initialize(form)
  PROVE  ServerInv'
<1> DEFINE b == [state |-> "initialized", form |-> form, opening |-> acp.opening, lastCall |-> acp.lastCall,
                 pend |-> acp.pend, trips |-> acp.trips, answers |-> acp.answers]
<1>1. acp \in AcpType
  BY DEF ServerInv, TypeOK
<1>2. acp' = b
  <2>1. acp = [state |-> acp.state, form |-> acp.form, opening |-> acp.opening, lastCall |-> acp.lastCall,
               pend |-> acp.pend, trips |-> acp.trips, answers |-> acp.answers]
    BY <1>1, AcpFields
  <2>2. acp' = [acp EXCEPT !.state = "initialized", !.form = form]
    BY DEF Initialize
  <2>3. QED BY <2>1, <2>2
<1>3. b \in AcpType
  BY <1>1, AcpFields DEF AcpType
<1>4. /\ b.opening = acp.opening /\ b.lastCall = acp.lastCall /\ b.pend = acp.pend
      /\ b.trips = acp.trips /\ b.answers = acp.answers
  OBVIOUS
<1> HIDE DEF b
<1>5. UNCHANGED <<comm, exec, toExec, toComm, used>>
  BY DEF Initialize
<1>6. TypeOK'
  BY <1>2, <1>3, <1>4, <1>5 DEF ServerInv, TypeOK
<1>7. SessionAndChannels'
  BY <1>2, <1>4, <1>5 DEF ServerInv, SessionAndChannels
<1>8. QED BY <1>2, <1>4, <1>5, <1>6, <1>7, QuietStep

(* session/new and session/load begin.                                     *)
LEMMA HandleSessionOpenStep ==
  ASSUME ServerInv, HandleSessionOpen
  PROVE  ServerInv'
<1> DEFINE o == IF comm.session THEN "switch" ELSE "open"
           b == [state |-> acp.state, form |-> acp.form, opening |-> o, lastCall |-> acp.lastCall,
                 pend |-> acp.pend, trips |-> acp.trips, answers |-> acp.answers]
<1>1. acp \in AcpType /\ comm \in CommType /\ used \in UsedType
  BY DEF ServerInv, TypeOK
<1>2. acp' = b
  BY <1>1, AcpFields DEF HandleSessionOpen
<1>3. b \in AcpType
  BY <1>1, AcpFields DEF AcpType
<1>4. /\ b.lastCall = acp.lastCall /\ b.pend = acp.pend
      /\ b.trips = acp.trips /\ b.answers = acp.answers
  OBVIOUS
<1> HIDE DEF b
<1>5. UNCHANGED <<exec, toExec, toComm>> /\ used' \in UsedType /\ used'.prompts = used.prompts
  BY <1>1, UseFacts DEF HandleSessionOpen
<1>6. /\ comm' \in CommType /\ comm'.turn = comm.turn /\ comm'.prompt = comm.prompt /\ ~comm'.session
      /\ comm'.stalled = comm.stalled /\ comm'.noFinish = comm.noFinish /\ comm.turn = "idle"
  BY <1>1 DEF HandleSessionOpen, CommType, Idle
<1>7. TypeOK'
  BY <1>2, <1>3, <1>4, <1>5, <1>6 DEF ServerInv, TypeOK
<1>8. SessionAndChannels'
  BY <1>5, <1>6 DEF ServerInv, SessionAndChannels
<1>9. QED BY <1>2, <1>4, <1>5, <1>6, <1>7, <1>8, QuietStep

(* A session is open.                                                      *)
LEMMA SessionOpenedStep ==
  ASSUME ServerInv, SessionOpened
  PROVE  ServerInv'
<1> DEFINE b == [state |-> acp.state, form |-> acp.form, opening |-> "no", lastCall |-> acp.lastCall,
                 pend |-> acp.pend, trips |-> acp.trips, answers |-> acp.answers]
<1>1. acp \in AcpType
  BY DEF ServerInv, TypeOK
<1>2. acp' = b
  BY <1>1, AcpFields DEF SessionOpened
<1>3. b \in AcpType
  BY <1>1, AcpFields DEF AcpType
<1>4. /\ b.opening = "no" /\ b.lastCall = acp.lastCall /\ b.pend = acp.pend
      /\ b.trips = acp.trips /\ b.answers = acp.answers
  OBVIOUS
<1> HIDE DEF b
<1>5. UNCHANGED <<comm, exec, toExec, toComm, used>>
  BY DEF SessionOpened
<1>6. TypeOK'
  BY <1>2, <1>3, <1>4, <1>5 DEF ServerInv, TypeOK
<1>7. SessionAndChannels'
  BY <1>2, <1>4, <1>5 DEF ServerInv, SessionAndChannels
<1>8. QED BY <1>2, <1>4, <1>5, <1>6, <1>7, QuietStep

(* Everything is gone between the children and the Communicator.           *)
LEMMA EmptiedStep ==
  ASSUME ServerInv, TypeOK', PendingIsCurrent', AnsweredOnce', AnswersGrow,
         comm.stalled \subseteq comm'.stalled, toComm' = <<>>, toExec' = <<>>,
         exec'.turn = 0, exec'.open = 0, ~exec'.up \/ comm'.turn = "idle",
         acp'.trips \subseteq acp.trips,
         comm'.turn # "idle" => comm'.session,
         acp'.opening \in {"open", "switch"} => ~comm'.session
  PROVE  ServerInv'
<1> USE DEF ServerInv
<1>1. SessionAndChannels'
  BY DEF SessionAndChannels
<1>2. OwnAnswer'
  BY AnswersStay
<1>3. TurnsInOrder' /\ LiveIsCurrent' /\ AnsweredGoesOn'
  BY NoTurns
<1>4. TurnWillEnd'
  BY DEF TurnWillEnd
<1>5. CallsAreKnown'
  BY EmptySeq DEF CallsAreKnown, CallsInOrder, AsksAfterCalls, NoCall
<1>6. PermissionNamesItsCall'
  BY SameTrips
<1>7. QED BY <1>1, <1>2, <1>3, <1>4, <1>5, <1>6

(* The new store exists.                                                   *)
LEMMA SessionOpeningStep ==
  ASSUME ServerInv, SessionOpening
  PROVE  ServerInv'
<1> DEFINE b == [state |-> acp.state, form |-> acp.form, opening |-> "acks", lastCall |-> acp.lastCall,
                 pend |-> acp.pend, trips |-> acp.trips, answers |-> acp.answers]
<1>1. acp \in AcpType /\ comm \in CommType /\ exec \in ExecType
  BY DEF ServerInv, TypeOK
<1>2. acp' = b
  BY <1>1, AcpFields DEF SessionOpening
<1>3. b \in AcpType
  BY <1>1, AcpFields DEF AcpType
<1>4. /\ b.opening = "acks" /\ b.lastCall = acp.lastCall /\ b.pend = acp.pend
      /\ b.trips = acp.trips /\ b.answers = acp.answers
  OBVIOUS
<1> HIDE DEF b
<1>5. /\ comm' \in CommType /\ comm'.turn = comm.turn /\ comm'.prompt = comm.prompt /\ comm'.session
      /\ comm'.stalled = comm.stalled /\ comm.turn = "idle" /\ used' = used
  BY <1>1 DEF SessionOpening, CommType, ServerInv, SessionAndChannels
<1>6. CASE acp.opening = "switch"
  <2>1. exec' = [Fresh EXCEPT !.call = exec.call] /\ toExec' = <<>> /\ toComm' = <<>>
    BY <1>6 DEF SessionOpening
  <2>2. exec' \in ExecType /\ exec'.turn = 0 /\ exec'.open = 0
    BY <1>1, <2>1 DEF ExecType, Fresh, NoAsk
  <2>3. TypeOK'
    <3>1. toExec' \in Seq(OrderMsg) /\ toComm' \in Seq(EventMsg)
      BY <2>1
    <3>2. QED BY <1>2, <1>3, <1>4, <1>5, <2>2, <3>1 DEF ServerInv, TypeOK
  <2>4. PendingIsCurrent'
    BY <1>2, <1>4, <1>5 DEF ServerInv, PendingIsCurrent
  <2>5. AnswersGrow /\ AnsweredOnce'
    BY <1>2, <1>4, <1>5, NoAnswerGiven DEF ServerInv
  <2>6. acp'.trips \subseteq acp.trips /\ comm.stalled \subseteq comm'.stalled /\ acp'.opening = "acks"
    BY <1>2, <1>4, <1>5
  <2>7. QED BY <1>5, <2>1, <2>2, <2>3, <2>4, <2>5, <2>6, EmptiedStep
<1>7. CASE acp.opening # "switch"
  <2>1. UNCHANGED <<exec, toExec, toComm>> /\ comm'.noFinish = comm.noFinish
    BY <1>1, <1>7 DEF SessionOpening, CommType
  <2>2. TypeOK'
    BY <1>2, <1>3, <1>4, <1>5, <2>1 DEF ServerInv, TypeOK
  <2>3. SessionAndChannels'
    BY <1>2, <1>4, <1>5, <2>1 DEF ServerInv, SessionAndChannels
  <2>4. QED BY <1>2, <1>4, <1>5, <2>1, <2>2, <2>3, QuietStep
<1>8. QED BY <1>6, <1>7

(* A switch has failed.                                                    *)
LEMMA SwitchFailsStep ==
  ASSUME ServerInv, SwitchFails
  PROVE  ServerInv'
<1> DEFINE b == [state |-> acp.state, form |-> acp.form, opening |-> "no", lastCall |-> acp.lastCall,
                 pend |-> acp.pend, trips |-> acp.trips, answers |-> acp.answers]
<1>1. acp \in AcpType /\ exec \in ExecType
  BY DEF ServerInv, TypeOK
<1>2. acp' = b
  BY <1>1, AcpFields DEF SwitchFails
<1>3. b \in AcpType
  BY <1>1, AcpFields DEF AcpType
<1>4. /\ b.opening = "no" /\ b.lastCall = acp.lastCall /\ b.pend = acp.pend
      /\ b.trips = acp.trips /\ b.answers = acp.answers
  OBVIOUS
<1> HIDE DEF b
<1>5. comm' = comm /\ used' = used /\ toExec' = <<>> /\ toComm' = <<>> /\ exec' = [Gone EXCEPT !.call = exec.call]
  BY DEF SwitchFails
<1>6. exec' \in ExecType /\ exec'.turn = 0 /\ exec'.open = 0 /\ ~exec'.up
  BY <1>1, <1>5 DEF ExecType, Gone, Fresh, NoAsk
<1>7. TypeOK'
  <2>1. toExec' \in Seq(OrderMsg) /\ toComm' \in Seq(EventMsg)
    BY <1>5
  <2>2. QED BY <1>2, <1>3, <1>4, <1>5, <1>6, <2>1 DEF ServerInv, TypeOK
<1>8. PendingIsCurrent' /\ (comm'.turn # "idle" => comm'.session)
  BY <1>2, <1>4, <1>5 DEF ServerInv, PendingIsCurrent, SessionAndChannels
<1>9. AnswersGrow /\ AnsweredOnce'
  BY <1>2, <1>4, <1>5, NoAnswerGiven DEF ServerInv
<1>10. acp'.trips \subseteq acp.trips /\ comm.stalled \subseteq comm'.stalled /\ acp'.opening = "no"
  BY <1>2, <1>4, <1>5
<1>11. QED BY <1>5, <1>6, <1>7, <1>8, <1>9, <1>10, EmptiedStep

(* The end of the input.                                                   *)
LEMMA OnEofStep ==
  ASSUME ServerInv, OnEof
  PROVE  ServerInv'
<1> DEFINE a == [state |-> "shutdown", form |-> acp.form, opening |-> acp.opening, lastCall |-> acp.lastCall,
                 pend |-> acp.pend, trips |-> {}, answers |-> acp.answers]
<1>1. acp \in AcpType /\ exec \in ExecType
  BY DEF ServerInv, TypeOK
<1>2. acp' = Finish(a, "cancelled", 0)
  <2>1. [acp EXCEPT !.state = "shutdown", !.trips = {}] = a
    BY <1>1, AcpFields
  <2>2. QED BY <2>1 DEF OnEof
<1>3. a \in AcpType
  BY <1>1, AcpFields DEF AcpType
<1>4. a.opening = acp.opening /\ a.trips = {} /\ a.pend = acp.pend /\ a.answers = acp.answers
  OBVIOUS
<1> HIDE DEF a
<1>5. acp' \in AcpType /\ Answered(a, acp', 0) /\ acp'.opening = acp.opening /\ acp'.trips = {}
  <2>1. "cancelled" \in StopWord /\ 0 \in Nat
    BY DEF StopWord
  <2>2. QED BY <1>2, <1>3, <1>4, <2>1, FinishFacts DEF SameServer
<1>6. Answered(acp, acp', 0)
  BY <1>4, <1>5 DEF Answered
<1>7. comm' = comm /\ used' = used /\ toExec' = <<>> /\ toComm' = <<>> /\ exec' = Gone
  BY DEF OnEof
<1>8. exec' \in ExecType /\ exec'.turn = 0 /\ exec'.open = 0 /\ ~exec'.up
  BY <1>7 DEF ExecType, Gone, Fresh, NoAsk
<1>9. TypeOK'
  <2>1. toExec' \in Seq(OrderMsg) /\ toComm' \in Seq(EventMsg)
    BY <1>7
  <2>2. IsFiniteSet(acp'.trips)
    BY <1>5, FS_EmptySet
  <2>3. QED BY <1>5, <1>7, <1>8, <2>1, <2>2 DEF ServerInv, TypeOK
<1>10. AnswersGrow /\ AnsweredOnce'
  BY <1>6, <1>7, PendingAnswered DEF ServerInv
<1>11. acp'.pend = NoPrompt
  BY <1>6 DEF Answered
<1>12. PendingIsCurrent'
  <2>1. \A r \in Prompts : r > used.prompts => acp'.answers[r] = <<>>
    BY <1>6, LaterUnanswered DEF ServerInv
  <2>2. QED BY <1>7, <1>11, <2>1 DEF ServerInv, PendingIsCurrent
<1>13. /\ comm'.turn # "idle" => comm'.session
       /\ acp'.opening \in {"open", "switch"} => ~comm'.session
       /\ acp'.trips \subseteq acp.trips /\ comm.stalled \subseteq comm'.stalled
  BY <1>5, <1>7 DEF ServerInv, SessionAndChannels
<1>14. QED BY <1>7, <1>8, <1>9, <1>10, <1>12, <1>13, EmptiedStep

(* A request that is answered on the spot.                                 *)
LEMMA AnsweredAtOnce ==
  ASSUME ServerInv, NEW s \in {"error", "end"}, used.prompts < MaxPrompts, Use("prompts"),
         acp' = [acp EXCEPT !.answers[used.prompts + 1] = <<[stop |-> s, turn |-> 0]>>],
         UNCHANGED <<comm, exec, toExec, toComm>>
  PROVE  ServerInv'
<1> DEFINE r == used.prompts + 1
           x == [stop |-> s, turn |-> 0]
           v == [acp.answers EXCEPT ![r] = <<x>>]
           b == [state |-> acp.state, form |-> acp.form, opening |-> acp.opening, lastCall |-> acp.lastCall,
                 pend |-> acp.pend, trips |-> acp.trips, answers |-> v]
<1>1. acp \in AcpType /\ used \in UsedType /\ used.prompts \in Nat /\ MaxPrompts \in Nat /\ TypeOK
  BY PartTypes DEF ServerInv
<1>2. acp' = b
  <2>1. acp = [state |-> acp.state, form |-> acp.form, opening |-> acp.opening, lastCall |-> acp.lastCall,
               pend |-> acp.pend, trips |-> acp.trips, answers |-> acp.answers]
    BY <1>1, AcpFields
  <2>2. QED BY <2>1
<1>3. x \in AnswerType /\ r \in Prompts /\ acp.answers \in [Prompts -> Seq(AnswerType)]
  <2>1. s \in StopWord /\ 0 \in Nat
    BY DEF StopWord
  <2>2. x \in AnswerType
    BY <2>1 DEF AnswerType
  <2>3. r \in 1 .. MaxPrompts
    BY <1>1
  <2>4. QED BY <1>1, <2>2, <2>3, PartTypes DEF Prompts
<1>4. <<x>> \in Seq(AnswerType) /\ Len(<<x>>) = 1 /\ <<x>> # <<>>
  BY <1>3
<1> HIDE DEF x
<1>5. v \in [Prompts -> Seq(AnswerType)] /\ v[r] = <<x>> /\ \A y \in Prompts : y # r => v[y] = acp.answers[y]
  BY <1>3, <1>4
<1> HIDE DEF v
<1>6. b \in AcpType
  BY <1>1, <1>5, AcpFields DEF AcpType
<1>7. /\ acp'.opening = acp.opening /\ acp'.lastCall = acp.lastCall /\ acp'.pend = acp.pend
      /\ acp'.trips = acp.trips /\ acp'.answers = v
  BY <1>2
<1>8. used' \in UsedType /\ used'.prompts = r
  <2>1. r \in 0 .. MaxPrompts
    BY <1>1
  <2>2. used' = [used EXCEPT !["prompts"] = used["prompts"] + 1]
    BY DEF Use
  <2>3. QED BY <1>1, <2>1, <2>2 DEF UsedType
<1>9. acp' \in AcpType
  BY <1>2, <1>6
<1> HIDE DEF b, r
<1>10. r = used.prompts + 1 /\ r \in Nat /\ used.prompts < r
  BY <1>1 DEF r
<1>11. TypeOK'
  BY <1>7, <1>8, <1>9 DEF ServerInv, TypeOK
<1>12. PendingIsCurrent'
  <2>1. ASSUME NEW y \in Prompts, y > r PROVE acp'.answers[y] = <<>>
    <3>1. y > used.prompts /\ y # r
      BY <1>1, <1>10, <2>1 DEF Prompts
    <3>2. acp.answers[y] = <<>>
      BY <3>1 DEF ServerInv, PendingIsCurrent
    <3>3. QED BY <1>5, <1>7, <3>1, <3>2
  <2>2. comm.prompt <= r
    BY <1>10, PartTypes DEF ServerInv, PendingIsCurrent
  <2>3. QED BY <1>7, <1>8, <2>1, <2>2 DEF ServerInv, PendingIsCurrent
<1>13. SessionAndChannels'
  BY <1>7 DEF ServerInv, SessionAndChannels
<1>14. acp.answers[r] = <<>> /\ acp.pend.id # r
  <2>1. acp.pend.id <= used.prompts
    BY <1>1, PartTypes DEF ServerInv, PendingIsCurrent, NoPrompt, Pending
  <2>2. QED BY <1>3, <1>10, <2>1, PartTypes DEF ServerInv, PendingIsCurrent
<1>15. AnswersGrow
  <2>1. AllowedAnswer(r, acp'.answers[r])
    <3>1. s \in StopWord /\ 0 \in Nat /\ 0 \in {0, r}
      BY DEF StopWord
    <3>2. acp'.answers[r] = <<[stop |-> s, turn |-> 0]>>
      BY <1>5, <1>7 DEF x
    <3>3. QED BY <1>14, <3>1, <3>2 DEF AllowedAnswer
  <2>2. QED BY <1>5, <1>7, <2>1 DEF AnswersGrow
<1>16. AnsweredOnce'
  <2>1. ASSUME NEW y \in Prompts
        PROVE  /\ Len(acp'.answers[y]) <= 1
               /\ acp'.pend.id = y => acp'.answers[y] = <<>>
               /\ y <= used'.prompts => acp'.answers[y] # <<>> \/ acp'.pend.id = y
    <3>1. CASE y = r
      <4>1. acp'.answers[y] = <<x>>
        BY <1>5, <1>7, <3>1
      <4>2. Len(acp'.answers[y]) <= 1 /\ acp'.answers[y] # <<>>
        <5>1. Len(acp'.answers[y]) = 1 /\ acp'.answers[y] # <<>>
          BY <1>4, <4>1, Zenon
        <5>2. \A z : z = 1 => z <= 1
          OBVIOUS
        <5>3. QED BY <5>1, <5>2, Zenon
      <4>3. acp'.pend.id # y
        BY <1>7, <1>14, <3>1
      <4>4. QED BY <4>2, <4>3
    <3>2. CASE y # r
      <4>1. acp'.answers[y] = acp.answers[y]
        BY <1>5, <1>7, <3>2
      <4>2. y <= r => y <= used.prompts
        BY <1>1, <1>10, <3>2 DEF Prompts
      <4>3. QED BY <1>7, <1>8, <4>1, <4>2 DEF ServerInv, AnsweredOnce
    <3>3. QED BY <3>1, <3>2
  <2>2. QED BY <2>1 DEF AnsweredOnce
<1>17. Stays /\ OwnAnswer'
  BY <1>1, <1>11, <1>15, AnswersStay DEF ServerInv
<1>18. TurnsInOrder' /\ LiveIsCurrent' /\ AnsweredGoesOn'
  <2>1. TurnsInOrder' /\ \A t \in Nat : Live(t)' => Live(t)
    BY DEF ServerInv, TurnsInOrder, Live
  <2>2. QED BY <1>7, <1>11, <1>17, <2>1, SameTurns DEF ServerInv
<1>19. TurnWillEnd' /\ CallsAreKnown' /\ PermissionNamesItsCall'
  <2>1. TurnWillEnd'
    BY DEF ServerInv, TurnWillEnd
  <2>2. QED BY <1>7, <2>1, SameCalls, SameTrips DEF ServerInv
<1>20. QED BY <1>11, <1>12, <1>13, <1>16, <1>17, <1>18, <1>19 DEF ServerInv

(* A request that starts a turn.                                           *)
LEMMA PromptStarts ==
  ASSUME ServerInv, used.prompts < MaxPrompts, Use("prompts"),
         comm.session, acp.pend = NoPrompt, comm.turn = "idle",
         acp' = [acp EXCEPT !.pend = Pending(used.prompts + 1)],
         comm' = [comm EXCEPT !.turn = "running", !.prompt = used.prompts + 1, !.restarted = FALSE],
         toExec' = Sent(<<ToExec("prompt", used.prompts + 1, TRUE)>>),
         UNCHANGED <<exec, toComm>>
  PROVE  ServerInv'
<1> DEFINE r == used.prompts + 1
           n == Pending(r)
           m == ToExec("prompt", r, TRUE)
           b == [state |-> acp.state, form |-> acp.form, opening |-> acp.opening, lastCall |-> acp.lastCall,
                 pend |-> n, trips |-> acp.trips, answers |-> acp.answers]
<1>1. /\ acp \in AcpType /\ comm \in CommType /\ used \in UsedType /\ used.prompts \in Nat /\ MaxPrompts \in Nat
      /\ comm.prompt \in Nat /\ toExec \in Seq(OrderMsg) /\ TypeOK
  BY PartTypes DEF ServerInv
<1>2. acp' = b
  <2>1. acp = [state |-> acp.state, form |-> acp.form, opening |-> acp.opening, lastCall |-> acp.lastCall,
               pend |-> acp.pend, trips |-> acp.trips, answers |-> acp.answers]
    BY <1>1, AcpFields
  <2>2. QED BY <2>1
<1>3. r \in Prompts /\ r \in 0 .. MaxPrompts /\ r \in Nat /\ comm.prompt < r /\ 0 < r
  <2>1. comm.prompt <= used.prompts
    BY DEF ServerInv, PendingIsCurrent
  <2>2. QED BY <1>1, <2>1 DEF Prompts
<1>4. n \in PendType /\ n.id = r /\ n # NoPrompt
  <2>1. n = [id |-> r, withError |-> FALSE, timer |-> FALSE]
    BY DEF Pending
  <2>2. NoPrompt.id = 0
    BY DEF NoPrompt, Pending
  <2>3. n.id = r
    BY <2>1
  <2>4. n \in PendType
    <3>1. ASSUME NEW i \in 0 .. MaxPrompts PROVE Pending(i) \in PendType
      BY DEF Pending, PendType
    <3>2. QED BY <1>3, <3>1
  <2>5. r # 0
    BY <1>3
  <2>6. n # NoPrompt
    BY <2>2, <2>3, <2>5
  <2> HIDE DEF n
  <2>7. QED BY <2>3, <2>4, <2>6
<1>5. m \in OrderMsg /\ IsPrompt(m) /\ m.rid = r
  BY <1>3 DEF OrderMsg, ToExec, IsPrompt
<1>6. comm' \in CommType /\ comm'.turn = "running" /\ comm'.prompt = r /\ comm'.session
      /\ comm'.stalled = comm.stalled /\ comm'.noFinish = comm.noFinish
  BY <1>1, <1>3 DEF CommType
<1>7. used' \in UsedType /\ used'.prompts = r
  <2>1. used' = [used EXCEPT !["prompts"] = used["prompts"] + 1]
    BY DEF Use
  <2>2. QED BY <1>1, <1>3, <2>1 DEF UsedType
<1>8. toExec' = Sent(<<m>>)
  OBVIOUS
<1> HIDE DEF n, m
<1>9. b \in AcpType
  BY <1>1, <1>4, AcpFields DEF AcpType
<1>10. /\ acp' \in AcpType /\ acp'.opening = acp.opening /\ acp'.lastCall = acp.lastCall /\ acp'.pend = n
       /\ acp'.trips = acp.trips /\ acp'.answers = acp.answers
  <2>1. /\ b.opening = acp.opening /\ b.lastCall = acp.lastCall /\ b.pend = n
        /\ b.trips = acp.trips /\ b.answers = acp.answers
    OBVIOUS
  <2> HIDE DEF b
  <2>2. QED BY <1>2, <1>9, <2>1
<1> HIDE DEF b, r
<1>11. /\ toExec' \in Seq(OrderMsg)
       /\ Ordered(toComm, exec.turn, toExec', r)
       /\ \A t \in Nat : LiveIn(toComm, exec.turn, toExec', t) => Live(t) \/ t = r
       /\ exec.up => \E j \in 1 .. Len(toExec') : IsPrompt(toExec'[j])
       /\ ~exec.up => toExec' = toExec
  <2>1. CASE exec.up
    <3>1. toExec' = Append(toExec, m)
      BY <1>1, <1>5, <1>8, <2>1, AppendIsConcat DEF Sent
    <3>2. /\ Append(toExec, m) \in Seq(OrderMsg) /\ Len(toExec) \in Nat
          /\ Len(Append(toExec, m)) = Len(toExec) + 1 /\ Append(toExec, m)[Len(toExec) + 1] = m
      BY <1>1, <1>5, AppendFacts
    <3>3. Len(toExec) + 1 \in 1 .. Len(Append(toExec, m))
      BY <3>2
    <3>4. Ordered(toComm, exec.turn, toExec, comm.prompt) /\ comm.prompt < m.rid
      BY <1>3, <1>5 DEF ServerInv, TurnsInOrder
    <3>5. /\ Ordered(toComm, exec.turn, Append(toExec, m), m.rid)
          /\ \A t \in Nat : LiveIn(toComm, exec.turn, Append(toExec, m), t)
                              => LiveIn(toComm, exec.turn, toExec, t) \/ t = m.rid
      BY <1>5, <3>4, PromptSent
    <3>6. QED BY <1>5, <2>1, <3>1, <3>2, <3>3, <3>5 DEF Live
  <2>2. CASE ~exec.up
    <3>1. toExec' = toExec /\ toExec = <<>> /\ toComm = <<>> /\ exec.turn = 0
      BY <1>8, <2>2 DEF Sent, ServerInv, SessionAndChannels
    <3>2. toExec \in Seq(OrderMsg) /\ toComm \in Seq(EventMsg) /\ Len(toExec) = 0 /\ Len(toComm) = 0
      BY <3>1, EmptySeq
    <3>3. Ordered(toComm, exec.turn, toExec, r)
      BY <1>3, <3>1, <3>2 DEF Ordered
    <3>4. QED BY <2>2, <3>1, <3>2, <3>3 DEF Live
  <2>3. QED BY <2>1, <2>2
<1>12. TypeOK'
  BY <1>6, <1>7, <1>10, <1>11 DEF ServerInv, TypeOK
<1>13. PendingIsCurrent'
  <2>1. ASSUME NEW y \in Prompts, y > r PROVE acp'.answers[y] = <<>>
    <3>1. y > used.prompts
      BY <1>1, <2>1 DEF r, Prompts
    <3>2. QED BY <1>10, <3>1 DEF ServerInv, PendingIsCurrent
  <2>2. acp'.pend.id = r /\ comm'.prompt = r /\ comm'.turn # "idle" /\ r <= r /\ r # 0
    BY <1>3, <1>4, <1>6, <1>10
  <2>3. QED BY <1>3, <1>7, <2>1, <2>2 DEF PendingIsCurrent
<1>14. SessionAndChannels'
  BY <1>6, <1>10, <1>11 DEF ServerInv, SessionAndChannels
<1>15. AnswersGrow /\ AnsweredOnce'
  <2>1. AnswersGrow
    BY <1>10 DEF AnswersGrow
  <2>2. ASSUME NEW y \in Prompts
        PROVE  /\ Len(acp'.answers[y]) <= 1
               /\ acp'.pend.id = y => acp'.answers[y] = <<>>
               /\ y <= used'.prompts => acp'.answers[y] # <<>> \/ acp'.pend.id = y
    <3>1. Len(acp'.answers[y]) <= 1
      BY <1>10 DEF ServerInv, AnsweredOnce
    <3>2. acp.answers[r] = <<>>
      BY <1>1, <1>3 DEF r, ServerInv, PendingIsCurrent
    <3>3. acp'.pend.id = r
      BY <1>4, <1>10
    <3>4. ASSUME y # r, y <= r PROVE acp.answers[y] # <<>>
      <4>1. y <= used.prompts /\ acp.pend.id # y
        BY <1>1, <3>4 DEF r, Prompts, NoPrompt, Pending
      <4>2. QED BY <4>1 DEF ServerInv, AnsweredOnce
    <3>5. QED BY <1>7, <1>10, <3>1, <3>2, <3>3, <3>4
  <2>3. QED BY <2>1, <2>2 DEF AnsweredOnce
<1>16. Stays /\ OwnAnswer'
  BY <1>1, <1>6, <1>12, <1>15, AnswersStay DEF ServerInv
<1>17. TurnsInOrder' /\ \A t \in Nat : Live(t)' => Live(t) \/ t = r
  BY <1>6, <1>11 DEF TurnsInOrder, Live
<1>18. LiveIsCurrent'
  <2>1. ASSUME NEW t \in Nat, Live(t)' PROVE (comm'.turn # "idle" /\ t = comm'.prompt) \/ (t \in Prompts /\ Unanswering(t)')
    <3>1. CASE t = r
      BY <1>6, <3>1
    <3>2. CASE Live(t)
      <4>1. t \in Prompts /\ Unanswering(t)
        BY <3>2 DEF ServerInv, LiveIsCurrent
      <4>2. QED BY <1>16, <4>1 DEF Stays
    <3>3. QED BY <1>17, <2>1, <3>1, <3>2
  <2>2. QED BY <2>1 DEF LiveIsCurrent
<1>19. AnsweredGoesOn'
  BY <1>4, <1>10 DEF AnsweredGoesOn
<1>20. TurnWillEnd'
  BY <1>11 DEF TurnWillEnd
<1>21. CallsAreKnown' /\ PermissionNamesItsCall'
  BY <1>10, SameCalls, SameTrips DEF ServerInv
<1>22. QED BY <1>12, <1>13, <1>14, <1>15, <1>16, <1>17, <1>18, <1>19, <1>20, <1>21 DEF ServerInv

(* session/prompt.                                                         *)
LEMMA HandleSessionPromptStep ==
  ASSUME ServerInv, NEW kind \in {"text", "builtin", "malformed"}, HandleSessionPrompt(kind)
  PROVE  ServerInv'
<1> DEFINE refused == ~Routed \/ ~comm.session \/ acp.pend # NoPrompt \/ comm.turn # "idle" \/ ~HasText(kind)
           s == IF refused THEN "error" ELSE "end"
<1>1. CASE refused \/ kind = "builtin"
  <2>1. s \in {"error", "end"}
    OBVIOUS
  <2>2. /\ used.prompts < MaxPrompts /\ Use("prompts")
        /\ acp' = [acp EXCEPT !.answers[used.prompts + 1] = <<[stop |-> s, turn |-> 0]>>]
        /\ UNCHANGED <<comm, exec, toExec, toComm>>
    BY <1>1 DEF HandleSessionPrompt
  <2> HIDE DEF s
  <2>3. QED BY <2>1, <2>2, AnsweredAtOnce
<1>2. CASE ~(refused \/ kind = "builtin")
  <2>1. /\ used.prompts < MaxPrompts /\ Use("prompts")
        /\ acp' = [acp EXCEPT !.pend = Pending(used.prompts + 1)]
        /\ comm' = [comm EXCEPT !.turn = "running", !.prompt = used.prompts + 1, !.restarted = FALSE]
        /\ toExec' = Sent(<<ToExec("prompt", used.prompts + 1, TRUE)>>)
        /\ UNCHANGED <<exec, toComm>>
    BY <1>2 DEF HandleSessionPrompt
  <2>2. comm.session /\ acp.pend = NoPrompt /\ comm.turn = "idle"
    BY <1>2
  <2>3. QED BY <2>1, <2>2, PromptStarts
<1>3. QED BY <1>1, <1>2

(* What a broker tells the Executor starts no turn.                        *)
LEMMA DecisionFacts ==
  ASSUME NEW trip \in TripType, NEW yes \in BOOLEAN
  PROVE  Decision(trip, yes) \in OrderMsg /\ ~IsPrompt(Decision(trip, yes))
<1>1. trip.rid \in Nat /\ trip.kind \in Kinds
  BY DEF TripType
<1>2. ContinueDecision(yes) \in OrderMsg /\ ~IsPrompt(ContinueDecision(yes))
  BY DEF ContinueDecision, ToExec, OrderMsg, IsPrompt
<1>3. PermissionDecision(trip.rid, yes) \in OrderMsg /\ ~IsPrompt(PermissionDecision(trip.rid, yes))
  BY <1>1 DEF PermissionDecision, ToExec, OrderMsg, IsPrompt
<1>4. ElicitationAnswer(trip.rid) \in OrderMsg /\ ~IsPrompt(ElicitationAnswer(trip.rid))
  BY <1>1 DEF ElicitationAnswer, ToExec, OrderMsg, IsPrompt
<1>5. CASE trip.kind = "continue" BY <1>2, <1>5 DEF Decision
<1>6. CASE trip.kind = "pending" BY <1>3, <1>6 DEF Decision
<1>7. CASE trip.kind = "question" BY <1>4, <1>7 DEF Decision
<1>8. QED BY <1>1, <1>5, <1>6, <1>7 DEF Kinds

(* A decision goes on with a turn, and neither starts nor ends one.        *)
LEMMA AfterDecisionFacts ==
  ASSUME comm \in CommType, NEW kinds, comm' = [comm EXCEPT !.turn = AfterDecision(kinds)]
  PROVE  /\ comm' \in CommType /\ comm'.prompt = comm.prompt /\ comm'.session = comm.session
         /\ comm'.stalled = comm.stalled /\ comm'.noFinish = comm.noFinish
         /\ (comm'.turn = "idle") <=> (comm.turn = "idle")
<1>1. /\ AfterDecision(kinds) \in {"idle", "running", "waiting"}
      /\ (AfterDecision(kinds) = "idle") <=> (comm.turn = "idle")
  BY DEF AfterDecision, CommType
<1> DEFINE a == AfterDecision(kinds)
<1>2. a \in {"idle", "running", "waiting"} /\ ((a = "idle") <=> (comm.turn = "idle")) /\ comm' = [comm EXCEPT !.turn = a]
  BY <1>1
<1> HIDE DEF a
<1>3. QED BY <1>2 DEF CommType

(* The Executor is told something in the middle of a turn.                 *)
LEMMA TellStep ==
  ASSUME ServerInv, TypeOK', NEW ms \in Seq(OrderMsg), \A j \in 1 .. Len(ms) : ~IsPrompt(ms[j]),
         toExec' = Sent(ms), acp'.opening = acp.opening, acp'.lastCall = acp.lastCall,
         acp'.answers = acp.answers, acp'.trips \subseteq acp.trips,
         acp'.pend.id = acp.pend.id, (acp'.pend = NoPrompt) <=> (acp.pend = NoPrompt),
         comm'.prompt = comm.prompt, comm'.session = comm.session, comm'.stalled = comm.stalled,
         comm'.noFinish = comm.noFinish, (comm'.turn = "idle") <=> (comm.turn = "idle"),
         UNCHANGED <<exec, toComm>>, used'.prompts = used.prompts
  PROVE  ServerInv'
<1> USE DEF ServerInv
<1>1. /\ toExec' \in Seq(OrderMsg)
      /\ ~exec.up => toExec' = toExec
      /\ Ordered(toComm, exec.turn, toExec', comm.prompt)
      /\ \A t \in Nat : LiveIn(toComm, exec.turn, toExec', t) => Live(t)
      /\ \A j \in 1 .. Len(toExec) : j \in 1 .. Len(toExec') /\ toExec'[j] = toExec[j]
  BY SentFacts
<1>2. PendingIsCurrent'
  BY DEF PendingIsCurrent
<1>3. SessionAndChannels'
  BY <1>1 DEF SessionAndChannels
<1>4. AnsweredOnce' /\ AnswersGrow
  BY NoAnswerGiven
<1>5. Stays /\ OwnAnswer'
  BY <1>4, AnswersStay
<1>6. TurnsInOrder' /\ \A t \in Nat : Live(t)' => Live(t)
  BY <1>1 DEF TurnsInOrder, Live
<1>7. LiveIsCurrent' /\ AnsweredGoesOn'
  BY <1>5, <1>6, SameTurns
<1>8. TurnWillEnd'
  BY <1>1, StillEnds
<1>9. CallsAreKnown' /\ PermissionNamesItsCall'
  BY SameCalls, SameTrips
<1>10. QED BY <1>2, <1>3, <1>4, <1>5, <1>6, <1>7, <1>8, <1>9

(* The client answers one of the Executor's questions.                     *)
LEMMA ClientRespondsStep ==
  ASSUME ServerInv, NEW trip \in acp.trips, NEW allow \in BOOLEAN, ClientResponds(trip, allow)
  PROVE  ServerInv'
<1> DEFINE left == acp.trips \ {trip}
           b == [state |-> acp.state, form |-> acp.form, opening |-> acp.opening, lastCall |-> acp.lastCall,
                 pend |-> acp.pend, trips |-> left, answers |-> acp.answers]
           d == Decision(trip, allow)
<1>1. /\ acp \in AcpType /\ comm \in CommType /\ IsFiniteSet(acp.trips) /\ acp.trips \in SUBSET TripType
  BY PartTypes DEF ServerInv, TypeOK
<1>2. left \in SUBSET TripType /\ left \subseteq acp.trips /\ IsFiniteSet(left)
  BY <1>1, FS_Subset
<1>3. acp' = b
  <2>1. acp = [state |-> acp.state, form |-> acp.form, opening |-> acp.opening, lastCall |-> acp.lastCall,
               pend |-> acp.pend, trips |-> acp.trips, answers |-> acp.answers]
    BY <1>1, AcpFields
  <2>2. acp' = [acp EXCEPT !.trips = left]
    BY DEF ClientResponds
  <2>3. QED BY <2>1, <2>2
<1> HIDE DEF left
<1>4. b \in AcpType
  BY <1>1, <1>2, AcpFields DEF AcpType
<1>5. acp' \in AcpType /\ acp'.opening = acp.opening /\ acp'.lastCall = acp.lastCall /\ acp'.pend = acp.pend
      /\ acp'.trips = left /\ acp'.answers = acp.answers
  <2>1. b.opening = acp.opening /\ b.lastCall = acp.lastCall /\ b.pend = acp.pend
        /\ b.trips = left /\ b.answers = acp.answers
    OBVIOUS
  <2> HIDE DEF b
  <2>2. QED BY <1>3, <1>4, <2>1
<1> HIDE DEF b
<1>6. d \in OrderMsg /\ ~IsPrompt(d)
  BY <1>1, DecisionFacts
<1>7. toExec' = Sent(<<d>>) /\ comm' = [comm EXCEPT !.turn = AfterDecision({trip.kind})]
      /\ UNCHANGED <<exec, toComm, used>>
  BY DEF ClientResponds
<1> HIDE DEF d
<1>8. <<d>> \in Seq(OrderMsg) /\ \A j \in 1 .. Len(<<d>>) : ~IsPrompt(<<d>>[j])
  <2>1. Len(<<d>>) = 1 /\ <<d>>[1] = d /\ <<d>> \in Seq(OrderMsg)
    BY <1>6
  <2>2. \A j \in 1 .. 1 : j = 1
    OBVIOUS
  <2>3. QED BY <1>6, <2>1, <2>2
<1>9. /\ comm' \in CommType /\ comm'.prompt = comm.prompt /\ comm'.session = comm.session
      /\ comm'.stalled = comm.stalled /\ comm'.noFinish = comm.noFinish
      /\ (comm'.turn = "idle") <=> (comm.turn = "idle")
  BY <1>1, <1>7, AfterDecisionFacts
<1>10. TypeOK'
  <2>1. toExec' \in Seq(OrderMsg)
    BY <1>7, <1>8, SentFacts DEF ServerInv
  <2>2. QED BY <1>2, <1>5, <1>7, <1>9, <2>1 DEF ServerInv, TypeOK
<1>11. QED BY <1>2, <1>5, <1>7, <1>8, <1>9, <1>10, TellStep

(* session/cancel and $/cancel_request.                                    *)
LEMMA StartCancelStep ==
  ASSUME ServerInv, NEW withError \in BOOLEAN, StartCancel(withError), acp.pend # NoPrompt, Use("cancels")
  PROVE  ServerInv'
<1> DEFINE n == [id |-> acp.pend.id, withError |-> withError, timer |-> TRUE]
           b == [state |-> acp.state, form |-> acp.form, opening |-> acp.opening, lastCall |-> acp.lastCall,
                 pend |-> n, trips |-> {}, answers |-> acp.answers]
<1>1. /\ acp \in AcpType /\ comm \in CommType /\ used \in UsedType /\ acp.trips \in SUBSET TripType
      /\ acp.pend \in PendType /\ acp.pend.id \in 0 .. MaxPrompts /\ TypeOK
  BY PartTypes DEF ServerInv
<1>2. acp' = b
  <2>1. acp = [state |-> acp.state, form |-> acp.form, opening |-> acp.opening, lastCall |-> acp.lastCall,
               pend |-> acp.pend, trips |-> acp.trips, answers |-> acp.answers]
    BY <1>1, AcpFields
  <2>2. acp.pend = [id |-> acp.pend.id, withError |-> acp.pend.withError, timer |-> acp.pend.timer]
    BY <1>1 DEF PendType
  <2>3. acp' = [acp EXCEPT !.pend.withError = withError, !.pend.timer = TRUE, !.trips = {}]
    BY DEF StartCancel
  <2>4. QED BY <2>1, <2>2, <2>3
<1>3. n \in PendType /\ n.id = acp.pend.id
  BY <1>1 DEF PendType
<1>4. n # NoPrompt
  BY <1>3, NoPromptIsZero DEF ServerInv, PendingIsCurrent
<1> HIDE DEF n
<1>5. b \in AcpType
  BY <1>1, <1>3, AcpFields DEF AcpType
<1>6. acp' \in AcpType /\ acp'.opening = acp.opening /\ acp'.lastCall = acp.lastCall /\ acp'.pend = n
      /\ acp'.trips = {} /\ acp'.answers = acp.answers
  <2>1. b.opening = acp.opening /\ b.lastCall = acp.lastCall /\ b.pend = n
        /\ b.trips = {} /\ b.answers = acp.answers
    OBVIOUS
  <2> HIDE DEF b
  <2>2. QED BY <1>2, <1>5, <2>1
<1> HIDE DEF b
<1>7. PICK order \in TripOrders : toExec' = Sent(<<ToExec("cancel", 0, TRUE)>> \o CancelledTrips(order))
  BY DEF StartCancel
<1> DEFINE c == ToExec("cancel", 0, TRUE)
           ds == CancelledTrips(order)
           ms == <<c>> \o ds
<1>8. c \in OrderMsg /\ ~IsPrompt(c)
  BY DEF ToExec, OrderMsg, IsPrompt
<1>9. ds \in Seq(OrderMsg) /\ \A j \in 1 .. Len(ds) : ~IsPrompt(ds[j])
  <2>1. order \in [1 .. Cardinality(acp.trips) -> acp.trips] /\ Cardinality(acp.trips) \in Nat
    BY FS_CardinalityType DEF TripOrders, ServerInv, TypeOK
  <2>2. \A i \in 1 .. Cardinality(acp.trips) :
           Decision(order[i], FALSE) \in OrderMsg /\ ~IsPrompt(Decision(order[i], FALSE))
    BY <1>1, <2>1, DecisionFacts
  <2> DEFINE k == Cardinality(acp.trips)
  <2>3. ds = [i \in 1 .. k |-> Decision(order[i], FALSE)]
    BY <2>1 DEF CancelledTrips
  <2>4. k \in Nat /\ \A i \in 1 .. k : Decision(order[i], FALSE) \in OrderMsg /\ ~IsPrompt(Decision(order[i], FALSE))
    BY <2>1, <2>2
  <2> HIDE DEF k, ds
  <2>5. ds \in [1 .. k -> OrderMsg] /\ \A i \in 1 .. k : ~IsPrompt(ds[i])
    BY <2>3, <2>4
  <2>6. ds \in Seq(OrderMsg) /\ Len(ds) = k
    BY <2>4, <2>5, SeqDef, LenProperties
  <2>7. QED BY <2>5, <2>6
<1> HIDE DEF c, ds
<1>10. ms \in Seq(OrderMsg) /\ \A j \in 1 .. Len(ms) : ~IsPrompt(ms[j])
  <2>1. <<c>> \in Seq(OrderMsg) /\ Len(<<c>>) = 1 /\ <<c>>[1] = c
    BY <1>8
  <2> DEFINE q == <<c>>
  <2>2. q \in Seq(OrderMsg) /\ Len(q) = 1 /\ q[1] = c
    BY <2>1
  <2>3. ms = q \o ds
    OBVIOUS
  <2> HIDE DEF q, ms
  <2>4. /\ q \o ds \in Seq(OrderMsg)
        /\ \A i \in 1 .. Len(q) : (q \o ds)[i] = q[i]
        /\ \A i \in 1 .. Len(q \o ds) : i > Len(q) => (q \o ds)[i] = ds[i - Len(q)] /\ i - Len(q) \in 1 .. Len(ds)
    BY <1>9, <2>2, ConcatFacts
  <2>5. ASSUME NEW j \in 1 .. Len(q \o ds) PROVE ~IsPrompt((q \o ds)[j])
    <3>1. CASE j > 1
      BY <1>9, <2>2, <2>4, <3>1
    <3>2. CASE ~(j > 1)
      <4>1. j = 1 /\ 1 \in 1 .. Len(q)
        BY <2>2, <3>2
      <4>2. QED BY <1>8, <2>2, <2>4, <4>1
    <3>3. QED BY <3>1, <3>2
  <2>6. QED BY <2>3, <2>4, <2>5
<1>11. toExec' = Sent(ms)
  BY <1>7 DEF c, ds
<1> HIDE DEF ms
<1>12. /\ comm' \in CommType /\ comm'.prompt = comm.prompt /\ comm'.session = comm.session
       /\ comm'.stalled = comm.stalled /\ comm'.noFinish = comm.noFinish
       /\ (comm'.turn = "idle") <=> (comm.turn = "idle")
  BY <1>1, AfterDecisionFacts DEF StartCancel
<1>13. UNCHANGED <<exec, toComm>> /\ used' \in UsedType /\ used'.prompts = used.prompts
  BY <1>1, UseFacts DEF StartCancel
<1>14. TypeOK'
  <2>1. toExec' \in Seq(OrderMsg)
    BY <1>10, <1>11, SentFacts DEF ServerInv
  <2>2. IsFiniteSet(acp'.trips)
    BY <1>6, FS_EmptySet
  <2>3. QED BY <1>6, <1>12, <1>13, <2>1, <2>2 DEF ServerInv, TypeOK
<1>15. acp'.pend.id = acp.pend.id /\ acp'.trips \subseteq acp.trips /\ ((acp'.pend = NoPrompt) <=> (acp.pend = NoPrompt))
  BY <1>3, <1>4, <1>6
<1>16. QED BY <1>6, <1>10, <1>11, <1>12, <1>13, <1>14, <1>15, TellStep

-----------------------------------------------------------------------------
(* Tool calls and the questions about them.                                *)
IsCall(m) == m.type = "tool_call_requested"
AsksAboutCall(m) == m.type = "ask_user" /\ m.stop = "pending"

(* The first message is taken.                                             *)
LEMMA CallsTaken ==
  ASSUME NEW q \in Seq(EventMsg), q # <<>>, NEW call \in Nat, NEW known \in Nat,
         CallsInOrder(q, call), AsksAfterCalls(q, known)
  PROVE  /\ CallsInOrder(Tail(q), call) /\ AsksAfterCalls(Tail(q), known)
         /\ NoCall(q) => NoCall(Tail(q)) /\ ~IsCall(Head(q))
         /\ IsCall(Head(q)) => /\ \A l \in Nat : AsksAfterCalls(Tail(q), l)
                               /\ Head(q).rid = call => NoCall(Tail(q))
         /\ AsksAboutCall(Head(q)) => Head(q).rid = known
<1> DEFINE r == Tail(q)
<1>1. /\ r \in Seq(EventMsg) /\ Head(q) = q[1]
      /\ Len(q) \in Nat \ {0} /\ Len(r) = Len(q) - 1
      /\ \A i \in 1 .. Len(q) - 1 : r[i] = q[i + 1]
  BY TailFacts
<1> HIDE DEF r
<1>2. 1 \in 1 .. Len(q) /\ \A i \in 1 .. Len(r) : i \in Nat /\ i + 1 \in 1 .. Len(q) /\ 1 < i + 1 /\ r[i] = q[i + 1]
  BY <1>1
<1>3. CallsInOrder(r, call)
  <2>1. \A i, k \in 1 .. Len(r) : i < k => i + 1 < k + 1
    BY <1>2
  <2>2. QED BY <1>2, <2>1 DEF CallsInOrder
<1>4. AsksAfterCalls(r, known)
  <2>1. ASSUME NEW i \in 1 .. Len(r), r[i].type = "ask_user", r[i].stop = "pending"
        PROVE  r[i].rid = known /\ \A k \in 1 .. i : r[k].type # "tool_call_requested"
    <3>1. q[i + 1].rid = known /\ \A k \in 1 .. i + 1 : q[k].type # "tool_call_requested"
      BY <1>2, <2>1 DEF AsksAfterCalls
    <3>2. \A k \in 1 .. i : k \in 1 .. Len(r) /\ k + 1 \in 1 .. i + 1
      BY <1>1
    <3>3. QED BY <1>2, <3>1, <3>2
  <2>2. QED BY <2>1 DEF AsksAfterCalls
<1>5. NoCall(q) => NoCall(r) /\ ~IsCall(Head(q))
  BY <1>1, <1>2 DEF NoCall, IsCall
<1>6. ASSUME IsCall(Head(q)), NEW l \in Nat PROVE AsksAfterCalls(r, l)
  <2>1. ASSUME NEW i \in 1 .. Len(r), r[i].type = "ask_user", r[i].stop = "pending" PROVE FALSE
    <3>1. \A k \in 1 .. i + 1 : q[k].type # "tool_call_requested"
      BY <1>2, <2>1 DEF AsksAfterCalls
    <3>2. 1 \in 1 .. i + 1
      BY <1>2
    <3>3. QED BY <1>1, <1>6, <3>1, <3>2 DEF IsCall
  <2>2. QED BY <2>1 DEF AsksAfterCalls
<1>7. ASSUME IsCall(Head(q)), Head(q).rid = call PROVE NoCall(r)
  <2>1. ASSUME NEW i \in 1 .. Len(r), r[i].type = "tool_call_requested" PROVE FALSE
    <3>1. q[i + 1].type = "tool_call_requested" /\ q[1].type = "tool_call_requested" /\ q[1].rid = call
      BY <1>1, <1>2, <1>7, <2>1 DEF IsCall
    <3>2. q[i + 1].rid <= call /\ q[1].rid < q[i + 1].rid
      BY <1>2, <3>1 DEF CallsInOrder
    <3>3. q[i + 1].rid \in Nat
      <4>1. q[i + 1] \in EventMsg
        BY <1>2, ElementOfSeq
      <4>2. \A m \in EventMsg : m.rid \in Nat
        BY DEF EventMsg
      <4>3. QED BY <4>1, <4>2
    <3>4. QED BY <3>1, <3>2, <3>3
  <2>2. QED BY <2>1 DEF NoCall
<1>8. AsksAboutCall(Head(q)) => Head(q).rid = known
  BY <1>1, <1>2 DEF AsksAfterCalls, AsksAboutCall
<1>9. QED BY <1>3, <1>4, <1>5, <1>6, <1>7, <1>8 DEF r

(* A message is sent: one of another kind, the next call, or a question     *)
(* about the call the server has heard of last.                            *)
LEMMA CallsSent ==
  ASSUME NEW q \in Seq(EventMsg), NEW m \in EventMsg, NEW call \in Nat, NEW known \in Nat,
         CallsInOrder(q, call), AsksAfterCalls(q, known)
  PROVE  /\ ~IsCall(m) => CallsInOrder(Append(q, m), call)
         /\ IsCall(m) /\ m.rid = call + 1 => CallsInOrder(Append(q, m), call + 1)
         /\ ~AsksAboutCall(m) => AsksAfterCalls(Append(q, m), known)
         /\ AsksAboutCall(m) /\ m.rid = known /\ NoCall(q) => AsksAfterCalls(Append(q, m), known)
         /\ NoCall(q) /\ ~IsCall(m) => NoCall(Append(q, m))
<1> DEFINE r == Append(q, m)
<1>1. /\ Len(q) \in Nat /\ Len(r) = Len(q) + 1
      /\ r[Len(q) + 1] = m
      /\ \A i \in 1 .. Len(q) : r[i] = q[i]
  BY AppendFacts
<1> HIDE DEF r
<1>2. \A i \in 1 .. Len(r) : (i = Len(q) + 1 /\ r[i] = m) \/ (i \in 1 .. Len(q) /\ r[i] = q[i])
  BY <1>1
<1>3. \A i, k \in 1 .. Len(r) : i < k => i \in 1 .. Len(q) /\ r[i] = q[i]
  BY <1>1
<1>4. ASSUME ~IsCall(m) PROVE CallsInOrder(r, call)
  <2>1. \A i \in 1 .. Len(r) : r[i].type = "tool_call_requested" => i \in 1 .. Len(q) /\ r[i] = q[i]
    BY <1>2, <1>4 DEF IsCall
  <2>2. QED BY <2>1 DEF CallsInOrder
<1>5. ASSUME IsCall(m), m.rid = call + 1 PROVE CallsInOrder(r, call + 1)
  <2>1. \A i \in 1 .. Len(q) : q[i].type = "tool_call_requested" => q[i].rid <= call /\ q[i].rid < call + 1
    <3>1. ASSUME NEW i \in 1 .. Len(q) PROVE q[i].rid \in Nat
      <4>1. q[i] \in EventMsg
        BY ElementOfSeq
      <4>2. \A x \in EventMsg : x.rid \in Nat
        BY DEF EventMsg
      <4>3. QED BY <4>1, <4>2
    <3>2. QED BY <3>1 DEF CallsInOrder
  <2>2. \A i \in 1 .. Len(r) : r[i].type = "tool_call_requested" => r[i].rid <= call + 1
    <3>1. ASSUME NEW i \in 1 .. Len(r), r[i].type = "tool_call_requested" PROVE r[i].rid <= call + 1
      <4>1. CASE i = Len(q) + 1 /\ r[i] = m
        <5>1. r[i].rid = call + 1 /\ call + 1 \in Nat BY <1>5, <4>1
        <5>2. QED BY <5>1
      <4>2. CASE i \in 1 .. Len(q) /\ r[i] = q[i]
        <5>1. q[i].rid <= call /\ q[i].rid \in Nat
          <6>1. q[i] \in EventMsg
            BY <4>2, ElementOfSeq
          <6>2. \A x \in EventMsg : x.rid \in Nat
            BY DEF EventMsg
          <6>3. QED BY <2>1, <3>1, <4>2, <6>1, <6>2
        <5>2. QED BY <4>2, <5>1
      <4>3. QED BY <1>2, <4>1, <4>2
    <3>2. QED BY <3>1
  <2>3. ASSUME NEW i \in 1 .. Len(r), NEW k \in 1 .. Len(r), i < k,
               r[i].type = "tool_call_requested", r[k].type = "tool_call_requested"
        PROVE  r[i].rid < r[k].rid
    <3>1. i \in 1 .. Len(q) /\ r[i] = q[i]
      BY <1>3, <2>3
    <3>2. CASE k = Len(q) + 1 /\ r[k] = m
      BY <1>5, <2>1, <2>3, <3>1, <3>2
    <3>3. CASE k \in 1 .. Len(q) /\ r[k] = q[k]
      BY <2>3, <3>1, <3>3 DEF CallsInOrder
    <3>4. QED BY <1>2, <3>2, <3>3
  <2>4. QED BY <2>2, <2>3 DEF CallsInOrder
<1>6. ASSUME NEW i \in 1 .. Len(q), r[i].type = "ask_user", r[i].stop = "pending"
      PROVE  r[i].rid = known /\ \A k \in 1 .. i : r[k].type # "tool_call_requested"
  <2>1. q[i].rid = known /\ \A k \in 1 .. i : q[k].type # "tool_call_requested"
    BY <1>1, <1>6 DEF AsksAfterCalls
  <2>2. \A k \in 1 .. i : k \in 1 .. Len(q)
    BY <1>1
  <2>3. QED BY <1>1, <2>1, <2>2
<1>7. ASSUME ~AsksAboutCall(m) PROVE AsksAfterCalls(r, known)
  <2>1. \A i \in 1 .. Len(r) : r[i].type = "ask_user" /\ r[i].stop = "pending" => i \in 1 .. Len(q)
    BY <1>2, <1>7 DEF AsksAboutCall
  <2>2. QED BY <1>6, <2>1 DEF AsksAfterCalls
<1>8. ASSUME AsksAboutCall(m), m.rid = known, NoCall(q) PROVE AsksAfterCalls(r, known)
  <2>1. \A k \in 1 .. Len(r) : r[k].type # "tool_call_requested"
    BY <1>2, <1>8 DEF NoCall, AsksAboutCall
  <2>2. \A i \in 1 .. Len(r) : r[i].type = "ask_user" /\ r[i].stop = "pending" => r[i].rid = known
    BY <1>2, <1>6, <1>8
  <2>3. \A i \in 1 .. Len(r) : \A k \in 1 .. i : k \in 1 .. Len(r)
    BY <1>1
  <2>4. QED BY <2>1, <2>2, <2>3 DEF AsksAfterCalls
<1>9. NoCall(q) /\ ~IsCall(m) => NoCall(r)
  BY <1>2 DEF NoCall, IsCall
<1>10. QED BY <1>4, <1>5, <1>7, <1>8, <1>9 DEF r

-----------------------------------------------------------------------------
(* The end of a turn.                                                      *)

(* A cancel timer gives a turn up.                                         *)
LEMMA CancelTimerStep ==
  ASSUME ServerInv, CancelTimer
  PROVE  ServerInv'
<1> USE DEF ServerInv
<1> DEFINE e == Event("error", 0, "process", 0)
           b == OnEvent(acp, e)
           s == IF acp.pend.withError THEN "error" ELSE "cancelled"
           r == acp.pend.id
<1>1. /\ acp \in AcpType /\ comm \in CommType /\ comm.stalled \in SUBSET Nat /\ r \in 0 .. MaxPrompts
      /\ MaxPrompts \in Nat /\ TypeOK
  BY PartTypes
<1>2. e \in EventMsg /\ ~Ends(e) /\ e.type # "tool_call_requested"
  BY DEF EventMsg, Event, StopWord, Ends
<1>3. acp.pend # NoPrompt
  BY DEF CancelTimer, NoPrompt, Pending
<1>4. s \in StopWord /\ 0 \in Nat
  BY DEF StopWord
<1>5. acp' = Finish(b, s, 0)
  BY DEF CancelTimer
<1>6. comm' = [comm EXCEPT !.turn = "idle", !.stalled = comm.stalled \cup {r}]
      /\ UNCHANGED <<exec, toExec, toComm, used>>
  BY DEF CancelTimer
<1> HIDE DEF e, s
<1>7. b \in AcpType /\ SameServer(acp, b) /\ b.lastCall = acp.lastCall /\ Unanswered(acp, b)
  BY <1>1, <1>2, OnEventFacts
<1> HIDE DEF b
<1>8. acp' \in AcpType /\ Answered(b, acp', 0) /\ SameServer(b, acp') /\ acp'.lastCall = b.lastCall
  BY <1>4, <1>5, <1>7, FinishFacts
<1>9. Answered(acp, acp', 0) /\ acp'.opening = acp.opening /\ acp'.trips = acp.trips /\ acp'.lastCall = acp.lastCall
  BY <1>7, <1>8 DEF Answered, Unanswered, SameServer
<1>10. comm.prompt = r /\ r \in Prompts /\ r \in Nat
  <2>1. r # 0
    BY <1>3 DEF PendingIsCurrent
  <2>2. QED BY <1>1, <1>3, <2>1 DEF PendingIsCurrent, Prompts
<1> HIDE DEF r
<1>11. /\ comm' \in CommType /\ comm'.turn = "idle" /\ comm'.prompt = comm.prompt
       /\ comm'.stalled = comm.stalled \cup {r} /\ comm'.session = comm.session /\ comm'.noFinish = comm.noFinish
  <2>1. comm.stalled \cup {r} \in SUBSET Nat
    BY <1>1, <1>10
  <2> DEFINE w == comm.stalled \cup {r}
  <2>2. w \in SUBSET Nat /\ comm' = [comm EXCEPT !.turn = "idle", !.stalled = w]
    BY <1>6, <2>1
  <2> HIDE DEF w
  <2>3. comm' \in CommType /\ comm'.turn = "idle" /\ comm'.prompt = comm.prompt
        /\ comm'.stalled = w /\ comm'.session = comm.session /\ comm'.noFinish = comm.noFinish
    BY <1>1, <2>2 DEF CommType
  <2>4. QED BY <2>3 DEF w
<1>12. TypeOK'
  BY <1>6, <1>8, <1>9, <1>11 DEF TypeOK
<1>13. AnswersGrow /\ AnsweredOnce'
  BY <1>6, <1>9, PendingAnswered
<1>14. PendingIsCurrent'
  <2>1. acp'.pend = NoPrompt
    BY <1>9 DEF Answered
  <2>2. \A x \in Prompts : x > used.prompts => acp'.answers[x] = <<>>
    BY <1>9, LaterUnanswered
  <2>3. QED BY <1>6, <1>11, <2>1, <2>2 DEF PendingIsCurrent
<1>15. SessionAndChannels'
  BY <1>6, <1>9, <1>11 DEF SessionAndChannels
<1>16. Stays /\ OwnAnswer'
  BY <1>11, <1>12, <1>13, AnswersStay
<1>17. TurnsInOrder' /\ \A t \in Nat : Live(t)' => Live(t)
  BY <1>6, <1>11 DEF TurnsInOrder, Live
<1>18. LiveIsCurrent' /\ AnsweredGoesOn'
  <2>1. ASSUME NEW t \in Nat, Live(t) PROVE t \in Prompts /\ Unanswering(t)'
    <3>1. CASE t = comm.prompt
      BY <1>10, <1>11, <3>1 DEF Unanswering
    <3>2. CASE t # comm.prompt
      BY <1>16, <2>1, <3>2 DEF LiveIsCurrent, Stays
    <3>3. QED BY <3>1, <3>2
  <2>2. QED BY <1>11, <1>17, <2>1 DEF LiveIsCurrent, AnsweredGoesOn
<1>19. TurnWillEnd'
  BY <1>11 DEF TurnWillEnd
<1>20. CallsAreKnown' /\ PermissionNamesItsCall'
  BY <1>6, <1>9, SameCalls, SameTrips
<1>21. QED BY <1>12, <1>13, <1>14, <1>15, <1>16, <1>17, <1>18, <1>19, <1>20

(* The Communicator takes a message that is no turn's end, or is not       *)
(* appended: the Executor may get an answer, no prompt is answered.        *)
LEMMA TakeStep ==
  ASSUME ServerInv, TypeOK', toComm # <<>>, toComm' = Tail(toComm),
         Ends(Head(toComm)) => comm.turn = "idle", Head(toComm).type = "turn_finished" => comm.turn = "idle",
         acp'.opening = acp.opening, acp'.answers = acp.answers, acp'.pend = acp.pend,
         comm'.prompt = comm.prompt, comm'.session = comm.session, comm'.stalled = comm.stalled,
         comm'.noFinish = comm.noFinish, (comm'.turn = "idle") <=> (comm.turn = "idle"),
         exec'.up = exec.up, exec'.turn = exec.turn,
         NEW ms \in Seq(OrderMsg), \A j \in 1 .. Len(ms) : ~IsPrompt(ms[j]), toExec' = Sent(ms),
         used'.prompts = used.prompts, CallsAreKnown', PermissionNamesItsCall'
  PROVE  ServerInv'
<1> USE DEF ServerInv
<1>0. toComm \in Seq(EventMsg)
  BY PartTypes
<1>1. /\ toExec' \in Seq(OrderMsg)
      /\ ~exec.up => toExec' = toExec
      /\ Ordered(toComm, exec.turn, toExec', comm.prompt)
      /\ \A t \in Nat : LiveIn(toComm, exec.turn, toExec', t) => Live(t)
      /\ \A j \in 1 .. Len(toExec) : j \in 1 .. Len(toExec') /\ toExec'[j] = toExec[j]
  BY SentFacts
<1>2. /\ Ordered(Tail(toComm), exec.turn, toExec', comm.prompt)
      /\ \A t \in Nat : LiveIn(Tail(toComm), exec.turn, toExec', t) => LiveIn(toComm, exec.turn, toExec', t)
  BY <1>1, EventTaken
<1>3. PendingIsCurrent'
  BY DEF PendingIsCurrent
<1>4. SessionAndChannels'
  <2>1. exec.up
    BY DEF SessionAndChannels
  <2>2. QED BY <2>1 DEF SessionAndChannels
<1>5. AnsweredOnce' /\ AnswersGrow
  BY NoAnswerGiven
<1>6. Stays /\ OwnAnswer'
  BY <1>5, AnswersStay
<1>7. TurnsInOrder' /\ \A t \in Nat : Live(t)' => Live(t)
  BY <1>1, <1>2 DEF TurnsInOrder, Live
<1>8. LiveIsCurrent' /\ AnsweredGoesOn'
  BY <1>6, <1>7, SameTurns
<1>9. TurnWillEnd'
  <2>1. ASSUME comm'.turn # "idle", exec'.up, ~comm'.noFinish
        PROVE  \/ exec'.turn # 0
               \/ \E i \in 1 .. Len(toComm') : toComm'[i].type = "turn_finished"
               \/ \E j \in 1 .. Len(toExec') : IsPrompt(toExec'[j])
    <3>1. CASE exec.turn # 0
      BY <3>1
    <3>2. CASE \E i \in 1 .. Len(toComm) : toComm[i].type = "turn_finished"
      <4>1. PICK i \in 1 .. Len(toComm) : toComm[i].type = "turn_finished"
        BY <3>2
      <4>2. /\ Head(toComm) = toComm[1] /\ Len(toComm) \in Nat \ {0} /\ Len(toComm') = Len(toComm) - 1
            /\ \A k \in 1 .. Len(toComm) - 1 : toComm'[k] = toComm[k + 1]
        BY <1>0, TailFacts
      <4>3. i # 1
        BY <2>1, <4>1, <4>2
      <4>4. i - 1 \in 1 .. Len(toComm') /\ (i - 1) + 1 = i
        BY <4>2, <4>3
      <4>5. toComm'[i - 1] = toComm[i]
        BY <4>2, <4>4
      <4>6. QED BY <4>1, <4>4, <4>5
    <3>3. CASE \E j \in 1 .. Len(toExec) : IsPrompt(toExec[j])
      BY <1>1, <3>3
    <3>4. QED BY <2>1, <3>1, <3>2, <3>3 DEF TurnWillEnd
  <2>2. QED BY <2>1, Zenon DEF TurnWillEnd
<1>10. QED BY <1>3, <1>4, <1>5, <1>6, <1>7, <1>8, <1>9

-----------------------------------------------------------------------------
(* What the Communicator receives.                                         *)

(* An Executor that gets nothing.                                          *)
LEMMA NothingSent ==
  ASSUME TypeOK
  PROVE  <<>> \in Seq(OrderMsg) /\ Sent(<<>>) = toExec /\ \A j \in 1 .. Len(<<>>) : ~IsPrompt(<<>>[j])
<1>1. toExec \in Seq(OrderMsg) /\ toExec \o <<>> = toExec
  BY PartTypes, ConcatEmptySeq
<1>2. QED BY <1>1, EmptySeq DEF Sent

(* ask_user: a broker asks the client, or answers at once.                 *)
LEMMA AskReceived ==
  ASSUME ServerInv, toComm # <<>>, toComm' = Tail(toComm), Head(toComm).type = "ask_user",
         HandleAsk(Head(toComm)), UNCHANGED <<exec, used>>
  PROVE  ServerInv'
<1> USE DEF ServerInv
<1> DEFINE m == Head(toComm)
<1>1. /\ acp \in AcpType /\ comm \in CommType /\ IsFiniteSet(acp.trips) /\ acp.trips \in SUBSET TripType
      /\ acp.lastCall \in Nat /\ exec.call \in Nat /\ toComm \in Seq(EventMsg) /\ TypeOK
  BY PartTypes DEF TypeOK
<1>2. m \in EventMsg /\ Tail(toComm) \in Seq(EventMsg)
  BY <1>1, TailFacts
<1>3. m.type = "ask_user" /\ m.stop \in Kinds /\ m.rid \in Nat
  BY <1>2 DEF EventMsg
<1>4. HandleAsk(m)
  OBVIOUS
<1>5. AsksAboutCall(m) => m.rid = acp.lastCall
  BY <1>1, CallsTaken DEF CallsAreKnown
<1>6. CallsInOrder(Tail(toComm), exec.call) /\ AsksAfterCalls(Tail(toComm), acp.lastCall)
      /\ (NoCall(toComm) => NoCall(Tail(toComm)))
  BY <1>1, CallsTaken DEF CallsAreKnown
<1>7. ASSUME acp'.lastCall = acp.lastCall PROVE CallsAreKnown'
  BY <1>6, <1>7 DEF CallsAreKnown
<1>8. ~Ends(m) /\ m.type # "turn_finished"
  BY <1>3 DEF Ends
<1> HIDE DEF m
<1>9. CASE m.stop = "question" /\ ~acp.form
  <2> DEFINE d == ElicitationAnswer(m.rid)
  <2>1. toExec' = Sent(<<d>>) /\ UNCHANGED <<acp, comm>>
    BY <1>4, <1>9 DEF HandleAsk
  <2>2. d \in OrderMsg /\ ~IsPrompt(d)
    BY <1>3 DEF ElicitationAnswer, ToExec, OrderMsg, IsPrompt
  <2> HIDE DEF d
  <2>3. <<d>> \in Seq(OrderMsg) /\ \A j \in 1 .. Len(<<d>>) : ~IsPrompt(<<d>>[j])
    <3>1. Len(<<d>>) = 1 /\ <<d>>[1] = d /\ <<d>> \in Seq(OrderMsg)
      BY <2>2
    <3>2. \A j \in 1 .. 1 : j = 1
      OBVIOUS
    <3>3. QED BY <2>2, <3>1, <3>2
  <2>4. TypeOK'
    <3>1. toExec' \in Seq(OrderMsg)
      BY <1>1, <2>1, <2>3, SentFacts
    <3>2. QED BY <1>2, <2>1, <3>1 DEF TypeOK
  <2>5. CallsAreKnown' /\ PermissionNamesItsCall'
    BY <1>7, <2>1, SameTrips
  <2>6. Ends(Head(toComm)) => comm.turn = "idle"
    BY <1>8 DEF m
  <2>7. QED BY <1>1, <2>1, <2>3, <2>4, <2>5, <2>6, TakeStep
<1>10. CASE ~(m.stop = "question" /\ ~acp.form)
  <2> DEFINE trip == [rid |-> m.rid, kind |-> m.stop, shown |-> IF m.stop = "pending" THEN acp.lastCall ELSE 0]
             more == acp.trips \cup {trip}
             b == [state |-> acp.state, form |-> acp.form, opening |-> acp.opening, lastCall |-> acp.lastCall,
                   pend |-> acp.pend, trips |-> more, answers |-> acp.answers]
             turn == IF comm.turn = "idle" THEN "idle" ELSE "waiting"
  <2>1. acp' = [acp EXCEPT !.trips = more] /\ UNCHANGED toExec
        /\ comm' = [comm EXCEPT !.turn = turn]
    BY <1>4, <1>10 DEF HandleAsk
  <2>2. trip \in TripType /\ trip.kind = m.stop /\ trip.rid = m.rid /\ (m.stop = "pending" => trip.shown = acp.lastCall)
    BY <1>1, <1>3 DEF TripType
  <2> HIDE DEF trip
  <2>3. more \in SUBSET TripType /\ IsFiniteSet(more)
    BY <1>1, <2>2, FS_AddElement
  <2>4. \A t \in more : t.kind = "pending" => t.shown = t.rid
    <3>1. trip.kind = "pending" => trip.shown = trip.rid
      BY <1>3, <1>5, <2>2 DEF AsksAboutCall
    <3>2. QED BY <3>1 DEF PermissionNamesItsCall
  <2> HIDE DEF more
  <2>5. acp' = b
    <3>1. acp = [state |-> acp.state, form |-> acp.form, opening |-> acp.opening, lastCall |-> acp.lastCall,
                 pend |-> acp.pend, trips |-> acp.trips, answers |-> acp.answers]
      BY <1>1, AcpFields
    <3>2. QED BY <2>1, <3>1
  <2>6. b \in AcpType
    BY <1>1, <2>3, AcpFields DEF AcpType
  <2>7. b.opening = acp.opening /\ b.lastCall = acp.lastCall /\ b.pend = acp.pend
        /\ b.trips = more /\ b.answers = acp.answers
    OBVIOUS
  <2> HIDE DEF b
  <2>8. acp' \in AcpType /\ acp'.opening = acp.opening /\ acp'.lastCall = acp.lastCall /\ acp'.pend = acp.pend
        /\ acp'.trips = more /\ acp'.answers = acp.answers
    BY <2>5, <2>6, <2>7
  <2>9. turn \in {"idle", "running", "waiting"} /\ (turn = "idle" <=> comm.turn = "idle")
    OBVIOUS
  <2> HIDE DEF turn
  <2>10. /\ comm' \in CommType /\ comm'.prompt = comm.prompt /\ comm'.session = comm.session
         /\ comm'.stalled = comm.stalled /\ comm'.noFinish = comm.noFinish
         /\ (comm'.turn = "idle") <=> (comm.turn = "idle")
    BY <1>1, <2>1, <2>9 DEF CommType
  <2>11. TypeOK'
    BY <1>1, <1>2, <2>1, <2>3, <2>8, <2>10 DEF TypeOK
  <2>12. CallsAreKnown' /\ PermissionNamesItsCall'
    BY <1>7, <2>4, <2>8 DEF PermissionNamesItsCall
  <2>13. Ends(Head(toComm)) => comm.turn = "idle"
    BY <1>8 DEF m
  <2>14. <<>> \in Seq(OrderMsg) /\ toExec' = Sent(<<>>) /\ \A j \in 1 .. Len(<<>>) : ~IsPrompt(<<>>[j])
    BY <1>1, <2>1, NothingSent
  <2>15. exec'.up = exec.up /\ exec'.turn = exec.turn /\ used'.prompts = used.prompts
    OBVIOUS
  <2>16. Head(toComm).type = "turn_finished" => comm.turn = "idle"
    OBVIOUS
  <2>17. QED BY <2>8, <2>10, <2>11, <2>12, <2>13, <2>14, <2>15, <2>16, TakeStep
<1>11. QED BY <1>9, <1>10

(* An event that cannot be appended.                                       *)
LEMMA EventDropped ==
  ASSUME ServerInv, toComm # <<>>, toComm' = Tail(toComm), ~comm.session,
         UNCHANGED <<acp, comm, exec, toExec, used>>
  PROVE  ServerInv'
<1> USE DEF ServerInv
<1>1. /\ acp.lastCall \in Nat /\ exec.call \in Nat /\ toComm \in Seq(EventMsg) /\ TypeOK
      /\ Tail(toComm) \in Seq(EventMsg)
  BY PartTypes, TailFacts
<1>2. TypeOK'
  BY <1>1 DEF TypeOK
<1>3. CallsAreKnown'
  <2>1. CallsInOrder(Tail(toComm), exec.call) /\ AsksAfterCalls(Tail(toComm), acp.lastCall)
        /\ (NoCall(toComm) => NoCall(Tail(toComm)))
    BY <1>1, CallsTaken DEF CallsAreKnown
  <2>2. QED BY <2>1 DEF CallsAreKnown
<1>4. PermissionNamesItsCall'
  BY SameTrips
<1>5. comm.turn = "idle"
  BY DEF SessionAndChannels
<1>6. <<>> \in Seq(OrderMsg) /\ toExec' = Sent(<<>>) /\ \A j \in 1 .. Len(<<>>) : ~IsPrompt(<<>>[j])
  BY <1>1, NothingSent
<1>7. QED BY <1>2, <1>3, <1>4, <1>5, <1>6, TakeStep

(* The Executor goes on with the call whose line is acknowledged.          *)
LEMMA AcknowledgedFacts ==
  ASSUME exec \in ExecType, NEW m \in EventMsg
  PROVE  LET x == Acknowledged(m) IN
         /\ x \in ExecType /\ x.up = exec.up /\ x.turn = exec.turn /\ x.call = exec.call
         /\ \/ x = exec
            \/ IsCall(m) /\ m.rid = exec.call /\ x.open = m.rid /\ ~x.writing
<1>1. m.rid \in Nat
  BY DEF EventMsg
<1>2. QED BY <1>1 DEF Acknowledged, ExecType, IsCall

(* An event reaches the server: types, calls and questions.                *)
LEMMA EventTypes ==
  ASSUME ServerInv, toComm # <<>>, toComm' = Tail(toComm), Head(toComm).type # "ask_user",
         acp' = OnEvent(acp, Head(toComm)),
         comm' = [comm EXCEPT !.turn = IF Head(toComm).type = "turn_finished" THEN "idle" ELSE comm.turn],
         exec' = Acknowledged(Head(toComm)), UNCHANGED <<toExec, used>>
  PROVE  /\ TypeOK' /\ CallsAreKnown' /\ PermissionNamesItsCall' /\ SameServer(acp, acp')
         /\ exec'.up = exec.up /\ exec'.turn = exec.turn
         /\ comm'.prompt = comm.prompt /\ comm'.session = comm.session /\ comm'.stalled = comm.stalled
         /\ comm'.noFinish = comm.noFinish
         /\ comm'.turn = IF Head(toComm).type = "turn_finished" THEN "idle" ELSE comm.turn
         /\ IF Ends(Head(toComm)) THEN Answered(acp, acp', Head(toComm).turn) ELSE Unanswered(acp, acp')
<1> USE DEF ServerInv
<1> DEFINE m == Head(toComm)
           turn == IF m.type = "turn_finished" THEN "idle" ELSE comm.turn
<1>1. /\ acp \in AcpType /\ comm \in CommType /\ exec \in ExecType /\ comm.turn \in {"idle", "running", "waiting"}
      /\ acp.lastCall \in Nat /\ exec.call \in Nat /\ exec.open \in Nat /\ toComm \in Seq(EventMsg) /\ TypeOK
  BY PartTypes
<1>2. m \in EventMsg /\ Tail(toComm) \in Seq(EventMsg)
  BY <1>1, TailFacts
<1>3. /\ acp' \in AcpType /\ SameServer(acp, acp')
      /\ acp'.lastCall = IF IsCall(m) THEN m.rid ELSE acp.lastCall
      /\ IF Ends(m) THEN Answered(acp, acp', m.turn) ELSE Unanswered(acp, acp')
  BY <1>1, <1>2, OnEventFacts DEF IsCall
<1>4. /\ exec' \in ExecType /\ exec'.up = exec.up /\ exec'.turn = exec.turn /\ exec'.call = exec.call
      /\ \/ exec' = exec
         \/ IsCall(m) /\ m.rid = exec.call /\ exec'.open = m.rid /\ ~exec'.writing
  BY <1>1, <1>2, AcknowledgedFacts
<1>5. turn \in {"idle", "running", "waiting"} /\ comm' = [comm EXCEPT !.turn = turn]
  BY <1>1
<1>6. /\ CallsInOrder(Tail(toComm), exec.call) /\ AsksAfterCalls(Tail(toComm), acp.lastCall)
      /\ NoCall(toComm) => NoCall(Tail(toComm)) /\ ~IsCall(m)
      /\ IsCall(m) => /\ \A l \in Nat : AsksAfterCalls(Tail(toComm), l)
                      /\ m.rid = exec.call => NoCall(Tail(toComm))
  BY <1>1, CallsTaken DEF CallsAreKnown
<1>7. m.rid \in Nat
  BY <1>2 DEF EventMsg
<1> HIDE DEF m
<1>8. turn = IF m.type = "turn_finished" THEN "idle" ELSE comm.turn
  OBVIOUS
<1> HIDE DEF turn
<1>9. /\ comm' \in CommType /\ comm'.prompt = comm.prompt /\ comm'.session = comm.session
      /\ comm'.stalled = comm.stalled /\ comm'.noFinish = comm.noFinish /\ comm'.turn = turn
  BY <1>1, <1>5 DEF CommType
<1>10. acp'.trips = acp.trips
  BY <1>3 DEF SameServer
<1>11. TypeOK'
  BY <1>1, <1>2, <1>3, <1>4, <1>9, <1>10 DEF TypeOK
<1>12. CallsAreKnown'
  <2>1. CASE IsCall(m)
    <3>1. CallsInOrder(Tail(toComm), exec.call) /\ AsksAfterCalls(Tail(toComm), m.rid) /\ acp'.lastCall = m.rid
      BY <1>3, <1>6, <1>7, <2>1
    <3>2. CASE exec' = exec
      <4>1. ~(exec.open > 0 /\ ~exec.writing)
        BY <1>6, <2>1 DEF CallsAreKnown
      <4>2. QED BY <3>1, <3>2, <4>1 DEF CallsAreKnown
    <3>3. CASE m.rid = exec.call /\ exec'.open = m.rid
      BY <1>4, <1>6, <2>1, <3>1, <3>3 DEF CallsAreKnown
    <3>4. QED BY <1>4, <3>2, <3>3
  <2>2. CASE ~IsCall(m)
    <3>1. exec' = exec /\ acp'.lastCall = acp.lastCall
      BY <1>3, <1>4, <2>2
    <3>2. QED BY <1>6, <3>1 DEF CallsAreKnown
  <2>3. QED BY <2>1, <2>2
<1>13. PermissionNamesItsCall'
  BY <1>10, SameTrips
<1>14. QED BY <1>3, <1>4, <1>8, <1>9, <1>11, <1>12, <1>13 DEF m

(* An event that ends a turn reaches the server: it answers the pending     *)
(* prompt, its own unless its own is given up.                             *)
LEMMA EventReceived ==
  ASSUME ServerInv, toComm # <<>>, toComm' = Tail(toComm), Head(toComm).type # "ask_user", comm.session,
         acp' = OnEvent(acp, Head(toComm)),
         comm' = [comm EXCEPT !.turn = IF Head(toComm).type = "turn_finished" THEN "idle" ELSE comm.turn],
         exec' = Acknowledged(Head(toComm)), UNCHANGED <<toExec, used>>
  PROVE  ServerInv'
<1> USE DEF ServerInv
<1> DEFINE m == Head(toComm)
<1>1. /\ TypeOK' /\ CallsAreKnown' /\ PermissionNamesItsCall' /\ SameServer(acp, acp')
      /\ exec'.up = exec.up /\ exec'.turn = exec.turn
      /\ comm'.prompt = comm.prompt /\ comm'.session = comm.session /\ comm'.stalled = comm.stalled
      /\ comm'.noFinish = comm.noFinish
      /\ comm'.turn = IF m.type = "turn_finished" THEN "idle" ELSE comm.turn
      /\ IF Ends(m) THEN Answered(acp, acp', m.turn) ELSE Unanswered(acp, acp')
  BY EventTypes
<1>2. toComm \in Seq(EventMsg) /\ toExec \in Seq(OrderMsg) /\ TypeOK /\ comm.prompt \in Nat
      /\ acp.pend.id \in 0 .. MaxPrompts /\ MaxPrompts \in Nat
  BY PartTypes
<1>3. CASE ~Ends(m)
  <2>1. <<>> \in Seq(OrderMsg) /\ toExec' = Sent(<<>>) /\ \A j \in 1 .. Len(<<>>) : ~IsPrompt(<<>>[j])
    BY <1>2, NothingSent
  <2>2. m.type # "turn_finished"
    BY <1>3 DEF Ends
  <2>3. acp'.answers = acp.answers /\ acp'.pend = acp.pend /\ acp'.opening = acp.opening
    BY <1>1, <1>3 DEF Unanswered, SameServer
  <2>4. comm'.turn = comm.turn
    BY <1>1, <2>2
  <2>5. QED BY <1>1, <1>3, <2>1, <2>2, <2>3, <2>4, TakeStep
<1>4. CASE Ends(m)
  <2> DEFINE e == m.turn
  <2>1. Answered(acp, acp', e) /\ acp'.pend = NoPrompt /\ acp'.opening = acp.opening
    BY <1>1, <1>4 DEF Answered, SameServer
  <2>2. /\ Ordered(Tail(toComm), exec.turn, toExec, comm.prompt)
        /\ \A t \in Nat : LiveIn(Tail(toComm), exec.turn, toExec, t) => LiveIn(toComm, exec.turn, toExec, t)
        /\ e \in Nat \ {0} /\ e <= comm.prompt /\ LiveIn(toComm, exec.turn, toExec, e)
        /\ \A t \in Nat : LiveIn(Tail(toComm), exec.turn, toExec, t) => e < t /\ t <= comm.prompt
    BY <1>4, EventTaken DEF TurnsInOrder
  <2>3. /\ TurnsInOrder'
        /\ \A t \in Nat : Live(t)' => Live(t) /\ e < t /\ t <= comm.prompt
        /\ e \in Nat /\ e # 0 /\ e <= comm.prompt /\ Live(e)
    BY <1>1, <2>2 DEF TurnsInOrder, Live
  <2> HIDE DEF e
  <2>4. acp.pend # NoPrompt => e \in {0, acp.pend.id} \/ (e < acp.pend.id /\ Unanswering(e))
    BY <1>2, <2>3, LiveTurnMayAnswer
  <2>5. AnswersGrow /\ AnsweredOnce'
    BY <1>2, <2>1, <2>3, <2>4, PendingAnswered
  <2>6. Stays /\ OwnAnswer'
    BY <1>1, <1>2, <2>5, AnswersStay
  <2>7. PendingIsCurrent'
    <3>1. \A r \in Prompts : r > used.prompts => acp'.answers[r] = <<>>
      BY <1>2, <2>1, LaterUnanswered
    <3>2. QED BY <1>1, <2>1, <3>1 DEF PendingIsCurrent
  <2>8. SessionAndChannels'
    <3>1. exec.up
      BY DEF SessionAndChannels
    <3>2. QED BY <1>1, <2>1, <3>1 DEF SessionAndChannels
  <2>9. ASSUME comm.turn # "idle", e # comm.prompt
        PROVE  comm.prompt \in Prompts /\ Unanswering(comm.prompt)'
    <3>1. CASE acp.pend = NoPrompt
      <4>1. comm.prompt \in Prompts /\ Unanswering(comm.prompt)
        BY <2>3, <2>9, <3>1 DEF AnsweredGoesOn
      <4>2. Unanswering(comm.prompt)'
        BY <1>1, <2>6, <4>1 DEF Stays
      <4>3. QED BY <4>1, <4>2
    <3>2. CASE acp.pend # NoPrompt
      <4>1. comm.prompt = acp.pend.id /\ comm.prompt # 0
        BY <3>2 DEF PendingIsCurrent
      <4>2. comm.prompt \in Prompts
        BY <1>2, <4>1 DEF Prompts
      <4>3. acp.answers[comm.prompt] = <<>>
        BY <4>1, <4>2 DEF AnsweredOnce
      <4>4. PICK s \in StopWord :
              acp'.answers = [acp.answers EXCEPT ![comm.prompt] = Append(acp.answers[comm.prompt], [stop |-> s, turn |-> e])]
        BY <2>1, <3>2, <4>1 DEF Answered
      <4>5. acp'.answers[comm.prompt] = <<[stop |-> s, turn |-> e]>>
        <5>1. Append(<<>>, [stop |-> s, turn |-> e]) = <<[stop |-> s, turn |-> e]>>
          OBVIOUS
        <5>2. acp.answers \in [Prompts -> Seq(AnswerType)]
          BY PartTypes
        <5>3. QED BY <4>2, <4>3, <4>4, <5>1, <5>2
      <4>6. \E i \in 1 .. Len(acp'.answers[comm.prompt]) : acp'.answers[comm.prompt][i].turn \notin {0, comm.prompt}
        <5>1. 1 \in 1 .. Len(acp'.answers[comm.prompt]) /\ acp'.answers[comm.prompt][1].turn = e
          BY <4>5
        <5>2. QED BY <2>3, <2>9, <5>1
      <4>7. QED BY <1>1, <4>2, <4>6 DEF Unanswering
    <3>3. QED BY <3>1, <3>2
  <2>10. LiveIsCurrent'
    <3>1. ASSUME NEW t \in Nat, Live(t)'
          PROVE  (comm'.turn # "idle" /\ t = comm'.prompt) \/ (t \in Prompts /\ Unanswering(t)')
      <4>1. Live(t) /\ e < t /\ t <= comm.prompt
        BY <2>3, <3>1
      <4>2. CASE comm.turn # "idle" /\ t = comm.prompt
        <5>1. e # comm.prompt
          BY <2>3, <4>1, <4>2
        <5>2. QED BY <2>9, <4>2, <5>1
      <4>3. CASE t \in Prompts /\ Unanswering(t)
        BY <2>6, <4>3 DEF Stays
      <4>4. QED BY <4>1, <4>2, <4>3 DEF LiveIsCurrent
    <3>2. QED BY <3>1 DEF LiveIsCurrent
  <2>11. AnsweredGoesOn'
    <3>1. ASSUME comm'.turn # "idle"
          PROVE  \/ comm'.prompt \in Prompts /\ Unanswering(comm.prompt)'
                 \/ \A t \in Nat : Live(t)' => t = comm'.prompt
      <4>1. comm.turn # "idle"
        BY <1>1, <3>1
      <4>2. CASE e = comm.prompt
        <5>1. \A t \in Nat : ~Live(t)'
          BY <1>2, <2>3, <4>2
        <5>2. QED BY <5>1
      <4>3. CASE e # comm.prompt
        <5>1. comm.prompt \in Prompts /\ Unanswering(comm.prompt)'
          BY <2>9, <4>1, <4>3
        <5>2. QED BY <1>1, <5>1
      <4>4. QED BY <4>2, <4>3
    <3>2. QED BY <3>1 DEF AnsweredGoesOn
  <2>12. TurnWillEnd'
    <3>1. CASE m.type = "turn_finished"
      BY <1>1, <3>1 DEF TurnWillEnd
    <3>2. CASE m.type # "turn_finished"
      <4>1. comm'.turn = comm.turn
        BY <1>1, <3>2
      <4>2. ASSUME comm'.turn # "idle", exec'.up, ~comm'.noFinish
            PROVE  \/ exec'.turn # 0
                   \/ \E i \in 1 .. Len(toComm') : toComm'[i].type = "turn_finished"
                   \/ \E j \in 1 .. Len(toExec') : IsPrompt(toExec'[j])
        <5>1. CASE exec.turn # 0
          BY <1>1, <5>1
        <5>2. CASE \E i \in 1 .. Len(toComm) : toComm[i].type = "turn_finished"
          <6>1. PICK i \in 1 .. Len(toComm) : toComm[i].type = "turn_finished"
            BY <5>2
          <6>2. /\ m = toComm[1] /\ Len(toComm) \in Nat \ {0} /\ Len(toComm') = Len(toComm) - 1
                /\ \A k \in 1 .. Len(toComm) - 1 : toComm'[k] = toComm[k + 1]
            BY <1>2, TailFacts
          <6>3. i # 1
            BY <3>2, <6>1, <6>2
          <6>4. i - 1 \in 1 .. Len(toComm') /\ (i - 1) + 1 = i
            BY <6>2, <6>3
          <6>5. toComm'[i - 1] = toComm[i]
            BY <6>2, <6>4
          <6>6. QED BY <6>1, <6>4, <6>5
        <5>3. CASE \E j \in 1 .. Len(toExec) : IsPrompt(toExec[j])
          BY <5>3
        <5>4. QED BY <1>1, <4>1, <4>2, <5>1, <5>2, <5>3 DEF TurnWillEnd
      <4>3. QED BY <4>2, Zenon DEF TurnWillEnd
    <3>3. QED BY <3>1, <3>2
  <2>13. QED BY <1>1, <2>3, <2>5, <2>6, <2>7, <2>8, <2>10, <2>11, <2>12
<1>5. QED BY <1>3, <1>4

(* Any message.                                                            *)
LEMMA CommReceivesStep ==
  ASSUME ServerInv, CommReceives
  PROVE  ServerInv'
<1>1. toComm # <<>> /\ toComm' = Tail(toComm) /\ used' = used
  BY DEF CommReceives
<1>2. CASE Head(toComm).type = "ask_user"
  <2>1. HandleAsk(Head(toComm)) /\ UNCHANGED exec
    BY <1>2 DEF CommReceives
  <2>2. QED BY <1>1, <1>2, <2>1, AskReceived
<1>3. CASE Head(toComm).type # "ask_user" /\ ~comm.session
  <2>1. UNCHANGED <<acp, comm, exec, toExec>>
    BY <1>3 DEF CommReceives
  <2>2. QED BY <1>1, <1>3, <2>1, EventDropped
<1>4. CASE Head(toComm).type # "ask_user" /\ comm.session
  <2>1. /\ acp' = OnEvent(acp, Head(toComm))
        /\ comm' = [comm EXCEPT !.turn = IF Head(toComm).type = "turn_finished" THEN "idle" ELSE comm.turn]
        /\ exec' = Acknowledged(Head(toComm)) /\ UNCHANGED toExec
    BY <1>4 DEF CommReceives
  <2>2. QED BY <1>1, <1>4, <2>1, EventReceived
<1>5. QED BY <1>2, <1>3, <1>4

-----------------------------------------------------------------------------
(* The Executor comes and goes.                                            *)

(* An event of the Communicator's own: a process error, or the end of the   *)
(* turn.                                                                   *)
LEMMA OwnEvent ==
  ASSUME ServerInv, NEW turn \in {0, comm.prompt}, NEW stop \in {"process", "turn ended"},
         acp' = OnEvent(acp, Event("error", turn, stop, 0)), used'.prompts = used.prompts,
         comm.stalled \subseteq comm'.stalled
  PROVE  /\ acp' \in AcpType /\ SameServer(acp, acp') /\ acp'.lastCall = acp.lastCall
         /\ AnswersGrow /\ AnsweredOnce'
         /\ IF stop = "turn ended" THEN Answered(acp, acp', turn) ELSE Unanswered(acp, acp')
         /\ \A r \in Prompts : r > used.prompts => acp'.answers[r] = <<>>
<1> USE DEF ServerInv
<1> DEFINE e == Event("error", turn, stop, 0)
<1>1. TypeOK /\ acp \in AcpType /\ turn \in Nat
  <2>1. acp \in AcpType /\ comm.prompt \in Nat /\ 0 \in Nat
    BY PartTypes
  <2>2. QED BY <2>1
<1>2. e \in EventMsg /\ (Ends(e) <=> stop = "turn ended") /\ e.type # "tool_call_requested" /\ e.turn = turn
  BY <1>1 DEF EventMsg, Event, StopWord, Ends
<1>3. acp' = OnEvent(acp, e)
  OBVIOUS
<1> HIDE DEF e
<1>4. /\ acp' \in AcpType /\ SameServer(acp, acp') /\ acp'.lastCall = acp.lastCall
      /\ IF stop = "turn ended" THEN Answered(acp, acp', turn) ELSE Unanswered(acp, acp')
  BY <1>1, <1>2, <1>3, OnEventFacts
<1>5. CASE stop = "turn ended"
  <2>1. acp.pend # NoPrompt => turn \in {0, acp.pend.id}
    BY DEF PendingIsCurrent
  <2>2. AnswersGrow /\ AnsweredOnce'
    BY <1>1, <1>4, <1>5, <2>1, PendingAnswered
  <2>3. \A r \in Prompts : r > used.prompts => acp'.answers[r] = <<>>
    BY <1>1, <1>4, <1>5, LaterUnanswered
  <2>4. QED BY <1>4, <2>2, <2>3
<1>6. CASE stop = "process"
  <2>1. acp'.answers = acp.answers /\ acp'.pend = acp.pend
    BY <1>4, <1>6 DEF Unanswered
  <2>2. AnswersGrow /\ AnsweredOnce'
    BY <1>1, <2>1, NoAnswerGiven
  <2>3. \A r \in Prompts : r > used.prompts => acp'.answers[r] = <<>>
    BY <2>1 DEF PendingIsCurrent
  <2>4. QED BY <1>4, <2>2, <2>3
<1>7. QED BY <1>5, <1>6

(* The Executor exits.                                                     *)
LEMMA ExecutorExitsStep ==
  ASSUME ServerInv, ExecutorExits
  PROVE  ServerInv'
<1> USE DEF ServerInv
<1>1. /\ TypeOK /\ acp \in AcpType /\ comm \in CommType /\ exec \in ExecType /\ used \in UsedType
      /\ comm.turn \in {"idle", "running", "waiting"} /\ comm.prompt \in Nat
  BY PartTypes
<1>2. /\ exec' = [Gone EXCEPT !.call = exec.call] /\ toExec' = <<>> /\ toComm' = <<>> /\ acp.opening = "no"
      /\ used' \in UsedType /\ used'.prompts = used.prompts
  BY <1>1, UseFacts DEF ExecutorExits
<1>3. exec' \in ExecType /\ exec'.turn = 0 /\ exec'.open = 0 /\ ~exec'.up
  BY <1>1, <1>2 DEF ExecType, Gone, Fresh, NoAsk
<1>4. toExec' \in Seq(OrderMsg) /\ toComm' \in Seq(EventMsg)
  BY <1>2
<1>5. CASE comm.turn # "idle" /\ comm.restarted
  <2>1. acp' = OnEvent(acp, Event("error", comm.prompt, "turn ended", 0)) /\ comm' = [comm EXCEPT !.turn = "idle"]
    BY <1>5 DEF ExecutorExits
  <2>2. /\ comm' \in CommType /\ comm'.turn = "idle" /\ comm'.prompt = comm.prompt
        /\ comm'.stalled = comm.stalled /\ comm'.session = comm.session
    BY <1>1, <2>1 DEF CommType
  <2>3. /\ acp' \in AcpType /\ SameServer(acp, acp') /\ AnswersGrow /\ AnsweredOnce'
        /\ Answered(acp, acp', comm.prompt)
        /\ \A r \in Prompts : r > used.prompts => acp'.answers[r] = <<>>
    BY <1>2, <2>1, <2>2, OwnEvent
  <2>4. acp'.trips = acp.trips /\ acp'.opening = "no" /\ acp'.pend = NoPrompt
    BY <1>2, <2>3 DEF SameServer, Answered
  <2>5. TypeOK'
    BY <1>2, <1>3, <1>4, <2>2, <2>3, <2>4 DEF TypeOK
  <2>6. PendingIsCurrent'
    BY <1>2, <2>2, <2>3, <2>4 DEF PendingIsCurrent
  <2>7. QED BY <1>2, <1>3, <2>2, <2>3, <2>4, <2>5, <2>6, EmptiedStep
<1>6. CASE ~(comm.turn # "idle" /\ comm.restarted)
  <2> DEFINE again == comm.turn # "idle"
  <2>1. acp' = OnEvent(acp, Event("error", 0, "process", 0)) /\ comm' = [comm EXCEPT !.restarted = again]
    BY <1>6 DEF ExecutorExits
  <2>2. again \in BOOLEAN
    OBVIOUS
  <2> HIDE DEF again
  <2>3. /\ comm' \in CommType /\ comm'.turn = comm.turn /\ comm'.prompt = comm.prompt
        /\ comm'.stalled = comm.stalled /\ comm'.session = comm.session
    BY <1>1, <2>1, <2>2 DEF CommType
  <2>4. /\ acp' \in AcpType /\ SameServer(acp, acp') /\ AnswersGrow /\ AnsweredOnce'
        /\ Unanswered(acp, acp')
        /\ \A r \in Prompts : r > used.prompts => acp'.answers[r] = <<>>
    BY <1>2, <2>1, <2>3, OwnEvent
  <2>5. acp'.trips = acp.trips /\ acp'.opening = "no" /\ acp'.pend = acp.pend
    BY <1>2, <2>4 DEF SameServer, Unanswered
  <2>6. TypeOK'
    BY <1>2, <1>3, <1>4, <2>3, <2>4, <2>5 DEF TypeOK
  <2>7. PendingIsCurrent'
    BY <1>2, <2>3, <2>4, <2>5 DEF PendingIsCurrent
  <2>8. comm'.turn # "idle" => comm'.session
    BY <2>3 DEF SessionAndChannels
  <2>9. QED BY <1>2, <1>3, <2>3, <2>4, <2>5, <2>6, <2>7, <2>8, EmptiedStep
<1>7. QED BY <1>5, <1>6

(* A respawn fails: the turn is over.                                      *)
LEMMA RespawnFailsStep ==
  ASSUME ServerInv, RespawnFails
  PROVE  ServerInv'
<1> USE DEF ServerInv
<1>1. /\ TypeOK /\ acp \in AcpType /\ comm \in CommType /\ comm.prompt \in Nat /\ acp.trips \in SUBSET TripType
  BY PartTypes
<1>2. /\ ~exec.up /\ comm.turn # "idle" /\ comm' = [comm EXCEPT !.turn = "idle"]
      /\ acp' = OnEvent(acp, Event("error", comm.prompt, "turn ended", 0))
      /\ UNCHANGED <<exec, toExec, toComm, used>>
  BY DEF RespawnFails
<1>3. /\ comm' \in CommType /\ comm'.turn = "idle" /\ comm'.prompt = comm.prompt
      /\ comm'.stalled = comm.stalled /\ comm'.session = comm.session
  BY <1>1, <1>2 DEF CommType
<1>4. /\ acp' \in AcpType /\ SameServer(acp, acp') /\ AnswersGrow /\ AnsweredOnce'
      /\ Answered(acp, acp', comm.prompt) /\ acp'.lastCall = acp.lastCall
      /\ \A r \in Prompts : r > used.prompts => acp'.answers[r] = <<>>
  BY <1>2, <1>3, OwnEvent
<1>5. acp'.trips = acp.trips /\ acp'.opening = acp.opening /\ acp'.pend = NoPrompt
  BY <1>4 DEF SameServer, Answered
<1>6. exec.turn = 0 /\ toExec = <<>> /\ toComm = <<>>
  BY <1>2 DEF SessionAndChannels
<1>7. TypeOK'
  BY <1>2, <1>3, <1>4, <1>5 DEF TypeOK
<1>8. PendingIsCurrent'
  BY <1>2, <1>3, <1>4, <1>5 DEF PendingIsCurrent
<1>9. SessionAndChannels'
  BY <1>2, <1>3, <1>5, <1>6 DEF SessionAndChannels
<1>10. OwnAnswer'
  BY <1>1, <1>3, <1>4, <1>7, AnswersStay
<1>11. TurnsInOrder' /\ LiveIsCurrent' /\ AnsweredGoesOn'
  BY <1>2, <1>6, <1>7, NoTurns
<1>12. TurnWillEnd'
  BY <1>3 DEF TurnWillEnd
<1>13. CallsAreKnown' /\ PermissionNamesItsCall'
  BY <1>2, <1>4, <1>5, SameCalls, SameTrips
<1>14. QED BY <1>4, <1>7, <1>8, <1>9, <1>10, <1>11, <1>12, <1>13

(* A new Executor is there, and gets the prompt of the turn again.         *)
LEMMA RespawnedStep ==
  ASSUME ServerInv, Respawned
  PROVE  ServerInv'
<1> USE DEF ServerInv
<1>1. /\ TypeOK /\ comm \in CommType /\ exec \in ExecType /\ comm.prompt \in Nat /\ acp.trips \in SUBSET TripType
      /\ comm.turn \in {"idle", "running", "waiting"}
  BY PartTypes
<1>2. ~exec.up /\ UNCHANGED <<acp, toComm, used>> /\ exec' = [exec EXCEPT !.up = TRUE]
  BY DEF Respawned
<1>3. exec.turn = 0 /\ toExec = <<>> /\ toComm = <<>>
  BY <1>2 DEF SessionAndChannels
<1>4. exec' \in ExecType /\ exec'.turn = 0 /\ exec'.call = exec.call /\ exec'.open = exec.open
      /\ exec'.writing = exec.writing /\ exec'.up
  BY <1>1, <1>2, <1>3 DEF ExecType
<1>5. AnswersGrow /\ AnsweredOnce'
  BY <1>1, <1>2, NoAnswerGiven
<1>6. CallsAreKnown' /\ PermissionNamesItsCall'
  BY <1>2, <1>4, SameCalls, SameTrips
<1>7. CASE comm.turn = "idle"
  <2>1. UNCHANGED <<toExec, comm>>
    BY <1>7 DEF Respawned
  <2>2. TypeOK'
    BY <1>2, <1>4, <2>1 DEF TypeOK
  <2>3. PendingIsCurrent' /\ SessionAndChannels'
    BY <1>2, <1>4, <2>1 DEF PendingIsCurrent, SessionAndChannels
  <2>4. OwnAnswer'
    BY <1>1, <1>5, <2>1, <2>2, AnswersStay
  <2>5. TurnsInOrder' /\ LiveIsCurrent' /\ AnsweredGoesOn'
    BY <1>2, <1>3, <1>4, <2>1, <2>2, NoTurns
  <2>6. TurnWillEnd'
    BY <1>7, <2>1 DEF TurnWillEnd
  <2>7. QED BY <1>5, <1>6, <2>2, <2>3, <2>4, <2>5, <2>6
<1>8. CASE comm.turn # "idle"
  <2> DEFINE m == ToExec("prompt", comm.prompt, TRUE)
             r == comm.prompt
  <2>1. r \in Nat /\ r > 0
    BY <1>1, <1>8 DEF PendingIsCurrent
  <2>2. m \in OrderMsg /\ IsPrompt(m) /\ m.rid = r
    BY <1>1 DEF ToExec, OrderMsg, IsPrompt
  <2>3. toExec' = Append(toExec, m) /\ comm' = [comm EXCEPT !.turn = "running"]
    BY <1>8 DEF Respawned
  <2> HIDE DEF m
  <2>4. toExec' = <<m>>
    BY <1>3, <2>3
  <2>5. toExec' \in Seq(OrderMsg) /\ Len(toExec') = 1 /\ toExec'[1] = m
    BY <2>2, <2>4
  <2>6. /\ comm' \in CommType /\ comm'.turn = "running" /\ comm'.prompt = r
        /\ comm'.stalled = comm.stalled /\ comm'.session = comm.session
    BY <1>1, <2>3 DEF CommType
  <2>7. TypeOK'
    BY <1>2, <1>4, <2>5, <2>6 DEF TypeOK
  <2>8. PendingIsCurrent'
    BY <1>2, <1>8, <2>6 DEF PendingIsCurrent
  <2>9. SessionAndChannels'
    BY <1>2, <1>4, <1>8, <2>6 DEF SessionAndChannels
  <2>10. OwnAnswer'
    BY <1>1, <1>5, <2>6, <2>7, AnswersStay
  <2> HIDE DEF r
  <2>11. TurnsInOrder'
    <3>1. /\ toComm' = <<>> /\ <<>> \in Seq(EventMsg) /\ Len(<<>>) = 0 /\ exec'.turn = 0 /\ 0 \in Nat /\ 0 <= r
          /\ \A j \in 1 .. 1 : j = 1
      BY <1>2, <1>3, <1>4, <2>1, EmptySeq
    <3>2. Ordered(<<>>, 0, toExec', r)
      <4>1. 0 < r /\ r <= r
        BY <2>1
      <4>2. \A j \in 1 .. Len(toExec') : toExec'[j].rid = r /\ j = 1
        BY <2>2, <2>5, <3>1
      <4>3. \A j, k \in 1 .. Len(toExec') : ~(j < k)
        BY <2>5
      <4>4. QED BY <2>1, <2>5, <3>1, <4>1, <4>2, <4>3 DEF Ordered
    <3>3. QED BY <2>6, <3>1, <3>2 DEF TurnsInOrder
  <2>12. \A t \in Nat : Live(t)' => t = r
    <3>1. toComm' = <<>> /\ Len(toComm') = 0 /\ exec'.turn = 0
      BY <1>2, <1>3, <1>4, EmptySeq
    <3>2. \A j \in 1 .. Len(toExec') : toExec'[j].rid = r
      BY <2>2, <2>5
    <3>3. QED BY <3>1, <3>2 DEF Live, LiveIn
  <2>13. LiveIsCurrent' /\ AnsweredGoesOn'
    BY <2>6, <2>12 DEF LiveIsCurrent, AnsweredGoesOn
  <2>14. TurnWillEnd'
    <3>1. 1 \in 1 .. Len(toExec') /\ IsPrompt(toExec'[1])
      BY <2>2, <2>5
    <3>2. QED BY <3>1 DEF TurnWillEnd
  <2>15. QED BY <1>5, <1>6, <2>7, <2>8, <2>9, <2>10, <2>11, <2>13, <2>14
<1>9. QED BY <1>7, <1>8

-----------------------------------------------------------------------------
(* The Executor's turn.                                                    *)

(* What the Executor does is seen in its messages only.                    *)
LEMMA ExecStep ==
  ASSUME ServerInv, TypeOK', UNCHANGED acp, used'.prompts = used.prompts, exec.up, exec'.up,
         comm'.turn = comm.turn, comm'.prompt = comm.prompt, comm'.session = comm.session,
         comm'.stalled = comm.stalled,
         Ordered(toComm', exec'.turn, toExec', comm.prompt),
         \A t \in Nat : LiveIn(toComm', exec'.turn, toExec', t) => Live(t),
         TurnWillEnd', CallsAreKnown'
  PROVE  ServerInv'
<1> USE DEF ServerInv
<1>1. PendingIsCurrent' /\ SessionAndChannels'
  BY DEF PendingIsCurrent, SessionAndChannels
<1>2. AnsweredOnce' /\ AnswersGrow
  BY NoAnswerGiven
<1>3. Stays /\ OwnAnswer'
  BY <1>2, AnswersStay
<1>4. TurnsInOrder' /\ \A t \in Nat : Live(t)' => Live(t)
  BY DEF TurnsInOrder, Live
<1>5. LiveIsCurrent' /\ AnsweredGoesOn'
  BY <1>3, <1>4, SameTurns
<1>6. PermissionNamesItsCall'
  BY SameTrips
<1>7. QED BY <1>1, <1>2, <1>3, <1>4, <1>5, <1>6

(* A message for the Executor is taken that starts no turn.                *)
LEMMA OrderTaken ==
  ASSUME NEW q, NEW e, NEW p, NEW last, Ordered(q, e, p, last), NEW i \in 1 .. Len(p),
         ~IsPrompt(p[i]) \/ e # 0
  PROVE  /\ Ordered(q, e, RemoveAt(p, i), last)
         /\ \A t \in Nat : LiveIn(q, e, RemoveAt(p, i), t) => LiveIn(q, e, p, t)
         /\ \A k \in 1 .. Len(p) : k # i => \E j \in 1 .. Len(RemoveAt(p, i)) : RemoveAt(p, i)[j] = p[k]
<1> DEFINE r == RemoveAt(p, i)
           f == [k \in Nat |-> k]
           g == [j \in Nat |-> IF j < i THEN j ELSE j + 1]
<1>1. q \in Seq(EventMsg) /\ p \in Seq(OrderMsg) /\ Len(q) \in Nat /\ e \in {e, 0}
  BY LenProperties DEF Ordered
<1>2. /\ r \in Seq(OrderMsg) /\ Len(p) \in Nat \ {0} /\ Len(r) = Len(p) - 1 /\ i \in Nat
      /\ \A j \in 1 .. Len(p) - 1 : r[j] = p[IF j < i THEN j ELSE j + 1]
  BY <1>1, RemoveFacts
<1>3. (\A k \in Nat : f[k] = k) /\ (\A j \in Nat : g[j] = IF j < i THEN j ELSE j + 1)
  OBVIOUS
<1> HIDE DEF r, f, g
<1>4. \A j \in 1 .. Len(r) : j \in Nat /\ g[j] \in 1 .. Len(p) /\ r[j] = p[g[j]] /\ g[j] = IF j < i THEN j ELSE j + 1
  <2>1. ASSUME NEW j \in 1 .. Len(r)
        PROVE  j \in Nat /\ g[j] \in 1 .. Len(p) /\ r[j] = p[g[j]] /\ g[j] = IF j < i THEN j ELSE j + 1
    <3>1. j \in Nat /\ j \in 1 .. Len(p) - 1
      BY <1>2
    <3>2. g[j] = IF j < i THEN j ELSE j + 1
      BY <1>3, <3>1
    <3>3. QED BY <1>2, <3>1, <3>2
  <2>2. QED BY <2>1
<1>5. PromptsFrom(r, p, g)
  <2>1. ASSUME NEW j \in 1 .. Len(r), NEW k \in 1 .. Len(r), j < k PROVE g[j] < g[k]
    BY <1>2, <1>4, <2>1
  <2>2. QED BY <1>4, <2>1 DEF PromptsFrom
<1>6. EndsFrom(q, q, f)
  <2>1. \A k \in 1 .. Len(q) : k \in Nat /\ f[k] = k
    BY <1>1, <1>3
  <2>2. QED BY <2>1 DEF EndsFrom
<1>7. Ordered(q, e, r, last) /\ \A t \in Nat : LiveIn(q, e, r, t) => LiveIn(q, e, p, t)
  BY <1>1, <1>2, <1>5, <1>6, FewerTurns
<1>8. ASSUME NEW k \in 1 .. Len(p), k # i PROVE \E j \in 1 .. Len(r) : r[j] = p[k]
  <2>1. CASE k < i
    <3>1. k \in 1 .. Len(p) - 1
      BY <1>2, <2>1
    <3>2. QED BY <1>2, <2>1, <3>1
  <2>2. CASE ~(k < i)
    <3>1. k - 1 \in 1 .. Len(p) - 1 /\ ~(k - 1 < i) /\ (k - 1) + 1 = k
      BY <1>2, <1>8, <2>2
    <3>2. QED BY <1>2, <3>1
  <2>3. QED BY <2>1, <2>2
<1>9. QED BY <1>7, <1>8 DEF r

(* The Executor takes a prompt and starts its turn.                        *)
LEMMA PromptTaken ==
  ASSUME NEW q, NEW p, NEW last, Ordered(q, 0, p, last), p # <<>>, IsPrompt(p[1])
  PROVE  /\ p[1].rid \in Nat \ {0}
         /\ Ordered(q, p[1].rid, RemoveAt(p, 1), last)
         /\ \A t \in Nat : LiveIn(q, p[1].rid, RemoveAt(p, 1), t) => LiveIn(q, 0, p, t)
<1> DEFINE r == RemoveAt(p, 1)
           e == p[1].rid
<1>1. q \in Seq(EventMsg) /\ p \in Seq(OrderMsg) /\ Len(q) \in Nat /\ last \in Nat
  BY LenProperties DEF Ordered
<1>2. Len(p) \in Nat \ {0} /\ 1 \in 1 .. Len(p) /\ p[1] \in OrderMsg
  BY <1>1, TailFacts, ElementOfSeq
<1>3. e \in Nat /\ 0 < e /\ e <= last /\ e # 0
  <2>1. \A m \in OrderMsg : m.rid \in Nat
    BY DEF OrderMsg
  <2>2. e \in Nat
    BY <1>2, <2>1
  <2>3. 0 < e /\ e <= last
    BY <1>2 DEF Ordered
  <2>4. QED BY <2>2, <2>3
<1>4. /\ r \in Seq(OrderMsg) /\ Len(r) = Len(p) - 1
      /\ \A j \in 1 .. Len(p) - 1 : r[j] = p[IF j < 1 THEN j ELSE j + 1]
  BY <1>1, <1>2, RemoveFacts
<1> HIDE DEF r
<1>5. \A j \in 1 .. Len(r) : r[j] = p[j + 1] /\ j + 1 \in 1 .. Len(p) /\ 1 < j + 1 /\ j \in Nat
  BY <1>2, <1>4
<1>6. \A i \in 1 .. Len(q) : Ends(q[i]) => 0 < q[i].turn /\ q[i].turn <= last /\ q[i].turn < e
  BY <1>2 DEF Ordered
<1>7. \A j \in 1 .. Len(r) : IsPrompt(r[j]) => 0 < r[j].rid /\ r[j].rid <= last /\ e < r[j].rid
  BY <1>2, <1>5 DEF Ordered
<1>8. \A i, k \in 1 .. Len(q) : i < k /\ Ends(q[i]) /\ Ends(q[k]) => q[i].turn < q[k].turn
  BY DEF Ordered
<1>9. \A i \in 1 .. Len(q), j \in 1 .. Len(r) : Ends(q[i]) /\ IsPrompt(r[j]) => q[i].turn < r[j].rid
  BY <1>5 DEF Ordered
<1>10. \A j, k \in 1 .. Len(r) : j < k /\ IsPrompt(r[j]) /\ IsPrompt(r[k]) => r[j].rid < r[k].rid
  <2>1. \A j, k \in Nat : j < k => j + 1 < k + 1
    OBVIOUS
  <2>2. QED BY <1>5, <2>1 DEF Ordered
<1>11. \A t \in Nat : LiveIn(q, e, r, t) => LiveIn(q, 0, p, t)
  BY <1>2, <1>5 DEF LiveIn
<1> HIDE DEF e
<1>12. Ordered(q, e, r, last)
  BY <1>1, <1>3, <1>4, <1>6, <1>7, <1>8, <1>9, <1>10 DEF Ordered
<1>13. QED BY <1>3, <1>11, <1>12 DEF e, r

(* A message added to those for the Communicator leaves them there.        *)
LEMMA StillOnItsWay ==
  ASSUME NEW q \in Seq(EventMsg), NEW m \in EventMsg, NEW type
  PROVE  /\ (\E i \in 1 .. Len(q) : q[i].type = type) => \E i \in 1 .. Len(Append(q, m)) : Append(q, m)[i].type = type
         /\ m.type = type => \E i \in 1 .. Len(Append(q, m)) : Append(q, m)[i].type = type
<1> DEFINE r == Append(q, m)
<1>1. /\ Len(q) \in Nat /\ Len(r) = Len(q) + 1
      /\ r[Len(q) + 1] = m
      /\ \A i \in 1 .. Len(q) : r[i] = q[i]
  BY AppendFacts
<1> HIDE DEF r
<1>2. Len(q) + 1 \in 1 .. Len(r) /\ \A i \in 1 .. Len(q) : i \in 1 .. Len(r)
  BY <1>1
<1>3. QED BY <1>1, <1>2 DEF r

(* The Executor sends something that ends no turn.                         *)
LEMMA EmitStep ==
  ASSUME ServerInv, NEW m \in EventMsg, ~Ends(m), toComm' = Append(toComm, m),
         UNCHANGED <<acp, comm, toExec>>, used' \in UsedType, used'.prompts = used.prompts,
         exec' \in ExecType, exec.up, exec'.up, exec'.turn = exec.turn, exec.turn # 0, CallsAreKnown'
  PROVE  ServerInv'
<1>1. TypeOK /\ toComm \in Seq(EventMsg)
  BY PartTypes DEF ServerInv
<1>2. /\ Ordered(Append(toComm, m), exec.turn, toExec, comm.prompt)
      /\ \A t \in Nat : LiveIn(Append(toComm, m), exec.turn, toExec, t) => LiveIn(toComm, exec.turn, toExec, t)
  BY EventAppended DEF ServerInv, TurnsInOrder
<1>3. toComm' \in Seq(EventMsg)
  BY <1>1, AppendFacts
<1>4. TypeOK'
  BY <1>1, <1>3 DEF TypeOK
<1>5. TurnWillEnd'
  BY DEF TurnWillEnd
<1>6. QED BY <1>2, <1>4, <1>5, ExecStep DEF Live

(* A tool call is requested.                                               *)
LEMMA ExecCallsStep ==
  ASSUME ServerInv, ExecCalls
  PROVE  ServerInv'
<1> USE DEF ServerInv
<1> DEFINE m == Event("tool_call_requested", exec.turn, "none", exec.call + 1)
           c == exec.call + 1
<1>1. /\ TypeOK /\ toComm \in Seq(EventMsg) /\ exec \in ExecType /\ exec.turn \in Nat /\ exec.call \in Nat
      /\ exec.open \in Nat /\ used \in UsedType /\ acp.lastCall \in Nat
  BY PartTypes
<1>2. c \in Nat
  BY <1>1
<1>3. m \in EventMsg /\ ~Ends(m) /\ IsCall(m) /\ m.rid = c /\ ~AsksAboutCall(m)
  BY <1>1, <1>2 DEF EventMsg, Event, StopWord, Ends, IsCall, AsksAboutCall
<1>4. exec.up /\ exec.turn # 0 /\ ~exec.writing /\ toComm' = Append(toComm, m) /\ UNCHANGED <<acp, comm, toExec>>
      /\ exec' = [exec EXCEPT !.call = c, !.writing = TRUE]
  BY DEF ExecCalls, Working, InTurn, Emit
<1>5. used' \in UsedType /\ used'.prompts = used.prompts
  BY <1>1, UseFacts DEF ExecCalls
<1> HIDE DEF m, c
<1>6. exec' \in ExecType /\ exec'.up /\ exec'.turn = exec.turn /\ exec'.call = c /\ exec'.writing
  BY <1>1, <1>2, <1>4 DEF ExecType
<1>7. CallsAreKnown'
  <2>1. CallsInOrder(Append(toComm, m), c) /\ AsksAfterCalls(Append(toComm, m), acp.lastCall)
    BY <1>1, <1>3, CallsSent DEF CallsAreKnown, c
  <2>2. QED BY <1>4, <1>6, <2>1 DEF CallsAreKnown
<1>8. QED BY <1>3, <1>4, <1>5, <1>6, <1>7, EmitStep

(* The Executor asks.                                                      *)
LEMMA ExecAsksStep ==
  ASSUME ServerInv, NEW kind \in Kinds, ExecAsks(kind)
  PROVE  ServerInv'
<1> USE DEF ServerInv
<1> DEFINE rid == IF kind = "pending" THEN exec.open ELSE 10 + used.asks
           m == Event("ask_user", exec.turn, kind, rid)
           a == [kind |-> kind, rid |-> rid]
<1>1. /\ TypeOK /\ toComm \in Seq(EventMsg) /\ exec \in ExecType /\ exec.turn \in Nat /\ exec.call \in Nat
      /\ exec.open \in Nat /\ used \in UsedType /\ acp.lastCall \in Nat
  BY PartTypes
<1>2. used.asks \in Nat /\ 10 + used.asks \in Nat
  BY <1>1 DEF UsedType
<1>3. rid \in Nat
  BY <1>1, <1>2
<1>4. /\ exec.up /\ exec.turn # 0 /\ ~exec.writing /\ (kind = "pending" => exec.open > 0)
      /\ exec' = [exec EXCEPT !.ask = a] /\ toComm' = Append(toComm, m) /\ UNCHANGED <<acp, comm, toExec>>
  BY DEF ExecAsks, Working, InTurn, Emit
<1>5. used' \in UsedType /\ used'.prompts = used.prompts
  BY <1>1, UseFacts DEF ExecAsks
<1>6. kind = "pending" => rid = exec.open
  OBVIOUS
<1> HIDE DEF rid
<1>7. m \in EventMsg /\ ~Ends(m) /\ ~IsCall(m) /\ m.rid = rid /\ m.stop = kind
  BY <1>1, <1>3 DEF EventMsg, Event, StopWord, Ends, IsCall
<1>8. a \in [kind : Kinds \cup {"none"}, rid : Nat]
  BY <1>3
<1> HIDE DEF m, a
<1>9. exec' \in ExecType /\ exec'.up /\ exec'.turn = exec.turn /\ exec'.call = exec.call
      /\ exec'.open = exec.open /\ exec'.writing = exec.writing
  BY <1>1, <1>4, <1>8 DEF ExecType
<1>10. CallsAreKnown'
  <2>0. CallsInOrder(toComm, exec.call) /\ AsksAfterCalls(toComm, acp.lastCall)
    BY DEF CallsAreKnown
  <2>1. CallsInOrder(Append(toComm, m), exec.call)
    BY <1>1, <1>7, <2>0, CallsSent
  <2>2. AsksAfterCalls(Append(toComm, m), acp.lastCall)
    <3>1. CASE kind = "pending"
      <4>1. rid = acp.lastCall /\ NoCall(toComm)
        BY <1>4, <1>6, <3>1 DEF CallsAreKnown
      <4>2. \/ ~AsksAboutCall(m)
            \/ AsksAboutCall(m) /\ m.rid = acp.lastCall /\ NoCall(toComm)
        BY <1>7, <4>1
      <4>3. QED BY <1>1, <1>7, <2>0, <4>2, CallsSent
    <3>2. CASE kind # "pending"
      <4>1. ~AsksAboutCall(m)
        BY <1>7, <3>2 DEF AsksAboutCall
      <4>2. QED BY <1>1, <1>7, <2>0, <4>1, CallsSent
    <3>3. QED BY <3>1, <3>2
  <2>3. exec.open > 0 /\ ~exec.writing => acp.lastCall = exec.open /\ NoCall(Append(toComm, m))
    BY <1>1, <1>7, CallsSent DEF CallsAreKnown
  <2>4. QED BY <1>4, <1>9, <2>1, <2>2, <2>3 DEF CallsAreKnown
<1>11. QED BY <1>4, <1>5, <1>7, <1>9, <1>10, EmitStep

(* The Executor's turn ends.                                               *)
LEMMA EndStep ==
  ASSUME ServerInv, NEW m \in EventMsg, m.turn = exec.turn, m.type # "ask_user", m.type # "tool_call_requested",
         toComm' = Append(toComm, m),
         m.type = "turn_finished" \/ comm'.noFinish,
         UNCHANGED <<acp, toExec, used>>, exec.up, exec.turn # 0,
         exec' = [exec EXCEPT !.turn = 0, !.aborted = FALSE, !.open = 0, !.writing = FALSE],
         comm' \in CommType, comm'.turn = comm.turn, comm'.prompt = comm.prompt,
         comm'.session = comm.session, comm'.stalled = comm.stalled
  PROVE  ServerInv'
<1> USE DEF ServerInv
<1>1. TypeOK /\ toComm \in Seq(EventMsg) /\ exec \in ExecType /\ exec.call \in Nat /\ acp.lastCall \in Nat
  BY PartTypes
<1>2. exec' \in ExecType /\ exec'.up /\ exec'.turn = 0 /\ exec'.call = exec.call /\ exec'.open = 0
  BY <1>1 DEF ExecType
<1>3. /\ Ordered(Append(toComm, m), 0, toExec, comm.prompt)
      /\ \A t \in Nat : LiveIn(Append(toComm, m), 0, toExec, t) => LiveIn(toComm, exec.turn, toExec, t)
  BY TurnEnds DEF TurnsInOrder
<1>4. toComm' \in Seq(EventMsg)
  BY <1>1, AppendFacts
<1>5. TypeOK'
  BY <1>1, <1>2, <1>4 DEF TypeOK
<1>6. TurnWillEnd'
  <2>1. ASSUME m.type = "turn_finished" PROVE \E i \in 1 .. Len(toComm') : toComm'[i].type = "turn_finished"
    BY <1>1, <2>1, StillOnItsWay
  <2>2. QED BY <2>1 DEF TurnWillEnd
<1>7. CallsAreKnown'
  <2>1. ~IsCall(m) /\ ~AsksAboutCall(m) /\ CallsInOrder(toComm, exec.call) /\ AsksAfterCalls(toComm, acp.lastCall)
    BY DEF IsCall, AsksAboutCall, CallsAreKnown
  <2>2. CallsInOrder(Append(toComm, m), exec.call) /\ AsksAfterCalls(Append(toComm, m), acp.lastCall)
    BY <1>1, <2>1, CallsSent
  <2>3. QED BY <1>2, <2>2 DEF CallsAreKnown
<1>8. QED BY <1>2, <1>3, <1>5, <1>6, <1>7, ExecStep DEF Live

(* ... with turn_finished,                                                 *)
LEMMA ExecFinishesStep ==
  ASSUME ServerInv, ExecFinishes
  PROVE  ServerInv'
<1> DEFINE s == IF exec.aborted THEN "cancelled" ELSE "end"
           m == Event("turn_finished", exec.turn, s, 0)
<1>1. exec.turn \in Nat /\ comm \in CommType
  BY PartTypes DEF ServerInv
<1>2. s \in StopWord
  BY DEF StopWord
<1>3. /\ exec.up /\ exec.turn # 0 /\ toComm' = Append(toComm, m) /\ UNCHANGED <<acp, comm, toExec, used>>
      /\ exec' = [exec EXCEPT !.turn = 0, !.aborted = FALSE, !.open = 0, !.writing = FALSE]
  BY DEF ExecFinishes, Working, InTurn, Emit
<1> HIDE DEF s
<1>4. m \in EventMsg /\ m.turn = exec.turn /\ m.type = "turn_finished"
  BY <1>1, <1>2 DEF EventMsg, Event
<1> HIDE DEF m
<1>5. QED BY <1>1, <1>3, <1>4, EndStep

(* ... or with an error.                                                   *)
LEMMA ExecFailsStep ==
  ASSUME ServerInv, NEW category \in {"provider", "process"}, ExecFails(category)
  PROVE  ServerInv'
<1> DEFINE m == Event("error", exec.turn, category, 0)
<1>1. exec.turn \in Nat /\ comm \in CommType
  BY PartTypes DEF ServerInv
<1>2. /\ exec.up /\ exec.turn # 0 /\ toComm' = Append(toComm, m) /\ UNCHANGED <<acp, toExec, used>>
      /\ exec' = [exec EXCEPT !.turn = 0, !.aborted = FALSE, !.open = 0, !.writing = FALSE]
      /\ comm' = [comm EXCEPT !.noFinish = TRUE]
  BY DEF ExecFails, InTurn, Emit
<1>3. m \in EventMsg /\ m.turn = exec.turn /\ m.type = "error"
  BY <1>1 DEF EventMsg, Event, StopWord
<1> HIDE DEF m
<1>4. /\ comm' \in CommType /\ comm'.turn = comm.turn /\ comm'.prompt = comm.prompt /\ comm'.noFinish
      /\ comm'.session = comm.session /\ comm'.stalled = comm.stalled
  BY <1>1, <1>2 DEF CommType
<1>5. QED BY <1>2, <1>3, <1>4, EndStep

(* The Executor takes a message.                                           *)
LEMMA ExecReceivesStep ==
  ASSUME ServerInv, ExecReceives
  PROVE  ServerInv'
<1> USE DEF ServerInv
<1>1. /\ TypeOK /\ toComm \in Seq(EventMsg) /\ toExec \in Seq(OrderMsg) /\ exec \in ExecType
      /\ exec.turn \in Nat /\ exec.call \in Nat /\ acp.lastCall \in Nat
  BY PartTypes
<1>2. PICK i \in NextForExec :
        \E a \in {NoAsk, exec.ask} :
          /\ toExec' = RemoveAt(toExec, i)
          /\ exec' = [exec EXCEPT !.turn = IF toExec[i].type = "prompt" /\ exec.turn = 0 THEN toExec[i].rid ELSE exec.turn,
                                  !.aborted = exec.aborted \/ (toExec[i].type = "cancel" /\ exec.turn # 0),
                                  !.ask = a]
          /\ IF toExec[i].type = "prompt" /\ exec.turn # 0
             THEN Emit(Event("error", exec.turn, "none", 0))
             ELSE UNCHANGED toComm
  <2>1. PICK i \in NextForExec :
          LET m == toExec[i]
              open == exec.ask
              ends == CASE m.type = "continue" -> open.kind = "continue"
                        [] m.type = "cancel" -> open.kind \in {"continue", "question"}
                        [] m.type = "answer" -> open.kind = "question" /\ open.rid = m.rid
                        [] m.type = "resolve" -> open.kind = "pending" /\ open.rid = m.rid
                        [] OTHER -> FALSE
          IN  /\ toExec' = RemoveAt(toExec, i)
              /\ exec' = [exec EXCEPT !.turn = IF m.type = "prompt" /\ @ = 0 THEN m.rid ELSE @,
                                      !.aborted = @ \/ (m.type = "cancel" /\ exec.turn # 0),
                                      !.ask = IF ends THEN NoAsk ELSE @]
              /\ IF m.type = "prompt" /\ exec.turn # 0
                 THEN Emit(Event("error", exec.turn, "none", 0))
                 ELSE UNCHANGED toComm
    BY DEF ExecReceives
  <2> DEFINE ends == CASE toExec[i].type = "continue" -> exec.ask.kind = "continue"
                       [] toExec[i].type = "cancel" -> exec.ask.kind \in {"continue", "question"}
                       [] toExec[i].type = "answer" -> exec.ask.kind = "question" /\ exec.ask.rid = toExec[i].rid
                       [] toExec[i].type = "resolve" -> exec.ask.kind = "pending" /\ exec.ask.rid = toExec[i].rid
                       [] OTHER -> FALSE
             a == IF ends THEN NoAsk ELSE exec.ask
  <2>2. a \in {NoAsk, exec.ask}
    OBVIOUS
  <2>3. /\ toExec' = RemoveAt(toExec, i)
        /\ exec' = [exec EXCEPT !.turn = IF toExec[i].type = "prompt" /\ exec.turn = 0 THEN toExec[i].rid ELSE exec.turn,
                                !.aborted = exec.aborted \/ (toExec[i].type = "cancel" /\ exec.turn # 0),
                                !.ask = a]
        /\ IF toExec[i].type = "prompt" /\ exec.turn # 0
           THEN Emit(Event("error", exec.turn, "none", 0))
           ELSE UNCHANGED toComm
    BY <2>1
  <2> HIDE DEF ends, a
  <2>4. QED BY <2>2, <2>3
<1> DEFINE m == toExec[i]
           turn == IF m.type = "prompt" /\ exec.turn = 0 THEN m.rid ELSE exec.turn
           aborted == exec.aborted \/ (m.type = "cancel" /\ exec.turn # 0)
           w == Event("error", exec.turn, "none", 0)
<1>3. i \in 1 .. Len(toExec) /\ (m.type = "prompt" => i = 1) /\ Len(toExec) \in Nat
  BY <1>1, LenProperties DEF NextForExec
<1>4. m \in OrderMsg /\ m.rid \in Nat /\ RemoveAt(toExec, i) \in Seq(OrderMsg)
  <2>1. m \in OrderMsg
    BY <1>1, <1>3, ElementOfSeq
  <2>2. QED BY <1>1, <1>3, <2>1, RemoveFacts DEF OrderMsg
<1>5. turn \in Nat /\ aborted \in BOOLEAN
  BY <1>1, <1>4
<1>6. PICK a \in {NoAsk, exec.ask} :
        exec' = [exec EXCEPT !.turn = turn, !.aborted = aborted, !.ask = a]
  BY <1>2
<1>7. exec.up /\ UNCHANGED <<acp, comm, used>> /\ toExec' = RemoveAt(toExec, i)
  BY <1>2 DEF ExecReceives
<1>8. IF m.type = "prompt" /\ exec.turn # 0 THEN toComm' = Append(toComm, w) ELSE toComm' = toComm
  BY <1>2 DEF Emit
<1>9. w \in EventMsg /\ ~Ends(w) /\ w.type # "tool_call_requested" /\ w.type # "ask_user"
  BY <1>1 DEF Event, EventMsg, StopWord, Ends
<1>10. IsPrompt(m) <=> m.type = "prompt"
  BY DEF IsPrompt
<1>11. turn = IF m.type = "prompt" /\ exec.turn = 0 THEN m.rid ELSE exec.turn
  OBVIOUS
<1> HIDE DEF turn, aborted, w
<1>12. exec' \in ExecType /\ exec'.up /\ exec'.turn = turn /\ exec'.call = exec.call
       /\ exec'.open = exec.open /\ exec'.writing = exec.writing
  <2>1. a \in [kind : Kinds \cup {"none"}, rid : Nat]
    BY <1>1 DEF ExecType, NoAsk
  <2>2. exec' = [exec EXCEPT !.turn = turn, !.aborted = aborted, !.ask = a]
    BY <1>6
  <2>3. QED BY <1>1, <1>5, <1>7, <2>1, <2>2 DEF ExecType
<1> HIDE DEF m
<1>13. toComm' \in Seq(EventMsg)
  BY <1>1, <1>8, <1>9, AppendFacts
<1>14. TypeOK'
  BY <1>1, <1>4, <1>7, <1>12, <1>13 DEF TypeOK
<1>15. CallsAreKnown'
  <2>1. ~IsCall(w) /\ ~AsksAboutCall(w) /\ CallsInOrder(toComm, exec.call) /\ AsksAfterCalls(toComm, acp.lastCall)
    BY <1>9 DEF IsCall, AsksAboutCall, CallsAreKnown
  <2>2. /\ CallsInOrder(Append(toComm, w), exec.call) /\ AsksAfterCalls(Append(toComm, w), acp.lastCall)
        /\ NoCall(toComm) => NoCall(Append(toComm, w))
    BY <1>1, <1>9, <2>1, CallsSent
  <2>3. CASE toComm' = toComm
    BY <1>7, <1>12, <2>3 DEF CallsAreKnown
  <2>4. CASE toComm' = Append(toComm, w)
    BY <1>7, <1>12, <2>2, <2>4 DEF CallsAreKnown
  <2>5. QED BY <1>8, <2>3, <2>4
<1>16. Ordered(toComm, exec.turn, toExec, comm.prompt)
  BY DEF TurnsInOrder
<1>17. CASE m.type = "prompt" /\ exec.turn = 0
  <2>1. i = 1 /\ toExec # <<>> /\ IsPrompt(toExec[1])
    <3>1. i = 1 /\ m = toExec[1]
      BY <1>3, <1>17 DEF m
    <3>2. toExec # <<>>
      BY <1>3, EmptySeq
    <3>3. QED BY <1>10, <1>17, <3>1, <3>2
  <2>2. turn = toExec[1].rid /\ toComm' = toComm
    BY <1>8, <1>11, <1>17, <2>1 DEF m
  <2>3. /\ turn \in Nat \ {0}
        /\ Ordered(toComm, turn, RemoveAt(toExec, 1), comm.prompt)
        /\ \A t \in Nat : LiveIn(toComm, turn, RemoveAt(toExec, 1), t) => LiveIn(toComm, 0, toExec, t)
    BY <1>16, <1>17, <2>1, <2>2, PromptTaken
  <2>4. TurnWillEnd'
    BY <1>12, <2>3 DEF TurnWillEnd
  <2>5. QED BY <1>7, <1>12, <1>14, <1>15, <1>17, <2>1, <2>2, <2>3, <2>4, ExecStep DEF Live
<1>18. CASE ~(m.type = "prompt" /\ exec.turn = 0)
  <2>1. turn = exec.turn /\ (~IsPrompt(toExec[i]) \/ exec.turn # 0)
    BY <1>10, <1>11, <1>18 DEF m
  <2>2. /\ Ordered(toComm, exec.turn, RemoveAt(toExec, i), comm.prompt)
        /\ \A t \in Nat : LiveIn(toComm, exec.turn, RemoveAt(toExec, i), t) => LiveIn(toComm, exec.turn, toExec, t)
        /\ \A k \in 1 .. Len(toExec) : k # i =>
              \E j \in 1 .. Len(RemoveAt(toExec, i)) : RemoveAt(toExec, i)[j] = toExec[k]
    BY <1>3, <1>16, <2>1, OrderTaken
  <2>3. /\ Ordered(toComm', exec.turn, RemoveAt(toExec, i), comm.prompt)
        /\ \A t \in Nat : LiveIn(toComm', exec.turn, RemoveAt(toExec, i), t)
                            => LiveIn(toComm, exec.turn, RemoveAt(toExec, i), t)
    <3>1. CASE toComm' = toComm
      BY <2>2, <3>1
    <3>2. CASE toComm' = Append(toComm, w)
      BY <1>9, <2>2, <3>2, EventAppended
    <3>3. QED BY <1>8, <3>1, <3>2
  <2>4. TurnWillEnd'
    <3>1. CASE exec.turn # 0
      BY <1>12, <2>1, <3>1 DEF TurnWillEnd
    <3>2. CASE exec.turn = 0
      <4>1. toComm' = toComm /\ ~IsPrompt(toExec[i])
        BY <1>8, <2>1, <3>2
      <4>2. (\E k \in 1 .. Len(toExec) : IsPrompt(toExec[k])) => \E j \in 1 .. Len(toExec') : IsPrompt(toExec'[j])
        BY <1>7, <2>2, <4>1
      <4>3. QED BY <1>7, <1>12, <2>1, <4>1, <4>2 DEF TurnWillEnd
    <3>3. QED BY <3>1, <3>2
  <2>5. QED BY <1>7, <1>12, <1>14, <1>15, <2>1, <2>2, <2>3, <2>4, ExecStep DEF Live
<1>19. QED BY <1>17, <1>18

-----------------------------------------------------------------------------
(* Theorems.                                                               *)

(* At the start nothing has been asked.                                    *)
LEMMA ServerInitInv == Init => ServerInv
<1> SUFFICES ASSUME Init PROVE ServerInv
  OBVIOUS
<1>1. /\ acp = [state |-> "uninitialized", form |-> FALSE, opening |-> "no", lastCall |-> 0, pend |-> NoPrompt,
                trips |-> {}, answers |-> [r \in Prompts |-> <<>>]]
      /\ comm = [turn |-> "idle", prompt |-> 0, session |-> FALSE, restarted |-> FALSE,
                 stalled |-> {}, noFinish |-> FALSE]
      /\ exec = Fresh /\ toExec = <<>> /\ toComm = <<>>
      /\ used = [prompts |-> 0, cancels |-> 0, calls |-> 0, asks |-> 0, exits |-> 0, opens |-> 0]
  BY DEF Init
<1> DEFINE none == [r \in Prompts |-> <<>>]
<1>2. none \in [Prompts -> Seq(AnswerType)] /\ \A r \in Prompts : none[r] = <<>>
  OBVIOUS
<1>3. acp.pend = NoPrompt /\ acp.trips = {} /\ acp.answers = none /\ acp.opening = "no"
  BY <1>1
<1> HIDE DEF none
<1>4. NoPrompt \in PendType /\ 0 \in 0 .. MaxPrompts
  BY BoundsAreNaturals DEF NoPrompt, Pending, PendType
<1>5. acp \in AcpType
  BY <1>1, <1>2, <1>3, <1>4, AcpFields
<1>6. comm \in CommType /\ exec \in ExecType /\ used \in UsedType
  BY <1>1, <1>4 DEF CommType, ExecType, UsedType, Fresh, NoAsk
<1>7. comm.turn = "idle" /\ comm.prompt = 0 /\ exec.turn = 0 /\ exec.up /\ exec.open = 0 /\ used.prompts = 0
  BY <1>1 DEF Fresh
<1>8. TypeOK
  <2>1. toExec \in Seq(OrderMsg) /\ toComm \in Seq(EventMsg)
    BY <1>1
  <2>2. QED BY <1>3, <1>5, <1>6, <2>1, FS_EmptySet DEF TypeOK
<1>9. PendingIsCurrent
  BY <1>2, <1>3, <1>7 DEF PendingIsCurrent
<1>10. SessionAndChannels
  BY <1>3, <1>7 DEF SessionAndChannels
<1>11. AnsweredOnce
  <2>1. ASSUME NEW r \in Prompts PROVE Len(acp.answers[r]) <= 1 /\ acp.answers[r] = <<>> /\ ~(r <= used.prompts)
    <3>1. acp.answers[r] = <<>>
      BY <1>2, <1>3
    <3>2. Len(acp.answers[r]) = 0
      BY <3>1
    <3>3. QED BY <1>7, <3>1, <3>2, BoundsAreNaturals DEF Prompts
  <2>2. QED BY <2>1 DEF AnsweredOnce
<1>12. OwnAnswer
  <2>1. ASSUME NEW r \in Prompts PROVE Len(acp.answers[r]) = 0
    BY <1>2, <1>3
  <2>2. QED BY <2>1 DEF OwnAnswer
<1>13. Len(toComm) = 0 /\ Len(toExec) = 0
  BY <1>1
<1>14. TurnsInOrder
  BY <1>7, <1>8, <1>13 DEF TurnsInOrder, Ordered, TypeOK
<1>15. \A t \in Nat : ~Live(t)
  BY <1>7, <1>13 DEF Live, LiveIn
<1>16. LiveIsCurrent /\ AnsweredGoesOn /\ TurnWillEnd
  BY <1>7, <1>15 DEF LiveIsCurrent, AnsweredGoesOn, TurnWillEnd
<1>17. CallsAreKnown
  BY <1>7, <1>13 DEF CallsAreKnown, CallsInOrder, AsksAfterCalls
<1>18. PermissionNamesItsCall
  BY <1>3 DEF PermissionNamesItsCall
<1>19. QED BY <1>8, <1>9, <1>10, <1>11, <1>12, <1>14, <1>16, <1>17, <1>18 DEF ServerInv

(* Every step of the server, the Communicator and the Executor keeps it.   *)
LEMMA ServerStepInv == ServerInv /\ [Next]_vars => ServerInv'
<1> SUFFICES ASSUME ServerInv, [Next]_vars PROVE ServerInv'
  OBVIOUS
<1>1. CASE UNCHANGED vars
  <2>1. UNCHANGED <<acp, comm, exec, toExec, toComm, used>>
    BY <1>1 DEF vars
  <2>2. TypeOK' /\ SessionAndChannels'
    BY <2>1 DEF ServerInv, TypeOK, SessionAndChannels
  <2>3. QED BY <2>1, <2>2, QuietStep
<1>2. CASE \E form \in BOOLEAN : Initialize(form)
  BY <1>2, InitializeStep
<1>3. CASE HandleSessionOpen BY <1>3, HandleSessionOpenStep
<1>4. CASE SessionOpening BY <1>4, SessionOpeningStep
<1>5. CASE SwitchFails BY <1>5, SwitchFailsStep
<1>6. CASE SessionOpened BY <1>6, SessionOpenedStep
<1>7. CASE \E k \in {"text", "builtin", "malformed"} : HandleSessionPrompt(k)
  BY <1>7, HandleSessionPromptStep
<1>8. CASE HandleSessionCancel
  <2>1. acp.pend # NoPrompt /\ Use("cancels") /\ StartCancel(FALSE) /\ FALSE \in BOOLEAN
    BY <1>8 DEF HandleSessionCancel
  <2>2. QED BY <2>1, StartCancelStep
<1>9. CASE \E r \in Prompts : HandleCancelRequest(r)
  <2>1. PICK r \in Prompts : HandleCancelRequest(r)
    BY <1>9
  <2>2. acp.pend # NoPrompt
    BY <2>1, NoPromptIsZero, BoundsAreNaturals DEF HandleCancelRequest, Prompts
  <2>3. Use("cancels") /\ StartCancel(TRUE) /\ TRUE \in BOOLEAN
    BY <2>1 DEF HandleCancelRequest
  <2>4. QED BY <2>2, <2>3, StartCancelStep
<1>10. CASE CancelTimer BY <1>10, CancelTimerStep
<1>11. CASE OnEof BY <1>11, OnEofStep
<1>12. CASE \E t \in acp.trips, allow \in BOOLEAN : ClientResponds(t, allow)
  BY <1>12, ClientRespondsStep
<1>13. CASE CommReceives BY <1>13, CommReceivesStep
<1>14. CASE ExecutorExits BY <1>14, ExecutorExitsStep
<1>15. CASE Respawned BY <1>15, RespawnedStep
<1>16. CASE RespawnFails BY <1>16, RespawnFailsStep
<1>17. CASE ExecReceives BY <1>17, ExecReceivesStep
<1>18. CASE ExecCalls BY <1>18, ExecCallsStep
<1>19. CASE ExecFinishes BY <1>19, ExecFinishesStep
<1>20. CASE \E k \in Kinds : ExecAsks(k)
  BY <1>20, ExecAsksStep
<1>21. CASE \E c \in {"provider", "process"} : ExecFails(c)
  BY <1>21, ExecFailsStep
<1>22. QED BY <1>1, <1>2, <1>3, <1>4, <1>5, <1>6, <1>7, <1>8, <1>9, <1>10, <1>11, <1>12, <1>13, <1>14, <1>15,
              <1>16, <1>17, <1>18, <1>19, <1>20, <1>21 DEF Next

(* The turns that end, run and wait are in the order of their prompts, and  *)
(* all but the current one are given up, whatever is cancelled, exits or    *)
(* is switched in between.                                                 *)
THEOREM ServerIsSound == Spec => []ServerInv
<1>1. Spec => Init /\ [][Next]_vars
  BY DEF Spec
<1>2. QED BY <1>1, ServerInitInv, ServerStepInv, PTL

(* No prompt is answered twice or while it is pending, and none but the     *)
(* pending one is without its answer.                                      *)
THEOREM EachIsAnsweredOnce == Spec => []AnsweredOnce
<1>1. ServerInv => AnsweredOnce
  BY DEF ServerInv
<1>2. QED BY <1>1, ServerIsSound, PTL

(* A prompt is answered by its own turn's end, or by one that was given up. *)
THEOREM AnswersAreTheirOwn == Spec => []OwnAnswer
<1>1. ServerInv => OwnAnswer
  BY DEF ServerInv
<1>2. QED BY <1>1, ServerIsSound, PTL

(* The call a permission shows is the call it is about.                    *)
THEOREM PermissionsNameTheirCall == Spec => []PermissionNamesItsCall
<1>1. ServerInv => PermissionNamesItsCall
  BY DEF ServerInv
<1>2. QED BY <1>1, ServerIsSound, PTL

(* A quiet Executor leaves no turn behind, unless one ended with an error.  *)
THEOREM QuietMeansIdle == Spec => []NoGhostTurn
<1>1. ServerInv => NoGhostTurn
  <2>1. ASSUME ServerInv, exec.up, exec.turn = 0, toExec = <<>>, toComm = <<>>, comm.turn # "idle", ~comm.noFinish
        PROVE  FALSE
    <3>1. Len(toComm) = 0 /\ Len(toExec) = 0
      BY <2>1
    <3>2. QED BY <2>1, <3>1 DEF ServerInv, TurnWillEnd
  <2>2. QED BY <2>1 DEF NoGhostTurn
<1>2. QED BY <1>1, ServerIsSound, PTL

=============================================================================
