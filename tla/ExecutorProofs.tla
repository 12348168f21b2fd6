--------------------------- MODULE ExecutorProofs ---------------------------
(***************************************************************************)
(* The Executors of a session and the prompts that are replayed to them:   *)
(* for every set of prompts, every restart budget and any number of        *)
(* Executors, crashes and calls.                                           *)
(*                                                                         *)
(*  - One Executor works on the session, and after a halt none starts a    *)
(*    tool, as long as no fault hits the start of an Executor (OneInv).    *)
(*  - A prompt is in the store at most once more than the budget has       *)
(*    restarts, under every fault (ReplayInv).                             *)
(*  - A prompt that the Communicator took is in the session or on its way  *)
(*    to an Executor, and a turn in a healthy Executor is one that the     *)
(*    Communicator knows of, as long as no fault hits a start (WorkInv).   *)
(*  - A call is closed once in the store, as long as no fault hits a start *)
(*    (CloseInv).                                                          *)
(***************************************************************************)
EXTENDS CommunicatorProofs

(* No Executor dies or is late before its session is open, and no prompt   *)
(* is typed meanwhile.                                                     *)
NoStartFaults == Faults \cap {"start_exit", "start_timeout", "start_submit"} = {}

After == [prompt : Prompt \cup {None}, note : BOOLEAN]
PipeMsg ==
  [type : {"prompt"}, prompt : Prompt \cup {None}, note : BOOLEAN]
    \cup [type : {"session_open", "cancel", "halt", "shutdown"}]
    \cup [type : {"answer"}, call : Call \cup {None}]
CommType ==
  [turn : {"idle", "running", "waiting"}, prompt : Prompt \cup {None},
   used : Nat, idleExits : Nat, stopped : BOOLEAN, halted : BOOLEAN,
   shutting : {"no", "stopping", "done"}, epoch : Nat, live : Nat,
   child : [Epoch -> {"none", "hello", "open", "up", "late", "gone"}],
   after : [Epoch -> After], slot : Prompt \cup {None},
   ask : Call \cup {None}, pipe : [Epoch -> Seq(PipeMsg)]]

(* The only child that is neither ahead nor gone is the live one, and it   *)
(* is not late.                                                            *)
OneLive(c) ==
  /\ \A e \in Epoch : /\ c.child[e] \notin {"none", "gone"} => e = c.live
                       /\ c.child[e] # "late"
  /\ c.live \in Epoch => c.child[c.live] \notin {"none", "gone"}
  /\ \A e \in Epoch : e > c.epoch => c.child[e] = "none"
  /\ c.live <= c.epoch
  /\ c.stopped => c.live = 0

(* No prompt is on its way to an Executor before its session is open, and  *)
(* a shutdown only once it has begun.                                      *)
HasMsg(q, t) == \E i \in 1 .. Len(q) : q[i].type = t
PipesAreRight(c) ==
  \A e \in Epoch :
    /\ c.child[e] = "none" => c.pipe[e] = <<>> /\ c.after[e].prompt = None
    /\ c.child[e] \in {"hello", "open"} => ~HasMsg(c.pipe[e], "prompt")
    /\ HasMsg(c.pipe[e], "shutdown") => c.shutting # "no"

CommInvariant(c) ==
  /\ c \in CommType /\ OneLive(c) /\ PipesAreRight(c)
  /\ c.halted => c.turn = "idle"

(* How far an Executor can be at each stage of its start.                  *)
EndSaid(q) == \E i \in 1 .. Len(q) : q[i].type = "event" /\ q[i].line.kind = "turn_finished"
ExecIsRight(c, e) ==
  /\ c.child[e] = "none" => exec[e] = NewExec /\ toComm[e] = <<>>
  /\ c.child[e] = "gone" => exec[e].pc = "dead"
  /\ c.child[e] \in {"hello", "open"} =>
       /\ exec[e].pc \notin InTurn /\ ~EndSaid(toComm[e])
       /\ c.shutting = "no" => exec[e].pc # "dead"

(* An Executor that says it is halted is halted; in a halted run one that  *)
(* is not halted has no turn and gets none.                                *)
HaltIsRight(c, e) ==
  /\ HasMsg(toComm[e], "halted") => exec[e].halted \/ exec[e].pc = "dead"
  /\ c.halted =>
       \/ exec[e].pc = "dead" \/ exec[e].halted
       \/ exec[e].pc \notin InTurn /\ ~HasMsg(c.pipe[e], "prompt") /\ c.after[e].prompt = None

ProcessesAreRight(c) == \A e \in Epoch : ExecIsRight(c, e) /\ HaltIsRight(c, e)
OneInv == CommInvariant(comm) /\ ProcessesAreRight(comm)

-----------------------------------------------------------------------------
(* Messages in a pipe.                                                     *)

(* Nothing is in an empty pipe.                                            *)
LEMMA EmptyHas == ~EndSaid(<<>>) /\ \A t : ~HasMsg(<<>>, t)
BY EmptySeq DEF HasMsg, EndSaid

(* A message that is written adds its own type.                            *)
LEMMA AppendHas ==
  ASSUME NEW S, NEW q \in Seq(S), NEW m \in S
  PROVE  /\ \A t : HasMsg(Append(q, m), t) => HasMsg(q, t) \/ m.type = t
         /\ EndSaid(Append(q, m)) =>
              EndSaid(q) \/ (m.type = "event" /\ m.line.kind = "turn_finished")
<1>1. /\ Len(q) \in Nat /\ Len(Append(q, m)) = Len(q) + 1
      /\ Append(q, m)[Len(q) + 1] = m
      /\ \A i \in 1 .. Len(q) : Append(q, m)[i] = q[i]
  BY AppendFacts, AppendProperties
<1>2. \A i \in 1 .. Len(q) + 1 : i \in 1 .. Len(q) \/ i = Len(q) + 1
  BY <1>1
<1>3. QED BY <1>1, <1>2 DEF HasMsg, EndSaid

(* Reading the first message adds none.                                    *)
LEMMA TailHas ==
  ASSUME NEW S, NEW q \in Seq(S), q # <<>>
  PROVE  /\ \A t : HasMsg(Tail(q), t) => HasMsg(q, t)
         /\ EndSaid(Tail(q)) => EndSaid(q)
<1>1. Tail(q) \in Seq(S) /\ Len(Tail(q)) \in Nat /\ Len(q) \in Nat /\ Len(q) = Len(Tail(q)) + 1
      /\ \A i \in 1 .. Len(Tail(q)) : Tail(q)[i] = q[i + 1]
  OBVIOUS
<1>2. \A i \in 1 .. Len(Tail(q)) : i + 1 \in 1 .. Len(q)
  BY <1>1
<1>3. QED BY <1>1, <1>2 DEF HasMsg, EndSaid

(* The first message is in the pipe.                                       *)
LEMMA HeadHas ==
  ASSUME NEW S, NEW q \in Seq(S), q # <<>>
  PROVE  /\ Head(q) \in S /\ HasMsg(q, Head(q).type)
         /\ Head(q).type = "event" /\ Head(q).line.kind = "turn_finished" => EndSaid(q)
<1>1. Head(q) = q[1] /\ 1 \in 1 .. Len(q) /\ Head(q) \in S
  OBVIOUS
<1>2. QED BY <1>1 DEF HasMsg, EndSaid

(* Taking the message at i leaves the others in order.                     *)
LEMMA CutAt ==
  ASSUME NEW S, NEW q \in Seq(S), NEW i \in 1 .. Len(q)
  PROVE  LET r == SubSeq(q, 1, i - 1) \o SubSeq(q, i + 1, Len(q))
         IN  /\ r \in Seq(S) /\ Len(r) = Len(q) - 1
             /\ \A k \in 1 .. Len(q) - 1 : r[k] = IF k < i THEN q[k] ELSE q[k + 1]
<1> DEFINE a == SubSeq(q, 1, i - 1)
           b == SubSeq(q, i + 1, Len(q))
<1>1. Len(q) \in Nat /\ i \in Nat /\ i >= 1 /\ i <= Len(q)
  BY LenProperties
<1>2. /\ a \in Seq(S) /\ Len(a) = i - 1
      /\ \A k \in 1 .. i - 1 : a[k] = q[k]
  BY <1>1
<1>3. /\ b \in Seq(S) /\ Len(b) = Len(q) - i
      /\ \A k \in 1 .. Len(q) - i : b[k] = q[k + i]
  BY <1>1
<1> HIDE DEF a, b
<1>4. /\ a \o b \in Seq(S) /\ Len(a \o b) = Len(a) + Len(b)
      /\ \A k \in 1 .. Len(a) + Len(b) :
           (a \o b)[k] = IF k <= Len(a) THEN a[k] ELSE b[k - Len(a)]
  BY <1>2, <1>3, ConcatProperties
<1>5. ASSUME NEW k \in 1 .. Len(q) - 1
      PROVE  (a \o b)[k] = IF k < i THEN q[k] ELSE q[k + 1]
  <2>1. CASE k < i
    BY <1>1, <1>2, <1>3, <1>4, <2>1
  <2>2. CASE ~(k < i)
    <3>1. k - (i - 1) \in 1 .. Len(q) - i /\ k - (i - 1) + i = k + 1
      BY <1>1, <2>2
    <3>2. (a \o b)[k] = b[k - (i - 1)]
      BY <1>1, <1>2, <1>3, <1>4, <2>2
    <3>3. QED BY <1>3, <2>2, <3>1, <3>2
  <2>3. QED BY <2>1, <2>2
<1>6. Len(a \o b) = Len(q) - 1
  BY <1>1, <1>2, <1>3, <1>4
<1>7. QED BY <1>4, <1>5, <1>6 DEF a, b

(* Neither does taking one from the middle add any.                        *)
LEMMA CutHas ==
  ASSUME NEW S, NEW q \in Seq(S), NEW i \in 1 .. Len(q)
  PROVE  LET r == SubSeq(q, 1, i - 1) \o SubSeq(q, i + 1, Len(q))
         IN  r \in Seq(S) /\ \A t : HasMsg(r, t) => HasMsg(q, t)
<1> DEFINE r == SubSeq(q, 1, i - 1) \o SubSeq(q, i + 1, Len(q))
<1>1. /\ r \in Seq(S) /\ Len(r) = Len(q) - 1
      /\ \A k \in 1 .. Len(q) - 1 : r[k] = IF k < i THEN q[k] ELSE q[k + 1]
  BY CutAt
<1>2. Len(q) \in Nat
  OBVIOUS
<1> HIDE DEF r
<1>3. \A k \in 1 .. Len(q) - 1 : k \in 1 .. Len(q) /\ k + 1 \in 1 .. Len(q)
  BY <1>2
<1>4. QED BY <1>1, <1>3 DEF HasMsg, r

-----------------------------------------------------------------------------
(* What the handlers of the Communicator do to its children.  A child is   *)
(* spawned and opened, never called back, and a halted run sends nothing   *)
(* that begins a turn to an Executor that could begin one.                 *)

Quiet(e) == exec[e].pc = "dead" \/ exec[e].halted
Goes(c, d) ==
  /\ \A e \in Epoch :
       /\ d.child[e] = "none" => c.child[e] = "none"
       /\ d.child[e] = "gone" => c.child[e] = "gone"
       /\ d.child[e] \in {"hello", "open"} => c.child[e] \in {"none", "hello", "open"}
       /\ c.halted /\ ~Quiet(e) =>
            /\ HasMsg(d.pipe[e], "prompt") => HasMsg(c.pipe[e], "prompt")
            /\ d.after[e].prompt # None => d.after[e].prompt = c.after[e].prompt
  /\ d.shutting = "no" => c.shutting = "no"
  /\ d.halted = c.halted
Moves(c, d) == CommInvariant(d) /\ Goes(c, d)

(* One handler after the other.                                            *)
LEMMA MovesTwice ==
  ASSUME NEW c, NEW d, NEW x, Moves(c, d), Moves(d, x)
  PROVE  Moves(c, x)
BY DEF Moves, Goes

(* A change of the turn, the budget, the slot and the like.                *)
LEMMA OnlyBookkeeping ==
  ASSUME NEW c, CommInvariant(c), NEW d \in CommType,
         d.epoch = c.epoch, d.live = c.live, d.child = c.child, d.after = c.after,
         d.pipe = c.pipe, d.shutting = c.shutting \/ d.shutting # "no", d.halted = c.halted,
         d.halted => d.turn = "idle",
         d.stopped => c.stopped \/ c.live = 0
  PROVE  Moves(c, d)
<1>1. OneLive(d) /\ PipesAreRight(d)
  BY DEF CommInvariant, OneLive, PipesAreRight
<1>2. QED BY <1>1 DEF Moves, Goes, CommInvariant

(* A message to a child that is there; a prompt only once its session is   *)
(* open.                                                                   *)
LEMMA SendToMoves ==
  ASSUME NEW c, CommInvariant(c), NEW e \in Nat, NEW m \in PipeMsg,
         e \in Epoch => c.child[e] # "none",
         m.type = "prompt" /\ e \in Epoch =>
           c.child[e] \notin {"hello", "open"} /\ (~c.halted \/ Quiet(e)),
         m.type = "shutdown" => c.shutting # "no"
  PROVE  Moves(c, SendTo(c, e, m))
<1> DEFINE d == SendTo(c, e, m)
<1>1. c \in CommType
  BY DEF CommInvariant
<1>2. \A f \in Epoch : Append(c.pipe[f], m) \in Seq(PipeMsg)
  BY <1>1 DEF CommType
<1>3. d \in CommType
  BY <1>1, <1>2 DEF CommType, SendTo
<1>4. /\ d.epoch = c.epoch /\ d.live = c.live /\ d.child = c.child /\ d.after = c.after
      /\ d.shutting = c.shutting /\ d.halted = c.halted /\ d.turn = c.turn /\ d.stopped = c.stopped
  BY <1>1 DEF CommType, SendTo
<1>5. \A f \in Epoch : d.pipe[f] = IF f = e THEN Append(c.pipe[e], m) ELSE c.pipe[f]
  BY <1>1 DEF CommType, SendTo
<1>6. \A f \in Epoch : \A t : HasMsg(d.pipe[f], t) => HasMsg(c.pipe[f], t) \/ (f = e /\ m.type = t)
  <2>1. ASSUME NEW f \in Epoch, NEW t, HasMsg(d.pipe[f], t)
        PROVE  HasMsg(c.pipe[f], t) \/ (f = e /\ m.type = t)
    <3>1. CASE f = e
      <4>1. c.pipe[e] \in Seq(PipeMsg)
        BY <1>1, <3>1 DEF CommType
      <4>2. HasMsg(Append(c.pipe[e], m), t)
        BY <1>5, <2>1, <3>1
      <4>3. QED BY <3>1, <4>1, <4>2, AppendHas
    <3>2. QED BY <1>5, <2>1, <3>1
  <2>2. QED BY <2>1
<1> HIDE DEF d
<1>7. OneLive(d)
  BY <1>4 DEF CommInvariant, OneLive
<1>8. PipesAreRight(d)
  BY <1>4, <1>5, <1>6 DEF CommInvariant, PipesAreRight
<1>9. QED BY <1>3, <1>4, <1>6, <1>7, <1>8 DEF Moves, Goes, CommInvariant, d

(* The same to the live child, if any.                                     *)
LEMMA SendLiveMoves ==
  ASSUME NEW c, CommInvariant(c), NEW m \in PipeMsg,
         m.type = "prompt" /\ c.live \in Epoch =>
           c.child[c.live] = "up" /\ (~c.halted \/ Quiet(c.live)),
         m.type = "shutdown" => c.shutting # "no"
  PROVE  Moves(c, SendLive(c, m))
<1>1. c \in CommType /\ c.live \in Nat /\ (c.live \in Epoch => c.child[c.live] # "none")
  BY DEF CommInvariant, CommType, OneLive
<1>2. CASE c.live = 0
  <2>1. SendLive(c, m) = c
    BY <1>2 DEF SendLive
  <2>2. QED BY <2>1 DEF Moves, Goes
<1>3. CASE c.live # 0
  <2>1. SendLive(c, m) = SendTo(c, c.live, m)
    BY <1>3 DEF SendLive
  <2>2. QED BY <1>1, <2>1, SendToMoves
<1>4. QED BY <1>2, <1>3

(* A new epoch, while none is live.                                        *)
LEMMA SpawnMoves ==
  ASSUME NEW c, CommInvariant(c), NEW a \in After, ~c.stopped, c.live \notin Epoch,
         c.halted => a.prompt = None
  PROVE  Moves(c, SpawnAndHello(c, a))
<1> DEFINE d == SpawnAndHello(c, a)
           n == c.epoch + 1
<1>1. c \in CommType /\ c.epoch \in Nat /\ n \in Nat /\ n > c.epoch /\ n # 0
  BY DEF CommInvariant, CommType
<1>2. d \in CommType
  BY <1>1 DEF CommType, SpawnAndHello
<1>3. /\ d.epoch = n /\ d.live = n /\ d.pipe = c.pipe /\ d.stopped = c.stopped
      /\ d.shutting = c.shutting /\ d.halted = c.halted /\ d.turn = c.turn
  BY <1>1 DEF CommType, SpawnAndHello
<1>4. \A f \in Epoch : /\ d.child[f] = IF f = n THEN "hello" ELSE c.child[f]
                       /\ d.after[f] = IF f = n THEN a ELSE c.after[f]
  BY <1>1 DEF CommType, SpawnAndHello
<1>5. n \in Epoch => c.child[n] = "none"
  BY <1>1 DEF CommInvariant, OneLive
<1> HIDE DEF d
<1>6. OneLive(d)
  <2>1. \A f \in Epoch : c.child[f] \in {"none", "gone"}
    BY DEF CommInvariant, OneLive
  <2>2. \A f \in Epoch : f > n => f > c.epoch
    BY <1>1 DEF Epoch
  <2> HIDE DEF n
  <2>3. QED BY <1>1, <1>3, <1>4, <2>1, <2>2 DEF CommInvariant, OneLive
<1>7. PipesAreRight(d)
  <2>1. n \in Epoch => c.pipe[n] = <<>>
    BY <1>5 DEF CommInvariant, PipesAreRight
  <2> HIDE DEF n
  <2>2. QED BY <1>3, <1>4, <2>1, EmptyHas DEF CommInvariant, PipesAreRight
<1>8. Goes(c, d)
  <2> HIDE DEF n
  <2>1. QED BY <1>3, <1>4, <1>5 DEF Goes
<1>9. QED BY <1>2, <1>3, <1>6, <1>7, <1>8 DEF Moves, CommInvariant, d

(* A respawn, which does nothing once the shutdown has begun.              *)
LEMMA RespawnMoves ==
  ASSUME NEW c, CommInvariant(c), NEW a \in After, ~c.stopped, c.live \notin Epoch,
         c.halted => a.prompt = None
  PROVE  Moves(c, Respawn(c, a))
<1>1. CASE c.shutting # "no"
  <2>1. Respawn(c, a) = c
    BY <1>1 DEF Respawn
  <2>2. QED BY <2>1 DEF Moves, Goes
<1>2. CASE c.shutting = "no"
  <2>1. Respawn(c, a) = SpawnAndHello(c, a)
    BY <1>2 DEF Respawn
  <2>2. QED BY <2>1, SpawnMoves
<1>3. QED BY <1>1, <1>2

(* A submitted prompt goes to the Executor that is up, or to a new one     *)
(* when none is live.                                                      *)
LEMMA SubmitMoves ==
  ASSUME NEW c, CommInvariant(c), NEW p \in Prompt,
         c.live \in Epoch => c.halted \/ c.child[c.live] = "up"
  PROVE  Moves(c, SubmitPrompt(c, p))
<1>1. CASE c.halted
  <2>1. SubmitPrompt(c, p) = c
    BY <1>1 DEF SubmitPrompt
  <2>2. QED BY <2>1 DEF Moves, Goes
<1>2. CASE ~c.halted
  <2> DEFINE d == StartTurn(c, p)
             x == [d EXCEPT !.stopped = FALSE]
             a == [prompt |-> p, note |-> FALSE]
  <2>1. c \in CommType /\ a \in After
    BY DEF CommInvariant, After
  <2>2. /\ d \in CommType /\ d.epoch = c.epoch /\ d.live = c.live /\ d.child = c.child
        /\ d.after = c.after /\ d.pipe = c.pipe /\ d.shutting = c.shutting
        /\ d.halted = c.halted /\ d.stopped = c.stopped
    BY <2>1 DEF StartTurn, CommType
  <2>3. SubmitPrompt(c, p) = IF d.stopped \/ ~LiveReady(d) THEN Respawn(x, a)
                                                           ELSE SendPrompt(d, p, FALSE)
    BY <1>2 DEF SubmitPrompt
  <2> HIDE DEF d, a
  <2>4. Moves(c, d)
    BY <1>2, <2>2, OnlyBookkeeping
  <2>5. CASE d.stopped \/ ~LiveReady(d)
    <3>1. /\ x \in CommType /\ x.epoch = d.epoch /\ x.live = d.live /\ x.child = d.child
          /\ x.after = d.after /\ x.pipe = d.pipe /\ x.shutting = d.shutting
          /\ x.halted = d.halted /\ ~x.stopped
      BY <2>2 DEF CommType
    <3> HIDE DEF x
    <3>2. Moves(d, x)
      BY <1>2, <2>2, <2>4, <3>1, OnlyBookkeeping DEF Moves
    <3>3. x.live \notin Epoch
      <4>1. 0 \notin Epoch
        BY DEF Epoch
      <4>2. CASE d.stopped
        BY <2>2, <3>1, <4>1, <4>2 DEF CommInvariant, OneLive
      <4>3. CASE ~LiveReady(d)
        BY <1>2, <2>2, <3>1, <4>1, <4>3 DEF LiveReady
      <4>4. QED BY <2>5, <4>2, <4>3
    <3>4. Moves(x, Respawn(x, a))
      BY <1>2, <2>1, <2>2, <3>1, <3>2, <3>3, RespawnMoves DEF Moves
    <3>5. QED BY <2>3, <2>4, <2>5, <3>2, <3>4, MovesTwice
  <2>6. CASE ~(d.stopped \/ ~LiveReady(d))
    <3> DEFINE m == PromptMsg(p, FALSE)
    <3>1. m \in PipeMsg /\ m.type = "prompt"
      BY DEF PromptMsg, PipeMsg
    <3>2. SubmitPrompt(c, p) = SendLive(d, m)
      BY <2>3, <2>6 DEF SendPrompt
    <3> HIDE DEF m
    <3>3. Moves(d, SendLive(d, m))
      BY <1>2, <2>2, <2>4, <3>1, SendLiveMoves DEF Moves
    <3>4. QED BY <2>4, <3>2, <3>3, MovesTwice
  <2>7. QED BY <2>5, <2>6
<1>3. QED BY <1>1, <1>2

(* The end of a turn, with the line that waited for it.                    *)
LEMMA TurnEndMoves ==
  ASSUME NEW c, CommInvariant(c),
         c.live \in Epoch => c.halted \/ c.shutting # "no" \/ c.child[c.live] = "up"
  PROVE  Moves(c, OnTurnEnd(c))
<1> DEFINE d == [c EXCEPT !.slot = None]
<1>1. c \in CommType
  BY DEF CommInvariant
<1>2. /\ d \in CommType /\ d.epoch = c.epoch /\ d.live = c.live /\ d.child = c.child
      /\ d.after = c.after /\ d.pipe = c.pipe /\ d.shutting = c.shutting
      /\ d.halted = c.halted /\ d.turn = c.turn /\ d.stopped = c.stopped
  BY <1>1 DEF CommType
<1>3. OnTurnEnd(c) = IF c.slot = None \/ c.shutting # "no" THEN d ELSE SubmitPrompt(d, c.slot)
  BY DEF OnTurnEnd
<1> HIDE DEF d
<1>4. Moves(c, d)
  BY <1>2, OnlyBookkeeping DEF CommInvariant
<1>5. CASE c.slot = None \/ c.shutting # "no"
  BY <1>3, <1>4, <1>5
<1>6. CASE ~(c.slot = None \/ c.shutting # "no")
  <2>1. c.slot \in Prompt
    BY <1>1, <1>6 DEF CommType
  <2>2. Moves(d, SubmitPrompt(d, c.slot))
    BY <1>2, <1>4, <1>6, <2>1, SubmitMoves DEF Moves
  <2>3. QED BY <1>3, <1>4, <1>6, <2>2, MovesTwice
<1>7. QED BY <1>5, <1>6

(* The turn is closed, and then its end is told.                           *)
LEMMA EndedTurnMoves ==
  ASSUME NEW c, CommInvariant(c), NEW s \in BOOLEAN, s => c.stopped \/ c.live = 0,
         c.live \in Epoch => c.halted \/ c.shutting # "no" \/ c.child[c.live] = "up"
  PROVE  Moves(c, OnTurnEnd([EndTurn(c) EXCEPT !.stopped = s]))
<1> DEFINE d == [EndTurn(c) EXCEPT !.stopped = s]
<1>1. c \in CommType
  BY DEF CommInvariant
<1>2. /\ d \in CommType /\ d.epoch = c.epoch /\ d.live = c.live /\ d.child = c.child
      /\ d.after = c.after /\ d.pipe = c.pipe /\ d.shutting = c.shutting
      /\ d.halted = c.halted /\ d.turn = "idle" /\ d.stopped = s
  BY <1>1 DEF CommType, EndTurn
<1> HIDE DEF d
<1>3. Moves(c, d)
  BY <1>2, OnlyBookkeeping
<1>4. Moves(d, OnTurnEnd(d))
  BY <1>2, <1>3, TurnEndMoves DEF Moves
<1>5. QED BY <1>3, <1>4, MovesTwice DEF d

(* The restart policy, once no Executor is live.                           *)
LEMMA DecideMoves ==
  ASSUME NEW c, CommInvariant(c), c.live = 0, ~c.stopped
  PROVE  Moves(c, DecideOnExit(c))
<1> DEFINE u == c.used + 1
           w == c.idleExits + 1
<1>1. c \in CommType /\ 0 \notin Epoch /\ u \in Nat /\ w \in Nat
  BY DEF CommInvariant, CommType, Epoch
<1>2. CASE c.turn # "idle" /\ c.used < PerTurnMax
  <2> DEFINE d == [c EXCEPT !.used = u]
             a == [prompt |-> c.prompt, note |-> TRUE]
  <2>1. /\ d \in CommType /\ d.epoch = c.epoch /\ d.live = c.live /\ d.child = c.child
        /\ d.after = c.after /\ d.pipe = c.pipe /\ d.shutting = c.shutting
        /\ d.halted = c.halted /\ d.turn = c.turn /\ d.stopped = c.stopped
    <3> HIDE DEF u, w
    <3>1. QED BY <1>1 DEF CommType
  <2>2. a \in After
    BY <1>1 DEF CommType, After
  <2>3. DecideOnExit(c) = Respawn(d, a)
    BY <1>2 DEF DecideOnExit
  <2>4. ~c.halted
    BY <1>2 DEF CommInvariant
  <2> HIDE DEF d, a
  <2>5. Moves(c, d)
    BY <2>1, <2>4, OnlyBookkeeping
  <2>6. Moves(d, Respawn(d, a))
    BY <1>1, <2>1, <2>2, <2>4, <2>5, RespawnMoves DEF Moves
  <2>7. QED BY <2>3, <2>5, <2>6, MovesTwice
<1>3. CASE c.turn # "idle" /\ ~(c.used < PerTurnMax)
  <2>1. DecideOnExit(c) = OnTurnEnd([EndTurn(c) EXCEPT !.stopped = TRUE])
    BY <1>3 DEF DecideOnExit
  <2>2. QED BY <1>1, <2>1, EndedTurnMoves
<1>4. CASE c.turn = "idle"
  <2> DEFINE d == [c EXCEPT !.idleExits = w]
             x == [c EXCEPT !.idleExits = w, !.stopped = TRUE]
  <2>1. /\ d \in CommType /\ d.epoch = c.epoch /\ d.live = c.live /\ d.child = c.child
        /\ d.after = c.after /\ d.pipe = c.pipe /\ d.shutting = c.shutting
        /\ d.halted = c.halted /\ d.turn = c.turn /\ d.stopped = c.stopped
    <3> HIDE DEF u, w
    <3>1. QED BY <1>1 DEF CommType
  <2>2. /\ x \in CommType /\ x.epoch = c.epoch /\ x.live = c.live /\ x.child = c.child
        /\ x.after = c.after /\ x.pipe = c.pipe /\ x.shutting = c.shutting
        /\ x.halted = c.halted /\ x.turn = c.turn
    <3> HIDE DEF u, w
    <3>1. QED BY <1>1 DEF CommType
  <2>3. NoPrompt \in After /\ NoPrompt.prompt = None
    BY DEF NoPrompt, After
  <2>4. DecideOnExit(c) = IF c.idleExits < IdleMax THEN Respawn(d, NoPrompt) ELSE x
    BY <1>4 DEF DecideOnExit
  <2> HIDE DEF d, x
  <2>5. Moves(c, d) /\ Moves(c, x)
    BY <1>4, <2>1, <2>2, OnlyBookkeeping
  <2>6. Moves(d, Respawn(d, NoPrompt))
    BY <1>1, <2>1, <2>3, <2>5, RespawnMoves DEF Moves
  <2>7. QED BY <2>4, <2>5, <2>6, MovesTwice
<1>5. QED BY <1>2, <1>3, <1>4

-----------------------------------------------------------------------------
(* The steps of the Communicator.                                          *)

Shrinks ==
  \A e \in Epoch :
    /\ \A t : HasMsg(toComm'[e], t) => HasMsg(toComm[e], t)
    /\ EndSaid(toComm'[e]) => EndSaid(toComm[e])
    /\ toComm[e] = <<>> => toComm'[e] = <<>>

(* A pipe that is read, emptied or left alone.                             *)
LEMMA ReadShrinks ==
  ASSUME TypeOK,
         \/ UNCHANGED toComm
         \/ \E e \in Epoch : toComm[e] # <<>> /\ toComm' = [toComm EXCEPT ![e] = Tail(@)]
         \/ \E e \in Epoch : toComm' = [toComm EXCEPT ![e] = <<>>]
  PROVE  Shrinks
<1>1. CASE UNCHANGED toComm
  BY <1>1 DEF Shrinks
<1>2. ASSUME NEW e \in Epoch, toComm[e] # <<>>, toComm' = [toComm EXCEPT ![e] = Tail(@)]
      PROVE  Shrinks
  <2>1. toComm[e] \in Seq(ToCommMsg)
    BY DEF TypeOK
  <2>2. toComm'[e] = Tail(toComm[e]) /\ \A f \in Epoch : f # e => toComm'[f] = toComm[f]
    BY <1>2 DEF TypeOK
  <2>3. /\ \A t : HasMsg(toComm'[e], t) => HasMsg(toComm[e], t)
        /\ EndSaid(toComm'[e]) => EndSaid(toComm[e])
    BY <1>2, <2>1, <2>2, TailHas
  <2>4. QED BY <1>2, <2>2, <2>3 DEF Shrinks
<1>3. ASSUME NEW e \in Epoch, toComm' = [toComm EXCEPT ![e] = <<>>] PROVE Shrinks
  <2>1. toComm'[e] = <<>> /\ \A f \in Epoch : f # e => toComm'[f] = toComm[f]
    BY <1>3 DEF TypeOK
  <2>2. QED BY <2>1, EmptyHas DEF Shrinks
<1>4. QED BY <1>1, <1>2, <1>3

(* What the handlers do keeps the invariant.                               *)
LEMMA MovesKeep ==
  ASSUME TypeOK, NEW c, ProcessesAreRight(c), Moves(c, comm'), UNCHANGED exec, Shrinks
  PROVE  OneInv'
<1>1. ASSUME NEW e \in Epoch PROVE ExecIsRight(comm, e)'
  <2>1. ExecIsRight(c, e)
    BY DEF ProcessesAreRight
  <2>2. NewExec.pc \notin InTurn /\ NewExec.pc # "dead"
    BY DEF NewExec, InTurn, HasAgent
  <2>3. comm'.child[e] = "none" => exec'[e] = NewExec /\ toComm'[e] = <<>>
    BY <2>1 DEF ExecIsRight, Moves, Goes, Shrinks
  <2>4. comm'.child[e] = "gone" => exec'[e].pc = "dead"
    BY <2>1 DEF ExecIsRight, Moves, Goes
  <2>5. comm'.child[e] \in {"hello", "open"} =>
          /\ exec'[e].pc \notin InTurn /\ ~EndSaid(toComm'[e])
          /\ comm'.shutting = "no" => exec'[e].pc # "dead"
    BY <2>1, <2>2, EmptyHas DEF ExecIsRight, Moves, Goes, Shrinks
  <2>6. QED BY <2>3, <2>4, <2>5 DEF ExecIsRight
<1>2. ASSUME NEW e \in Epoch PROVE HaltIsRight(comm, e)'
  <2>1. HaltIsRight(c, e)
    BY DEF ProcessesAreRight
  <2>2. HasMsg(toComm'[e], "halted") => exec'[e].halted \/ exec'[e].pc = "dead"
    BY <2>1 DEF HaltIsRight, Shrinks
  <2>3. comm'.halted =>
          \/ exec'[e].pc = "dead" \/ exec'[e].halted
          \/ /\ exec'[e].pc \notin InTurn /\ ~HasMsg(comm'.pipe[e], "prompt")
             /\ comm'.after[e].prompt = None
    BY <2>1 DEF HaltIsRight, Moves, Goes, Quiet
  <2>4. QED BY <2>2, <2>3 DEF HaltIsRight
<1>3. QED BY <1>1, <1>2 DEF OneInv, ProcessesAreRight, Moves

(* Nothing but bookkeeping.                                                *)
LEMMA BookkeepingKeeps ==
  ASSUME TypeOK, OneInv, UNCHANGED exec, Shrinks, comm' \in CommType,
         comm'.epoch = comm.epoch, comm'.live = comm.live, comm'.child = comm.child,
         comm'.after = comm.after, comm'.pipe = comm.pipe,
         comm'.shutting = comm.shutting, comm'.halted = comm.halted,
         comm'.halted => comm'.turn = "idle", comm'.stopped = comm.stopped
  PROVE  OneInv'
<1>1. Moves(comm, comm')
  BY OnlyBookkeeping DEF OneInv
<1>2. QED BY <1>1, MovesKeep DEF OneInv

(* The user at the console, the shutdown and the clock.                    *)
LEMMA UserKeeps ==
  ASSUME TypeOK, OneInv, NoStartFaults, User \/ IdleWindowPasses
  PROVE  OneInv'
<1>1. comm \in CommType /\ CommInvariant(comm) /\ 0 \notin Epoch
  BY DEF OneInv, CommInvariant, Epoch
<1>2. UNCHANGED <<exec, toComm>> /\ Shrinks
  <2>1. UNCHANGED <<exec, toComm>>
    BY DEF User, TypePrompt, TypeAnswer, Cancel, Halt, Shutdown, IdleWindowPasses
  <2>2. QED BY <2>1, ReadShrinks
<1>3. ASSUME NEW p \in Prompt, TypePrompt(p) PROVE OneInv'
  <2>1. CASE comm.turn # "idle"
    <3>1. comm' = [comm EXCEPT !.slot = p]
      BY <1>3, <2>1 DEF TypePrompt
    <3>2. /\ comm' \in CommType /\ comm'.epoch = comm.epoch /\ comm'.live = comm.live
          /\ comm'.child = comm.child /\ comm'.after = comm.after /\ comm'.pipe = comm.pipe
          /\ comm'.shutting = comm.shutting /\ comm'.halted = comm.halted
          /\ comm'.turn = comm.turn /\ comm'.stopped = comm.stopped
      BY <1>1, <3>1 DEF CommType
    <3>3. QED BY <1>1, <1>2, <3>2, BookkeepingKeeps DEF CommInvariant
  <2>2. CASE comm.turn = "idle"
    <3>1. comm' = SubmitPrompt(comm, p) /\ ~Starting
      BY <1>3, <2>2 DEF TypePrompt, NoStartFaults
    <3>2. comm.live \in Epoch => comm.child[comm.live] = "up"
      BY <1>1, <3>1 DEF CommInvariant, CommType, OneLive, Starting
    <3>3. Moves(comm, comm')
      BY <1>1, <3>1, <3>2, SubmitMoves
    <3>4. QED BY <1>2, <3>3, MovesKeep DEF OneInv
  <2>3. QED BY <2>1, <2>2
<1>4. CASE TypeAnswer
  <2> DEFINE m == AnswerMsg(comm.ask)
             d == SendLive(comm, m)
  <2>1. m \in PipeMsg /\ m.type = "answer"
    BY <1>1 DEF AnswerMsg, PipeMsg, CommType
  <2>2. comm' = [Answered(d) EXCEPT !.ask = None]
    BY <1>4 DEF TypeAnswer
  <2> HIDE DEF m
  <2>3. Moves(comm, d)
    BY <1>1, <2>1, SendLiveMoves
  <2>4. d \in CommType /\ CommInvariant(d)
    BY <2>3 DEF Moves, CommInvariant
  <2> HIDE DEF d
  <2>5. /\ comm' \in CommType /\ comm'.epoch = d.epoch /\ comm'.live = d.live
        /\ comm'.child = d.child /\ comm'.after = d.after /\ comm'.pipe = d.pipe
        /\ comm'.shutting = d.shutting /\ comm'.halted = d.halted
        /\ comm'.stopped = d.stopped /\ (d.turn = "idle" => comm'.turn = "idle")
    BY <2>2, <2>4 DEF CommType, Answered
  <2>6. Moves(d, comm')
    BY <2>4, <2>5, OnlyBookkeeping DEF CommInvariant
  <2>7. QED BY <1>2, <2>3, <2>6, MovesTwice, MovesKeep DEF OneInv
<1>5. CASE Cancel \/ Halt
  <2>1. PICK t \in {"cancel", "halt"} : comm' = SendLive(comm, Signal(t))
    BY <1>5 DEF Cancel, Halt
  <2>2. Signal(t) \in PipeMsg /\ Signal(t).type \notin {"prompt", "shutdown"}
    BY DEF Signal, PipeMsg
  <2>3. Moves(comm, comm')
    BY <1>1, <2>1, <2>2, SendLiveMoves
  <2>4. QED BY <1>2, <2>3, MovesKeep DEF OneInv
<1>6. CASE Shutdown
  <2> DEFINE d == [comm EXCEPT !.shutting = "stopping"]
             m == Signal("shutdown")
  <2>1. /\ d \in CommType /\ d.epoch = comm.epoch /\ d.live = comm.live
        /\ d.child = comm.child /\ d.after = comm.after /\ d.pipe = comm.pipe
        /\ d.shutting = "stopping" /\ d.halted = comm.halted
        /\ d.turn = comm.turn /\ d.stopped = comm.stopped
    BY <1>1 DEF CommType
  <2>2. m \in PipeMsg /\ m.type = "shutdown"
    BY DEF Signal, PipeMsg
  <2>3. comm' = SendLive(d, m)
    <3>1. comm' = [SendLive(comm, m) EXCEPT !.shutting = "stopping"]
      BY <1>6 DEF Shutdown
    <3> HIDE DEF m
    <3>2. QED BY <1>1, <3>1 DEF SendLive, SendTo, CommType
  <2> HIDE DEF d, m
  <2>4. Moves(comm, d)
    BY <1>1, <2>1, OnlyBookkeeping DEF CommInvariant
  <2>5. Moves(d, SendLive(d, m))
    BY <2>1, <2>2, <2>4, SendLiveMoves DEF Moves
  <2>6. QED BY <1>2, <2>3, <2>4, <2>5, MovesTwice, MovesKeep DEF OneInv
<1>7. CASE IdleWindowPasses
  <2> DEFINE w == comm.idleExits - 1
  <2>1. comm' = [comm EXCEPT !.idleExits = w] /\ w \in Nat
    BY <1>1, <1>7 DEF IdleWindowPasses, CommType
  <2> HIDE DEF w
  <2>2. /\ comm' \in CommType /\ comm'.epoch = comm.epoch /\ comm'.live = comm.live
        /\ comm'.child = comm.child /\ comm'.after = comm.after /\ comm'.pipe = comm.pipe
        /\ comm'.shutting = comm.shutting /\ comm'.halted = comm.halted
        /\ comm'.turn = comm.turn /\ comm'.stopped = comm.stopped
    BY <1>1, <2>1 DEF CommType
  <2>3. QED BY <1>1, <1>2, <2>2, BookkeepingKeeps DEF CommInvariant
<1>8. QED BY <1>3, <1>4, <1>5, <1>6, <1>7 DEF User

(* A child is the live one as long as it is neither ahead nor gone; the    *)
(* Communicator hears only of such a child.                                *)
LEMMA SpeakerIsLive ==
  ASSUME OneInv, NEW e \in Epoch, comm.child[e] # "gone",
         toComm[e] # <<>> \/ exec[e].pc = "dead"
  PROVE  e = comm.live /\ comm.child[e] \in {"hello", "open", "up"}
<1>1. comm.child[e] # "none"
  BY DEF OneInv, ProcessesAreRight, ExecIsRight, NewExec
<1>2. QED BY <1>1 DEF OneInv, CommInvariant, CommType, OneLive

(* A child goes one stage further in its start.                            *)
LEMMA StageMoves ==
  ASSUME NEW c, CommInvariant(c), NEW e \in Epoch, NEW d \in CommType,
         \/ c.child[e] = "hello" /\ d.child = [c.child EXCEPT ![e] = "open"]
         \/ c.child[e] = "open" /\ d.child = [c.child EXCEPT ![e] = "up"],
         \/ d.after = c.after
         \/ d.after = [c.after EXCEPT ![e] = NoPrompt],
         d.epoch = c.epoch, d.live = c.live, d.pipe = c.pipe, d.shutting = c.shutting,
         d.halted = c.halted, d.turn = c.turn, d.stopped = c.stopped
  PROVE  Moves(c, d)
<1>1. c \in CommType
  BY DEF CommInvariant
<1>2. \A f \in Epoch : d.child[f] = c.child[f] \/ (f = e /\ d.child[f] \in {"open", "up"})
  BY <1>1 DEF CommType
<1>3. d.child[e] \in {"open", "up"} /\ (d.child[e] = "open" => c.child[e] = "hello")
      /\ c.child[e] \in {"hello", "open"}
  BY <1>1 DEF CommType
<1>4. \A f \in Epoch : d.after[f] = c.after[f] \/ d.after[f].prompt = None
  BY <1>1 DEF CommType, NoPrompt
<1>5. OneLive(d)
  BY <1>2, <1>3 DEF CommInvariant, OneLive
<1>6. PipesAreRight(d)
  BY <1>2, <1>3, <1>4 DEF CommInvariant, PipesAreRight
<1>7. Goes(c, d)
  BY <1>2, <1>3, <1>4 DEF Goes
<1>8. QED BY <1>5, <1>6, <1>7 DEF Moves, CommInvariant

(* The hello and the acknowledgement of session_open.                      *)
LEMMA StartKeeps ==
  ASSUME TypeOK, OneInv, NEW e \in Epoch, RecvHello(e) \/ RecvOpenAck(e)
  PROVE  OneInv'
<1>1. comm \in CommType /\ CommInvariant(comm) /\ e \in Nat
  BY DEF OneInv, CommInvariant, Epoch
<1>2. UNCHANGED exec /\ Shrinks
  BY ReadShrinks DEF RecvHello, RecvOpenAck, CommReceives
<1>3. Moves(comm, comm)
  BY <1>1 DEF Moves, Goes
<1>4. CASE RecvHello(e) /\ comm.child[e] = "hello"
  <2> DEFINE d == [comm EXCEPT !.child[e] = "open"]
  <2>1. /\ d \in CommType /\ d.child = [comm.child EXCEPT ![e] = "open"]
        /\ d.after = comm.after /\ d.epoch = comm.epoch /\ d.live = comm.live
        /\ d.pipe = comm.pipe /\ d.shutting = comm.shutting /\ d.halted = comm.halted
        /\ d.turn = comm.turn /\ d.stopped = comm.stopped
    BY <1>1 DEF CommType
  <2>2. comm' = SendTo(d, e, Signal("session_open")) /\ d.child[e] = "open"
    BY <1>1, <1>4 DEF RecvHello, CommType
  <2>3. Signal("session_open") \in PipeMsg /\ Signal("session_open").type = "session_open"
    BY DEF Signal, PipeMsg
  <2> HIDE DEF d
  <2>4. Moves(comm, d)
    BY <1>1, <1>4, <2>1, StageMoves
  <2>5. Moves(d, comm')
    BY <1>1, <2>2, <2>3, <2>4, SendToMoves DEF Moves
  <2>6. QED BY <1>2, <2>4, <2>5, MovesTwice, MovesKeep DEF OneInv
<1>5. CASE RecvOpenAck(e) /\ comm.child[e] = "open"
  <2> DEFINE d == [comm EXCEPT !.child[e] = "up", !.after[e] = NoPrompt]
             a == comm.after[e]
  <2>1. /\ d \in CommType /\ d.child = [comm.child EXCEPT ![e] = "up"]
        /\ d.after = [comm.after EXCEPT ![e] = NoPrompt]
        /\ d.epoch = comm.epoch /\ d.live = comm.live
        /\ d.pipe = comm.pipe /\ d.shutting = comm.shutting /\ d.halted = comm.halted
        /\ d.turn = comm.turn /\ d.stopped = comm.stopped
    BY <1>1 DEF CommType, NoPrompt, After
  <2>2. comm' = AfterOpen(d, a) /\ d.child[e] = "up" /\ a \in After
    BY <1>1, <1>5 DEF RecvOpenAck, CommType
  <2>3. comm.live = e
    BY <1>5 DEF OneInv, CommInvariant, OneLive
  <2>4. a.prompt = None \/ ~comm.halted \/ Quiet(e)
    BY DEF OneInv, ProcessesAreRight, HaltIsRight, Quiet
  <2> HIDE DEF d, a
  <2>5. Moves(comm, d)
    BY <1>1, <1>5, <2>1, StageMoves
  <2>6. CASE a.prompt = None
    BY <1>2, <2>2, <2>5, <2>6, MovesKeep DEF OneInv, AfterOpen
  <2>7. CASE a.prompt # None
    <3> DEFINE x == IF a.note /\ d.turn # "idle" THEN [d EXCEPT !.turn = "running"] ELSE d
               m == PromptMsg(a.prompt, a.note)
    <3>1. /\ x \in CommType /\ x.epoch = d.epoch /\ x.live = d.live /\ x.child = d.child
          /\ x.after = d.after /\ x.pipe = d.pipe /\ x.shutting = d.shutting
          /\ x.halted = d.halted /\ x.stopped = d.stopped
          /\ (d.turn = "idle" => x.turn = "idle")
      BY <2>1 DEF CommType
    <3>2. m \in PipeMsg /\ m.type = "prompt"
      BY <2>2, <2>7 DEF PromptMsg, PipeMsg, After
    <3>3. comm' = SendLive(x, m)
      BY <2>2, <2>7 DEF AfterOpen, SendPrompt
    <3> HIDE DEF x, m
    <3>4. Moves(d, x)
      BY <2>5, <3>1, OnlyBookkeeping DEF Moves, CommInvariant
    <3>5. Moves(x, SendLive(x, m))
      <4>1. x.live = e /\ x.child[e] = "up" /\ (~x.halted \/ Quiet(e))
        BY <2>1, <2>2, <2>3, <2>4, <2>7, <3>1
      <4>2. CommInvariant(x)
        BY <3>4 DEF Moves
      <4>3. QED BY <3>2, <4>1, <4>2, SendLiveMoves
    <3>6. QED BY <1>2, <2>5, <3>3, <3>4, <3>5, MovesTwice, MovesKeep DEF OneInv
  <2>8. QED BY <2>6, <2>7
<1>6. CASE UNCHANGED comm
  BY <1>2, <1>3, <1>6, MovesKeep DEF OneInv
<1>7. QED BY <1>4, <1>5, <1>6 DEF RecvHello, RecvOpenAck

(* Events and questions.                                                   *)
LEMMA EventKeeps ==
  ASSUME TypeOK, OneInv, NEW e \in Epoch, RecvEvent(e) \/ AppendFails(e) \/ RecvAsk(e)
  PROVE  OneInv'
<1>1. comm \in CommType /\ CommInvariant(comm)
  BY DEF OneInv, CommInvariant
<1>2. UNCHANGED exec /\ Shrinks
  BY ReadShrinks DEF RecvEvent, AppendFails, RecvAsk, CommReceives
<1>3. toComm[e] # <<>> /\ comm.child[e] # "gone" /\ toComm[e] \in Seq(ToCommMsg)
  BY DEF RecvEvent, AppendFails, RecvAsk, CommReceives, TypeOK
<1>4. e = comm.live /\ comm.child[e] \in {"hello", "open", "up"}
  BY <1>3, SpeakerIsLive
<1>5. CASE UNCHANGED comm
  <2>1. Moves(comm, comm')
    BY <1>1, <1>5 DEF Moves, Goes
  <2>2. QED BY <1>2, <2>1, MovesKeep DEF OneInv
<1>6. CASE RecvEvent(e) /\ Head(toComm[e]).line.kind = "turn_finished"
  <2>1. EndSaid(toComm[e])
    BY <1>3, <1>6, HeadHas DEF RecvEvent, CommReceives
  <2>2. comm.child[e] = "up"
    BY <1>4, <2>1 DEF OneInv, ProcessesAreRight, ExecIsRight
  <2>3. EndTurn(comm) = [EndTurn(comm) EXCEPT !.stopped = comm.stopped]
    BY <1>1 DEF EndTurn, CommType
  <2>4. comm' = OnTurnEnd([EndTurn(comm) EXCEPT !.stopped = comm.stopped])
    <3>1. comm' = OnTurnEnd(EndTurn(comm))
      BY <1>6 DEF RecvEvent
    <3>2. QED BY <2>3, <3>1
  <2>5. comm.stopped \in BOOLEAN
    BY <1>1 DEF CommType
  <2>6. Moves(comm, comm')
    BY <1>1, <1>4, <2>2, <2>4, <2>5, EndedTurnMoves
  <2>7. QED BY <1>2, <2>6, MovesKeep DEF OneInv
<1>7. CASE RecvAsk(e)
  <2> DEFINE k == Head(toComm[e]).call
  <2>1. comm' = [WaitForAnswer(comm) EXCEPT !.ask = k]
    BY <1>7 DEF RecvAsk
  <2>2. k \in Call \cup {None}
    <3>1. Head(toComm[e]) \in ToCommMsg /\ Head(toComm[e]).type = "ask_user"
      BY <1>3, <1>7, HeadHas DEF RecvAsk, CommReceives
    <3>2. QED BY <3>1 DEF ToCommMsg
  <2> HIDE DEF k
  <2>3. /\ comm' \in CommType /\ comm'.epoch = comm.epoch /\ comm'.live = comm.live
        /\ comm'.child = comm.child /\ comm'.after = comm.after /\ comm'.pipe = comm.pipe
        /\ comm'.shutting = comm.shutting /\ comm'.halted = comm.halted
        /\ (comm.turn = "idle" => comm'.turn = "idle") /\ comm'.stopped = comm.stopped
    BY <1>1, <2>1, <2>2 DEF CommType, WaitForAnswer
  <2>4. QED BY <1>1, <1>2, <2>3, BookkeepingKeeps DEF CommInvariant
<1>8. QED BY <1>5, <1>6, <1>7 DEF RecvEvent, AppendFails

(* The Executor says that it is halted: from then on the run is.           *)
LEMMA HaltedKeeps ==
  ASSUME TypeOK, OneInv, NEW e \in Epoch, RecvHalted(e)
  PROVE  OneInv'
<1>1. comm \in CommType /\ CommInvariant(comm)
  BY DEF OneInv, CommInvariant
<1>2. UNCHANGED exec /\ Shrinks
  BY ReadShrinks DEF RecvHalted, CommReceives
<1>3. toComm[e] # <<>> /\ comm.child[e] # "gone" /\ toComm[e] \in Seq(ToCommMsg)
      /\ Head(toComm[e]).type = "halted"
  BY DEF RecvHalted, CommReceives, TypeOK
<1>4. e = comm.live /\ Quiet(e)
  BY <1>3, SpeakerIsLive, HeadHas DEF OneInv, ProcessesAreRight, HaltIsRight, Quiet
<1> DEFINE c == EndTurn([comm EXCEPT !.halted = TRUE])
<1>5. /\ c \in CommType /\ c.child = comm.child
      /\ c.after = comm.after /\ c.epoch = comm.epoch /\ c.live = comm.live
      /\ c.pipe = comm.pipe /\ c.shutting = comm.shutting /\ c.halted
      /\ c.turn = "idle" /\ c.stopped = comm.stopped
  BY <1>1 DEF CommType, EndTurn
<1>6. comm' = OnTurnEnd(c)
  BY <1>4 DEF RecvHalted
<1> HIDE DEF c
<1>7. CommInvariant(c)
  BY <1>1, <1>5 DEF CommInvariant, OneLive, PipesAreRight
<1>8. ProcessesAreRight(c)
  <2>1. ASSUME NEW f \in Epoch PROVE ExecIsRight(c, f)
    BY <1>5 DEF OneInv, ProcessesAreRight, ExecIsRight
  <2>2. ASSUME NEW f \in Epoch PROVE HaltIsRight(c, f)
    <3>1. CASE f = e
      BY <1>4, <3>1 DEF OneInv, ProcessesAreRight, HaltIsRight, Quiet
    <3>2. CASE f # e
      <4>1. comm.child[f] \in {"none", "gone"}
        BY <1>1, <1>4, <3>2 DEF CommInvariant, OneLive
      <4>2. ExecIsRight(comm, f) /\ HaltIsRight(comm, f)
        BY DEF OneInv, ProcessesAreRight
      <4>3. comm.child[f] = "none" => comm.pipe[f] = <<>> /\ comm.after[f].prompt = None
        BY <1>1 DEF CommInvariant, PipesAreRight
      <4>4. NewExec.pc \notin InTurn
        BY DEF NewExec, InTurn, HasAgent
      <4>5. QED BY <1>5, <4>1, <4>2, <4>3, <4>4, EmptyHas DEF ExecIsRight, HaltIsRight
    <3>3. QED BY <3>1, <3>2
  <2>3. QED BY <2>1, <2>2 DEF ProcessesAreRight
<1>9. Moves(c, comm')
  BY <1>5, <1>6, <1>7, TurnEndMoves
<1>10. QED BY <1>2, <1>8, <1>9, MovesKeep

(* The exit of an Executor is noticed.                                     *)
LEMMA ChildExitKeeps ==
  ASSUME TypeOK, OneInv, NEW e \in Epoch, OnChildExit(e)
  PROVE  OneInv'
<1>1. comm \in CommType /\ CommInvariant(comm)
  BY DEF OneInv, CommInvariant
<1>2. UNCHANGED exec /\ Shrinks /\ exec[e].pc = "dead" /\ comm.child[e] # "gone"
  BY ReadShrinks DEF OnChildExit
<1>3. e = comm.live /\ comm.child[e] \in {"hello", "open", "up"}
  BY <1>2, SpeakerIsLive
<1> DEFINE c == [comm EXCEPT !.child[e] = "gone", !.pipe[e] = <<>>,
                             !.after[e] = NoPrompt, !.live = IF @ = e THEN 0 ELSE @]
<1>4. /\ c \in CommType /\ c.child = [comm.child EXCEPT ![e] = "gone"]
      /\ c.after = [comm.after EXCEPT ![e] = NoPrompt]
      /\ c.pipe = [comm.pipe EXCEPT ![e] = <<>>]
      /\ c.epoch = comm.epoch /\ c.live = 0
      /\ c.shutting = comm.shutting /\ c.halted = comm.halted
      /\ c.turn = comm.turn /\ c.stopped = comm.stopped
  BY <1>1, <1>3, EmptySeq DEF CommType, NoPrompt, After
<1>5. /\ comm.child[e] \in {"hello", "open"} =>
           comm' = RespawnFailed(IF c.shutting # "no" THEN c ELSE DecideOnExit(c))
      /\ comm.child[e] \notin {"hello", "open"} =>
           comm' = IF c.shutting # "no" THEN c ELSE DecideOnExit(c)
  BY DEF OnChildExit
<1> HIDE DEF c
<1>6. ~comm.stopped /\ 0 \notin Epoch /\ e <= comm.epoch
  BY <1>1, <1>3 DEF CommInvariant, OneLive, Epoch
<1>7. \A f \in Epoch :
        /\ f # e => c.child[f] = comm.child[f] /\ c.pipe[f] = comm.pipe[f] /\ c.after[f] = comm.after[f]
        /\ f = e => c.child[f] = "gone" /\ c.pipe[f] = <<>> /\ c.after[f].prompt = None
  BY <1>1, <1>4 DEF CommType, NoPrompt
<1>8. CommInvariant(c)
  <2>1. OneLive(c)
    <3>1. \A f \in Epoch : c.child[f] \in {"none", "gone"}
      BY <1>1, <1>3, <1>7 DEF CommInvariant, OneLive
    <3>2. \A f \in Epoch : f > c.epoch => c.child[f] = "none"
      BY <1>1, <1>4, <1>6, <1>7 DEF CommInvariant, OneLive, CommType, Epoch
    <3>3. QED BY <1>1, <1>4, <1>6, <3>1, <3>2 DEF OneLive, CommType
  <2>2. PipesAreRight(c)
    BY <1>1, <1>4, <1>7, EmptyHas DEF CommInvariant, PipesAreRight
  <2>3. QED BY <1>1, <1>4, <2>1, <2>2 DEF CommInvariant
<1>9. ProcessesAreRight(c)
  <2>1. ASSUME NEW f \in Epoch PROVE ExecIsRight(c, f) /\ HaltIsRight(c, f)
    <3>1. CASE f = e
      BY <1>2, <1>7, <3>1 DEF ExecIsRight, HaltIsRight
    <3>2. CASE f # e
      BY <1>4, <1>7, <3>2 DEF OneInv, ProcessesAreRight, ExecIsRight, HaltIsRight
    <3>3. QED BY <3>1, <3>2
  <2>2. QED BY <2>1 DEF ProcessesAreRight
<1>10. Moves(c, comm')
  <2>1. comm.child[e] \in {"hello", "open"} => comm.shutting # "no"
    BY <1>2 DEF OneInv, ProcessesAreRight, ExecIsRight
  <2>2. CASE c.shutting # "no"
    <3>1. comm' = c
      BY <1>5, <2>2 DEF RespawnFailed
    <3>2. QED BY <1>8, <3>1 DEF Moves, Goes
  <2>3. CASE c.shutting = "no"
    <3>1. comm' = DecideOnExit(c)
      BY <1>4, <1>5, <2>1, <2>3
    <3>2. QED BY <1>4, <1>6, <1>8, <3>1, DecideMoves
  <2>4. QED BY <2>2, <2>3
<1>11. QED BY <1>2, <1>9, <1>10, MovesKeep

-----------------------------------------------------------------------------
(* The steps of an Executor.                                               *)

(* Its pipe from the Communicator is as it was, or shorter.                *)
Taken(e) ==
  \/ UNCHANGED comm
  \/ \E r \in Seq(PipeMsg) : /\ comm' = [comm EXCEPT !.pipe[e] = r]
                             /\ \A t : HasMsg(r, t) => HasMsg(comm.pipe[e], t)

(* Taking a message shortens it.                                           *)
LEMMA TakeIsTaken ==
  ASSUME OneInv, NEW e \in Epoch, NEW m, Take(e, m)
  PROVE  Taken(e) /\ HasMsg(comm.pipe[e], m.type)
<1> DEFINE q == comm.pipe[e]
<1>1. q \in Seq(PipeMsg) /\ DOMAIN q = 1 .. Len(q)
  BY DEF OneInv, CommInvariant, CommType
<1>2. PICK i \in 1 .. Len(q) :
        /\ q[i] = m
        /\ comm' = [comm EXCEPT !.pipe[e] = SubSeq(q, 1, i - 1) \o SubSeq(q, i + 1, Len(q))]
  BY <1>1 DEF Take
<1> DEFINE r == SubSeq(q, 1, i - 1) \o SubSeq(q, i + 1, Len(q))
<1>3. r \in Seq(PipeMsg) /\ \A t : HasMsg(r, t) => HasMsg(q, t)
  BY <1>1, CutHas
<1>4. HasMsg(q, m.type)
  BY <1>2 DEF HasMsg
<1>5. comm' = [comm EXCEPT !.pipe[e] = r]
  BY <1>2
<1> HIDE DEF r
<1>6. QED BY <1>3, <1>4, <1>5 DEF Taken

(* An Executor gets into a turn only from a turn or by a prompt, stays     *)
(* halted, ends only when its session is open, in its turn or in the       *)
(* shutdown, tells the end of a turn from within the turn, and says that   *)
(* it is halted when it is.                                                *)
LEMMA ExecutorKeeps ==
  ASSUME TypeOK, OneInv, NEW e \in Epoch, Alive(e), Taken(e), NEW x, NEW q,
         exec' = [exec EXCEPT ![e] = x], toComm' = [toComm EXCEPT ![e] = q],
         x.pc \in InTurn => exec[e].pc \in InTurn \/ HasMsg(comm.pipe[e], "prompt"),
         exec[e].halted => x.halted \/ x.pc = "dead",
         x.pc = "dead" =>
           comm.child[e] = "up" \/ comm.shutting # "no" \/ exec[e].pc \in InTurn,
         EndSaid(q) => EndSaid(toComm[e]) \/ exec[e].pc \in InTurn,
         HasMsg(q, "halted") => HasMsg(toComm[e], "halted") \/ x.halted
  PROVE  OneInv'
<1>1. comm \in CommType /\ CommInvariant(comm)
  BY DEF OneInv, CommInvariant
<1> DEFINE Kept ==
      /\ comm' \in CommType /\ comm'.child = comm.child /\ comm'.after = comm.after
      /\ comm'.epoch = comm.epoch /\ comm'.live = comm.live
      /\ comm'.shutting = comm.shutting /\ comm'.halted = comm.halted
      /\ comm'.turn = comm.turn /\ comm'.stopped = comm.stopped
      /\ \A f \in Epoch : \A t : HasMsg(comm'.pipe[f], t) => HasMsg(comm.pipe[f], t)
      /\ \A f \in Epoch : f # e => comm'.pipe[f] = comm.pipe[f]
<1>2. Kept
  <2>1. CASE UNCHANGED comm
    BY <1>1, <2>1
  <2>2. ASSUME NEW r \in Seq(PipeMsg), comm' = [comm EXCEPT !.pipe[e] = r],
               \A t : HasMsg(r, t) => HasMsg(comm.pipe[e], t)
        PROVE  Kept
    BY <1>1, <2>2 DEF CommType
  <2>3. QED BY <2>1, <2>2 DEF Taken
<1>3. exec'[e] = x /\ toComm'[e] = q
      /\ \A f \in Epoch : f # e => exec'[f] = exec[f] /\ toComm'[f] = toComm[f]
  BY DEF TypeOK
<1>4. comm.child[e] # "none" /\ comm.child[e] # "gone" /\ exec[e].pc # "dead"
  BY DEF Alive, OneInv, ProcessesAreRight, ExecIsRight
<1>5. CommInvariant(comm')
  <2>1. OneLive(comm')
    BY <1>1, <1>2 DEF CommInvariant, OneLive
  <2>2. PipesAreRight(comm')
    BY <1>1, <1>2, <1>4 DEF CommInvariant, PipesAreRight
  <2>3. QED BY <1>1, <1>2, <2>1, <2>2 DEF CommInvariant
<1>6. ASSUME NEW f \in Epoch, f # e PROVE ExecIsRight(comm, f)' /\ HaltIsRight(comm, f)'
  <2>1. ExecIsRight(comm, f) /\ HaltIsRight(comm, f)
    BY DEF OneInv, ProcessesAreRight
  <2>2. QED BY <1>2, <1>3, <1>6, <2>1 DEF ExecIsRight, HaltIsRight
<1>7. ExecIsRight(comm, e)'
  <2>1. comm.child[e] \in {"hello", "open"} =>
          exec[e].pc \notin InTurn /\ ~EndSaid(toComm[e]) /\ ~HasMsg(comm.pipe[e], "prompt")
    BY <1>1 DEF OneInv, ProcessesAreRight, ExecIsRight, CommInvariant, PipesAreRight
  <2>2. QED BY <1>2, <1>3, <1>4, <2>1 DEF ExecIsRight
<1>8. HaltIsRight(comm, e)'
  <2>1. HaltIsRight(comm, e)
    BY DEF OneInv, ProcessesAreRight
  <2>2. HasMsg(toComm'[e], "halted") => exec'[e].halted \/ exec'[e].pc = "dead"
    BY <1>3, <1>4, <2>1 DEF HaltIsRight
  <2>3. comm'.halted =>
          \/ exec'[e].pc = "dead" \/ exec'[e].halted
          \/ /\ exec'[e].pc \notin InTurn /\ ~HasMsg(comm'.pipe[e], "prompt")
             /\ comm'.after[e].prompt = None
    BY <1>2, <1>3, <1>4, <2>1 DEF HaltIsRight
  <2>4. QED BY <2>2, <2>3 DEF HaltIsRight
<1>9. QED BY <1>5, <1>6, <1>7, <1>8 DEF OneInv, ProcessesAreRight

(* It ends.                                                                *)
LEMMA EndKeeps ==
  ASSUME TypeOK, OneInv, NEW e \in Epoch, Alive(e), Taken(e),
         exec' = [exec EXCEPT ![e] = DeadExec], UNCHANGED toComm,
         comm.child[e] = "up" \/ comm.shutting # "no" \/ exec[e].pc \in InTurn
  PROVE  OneInv'
<1>1. DeadExec.pc = "dead" /\ "dead" \notin InTurn
  BY DEF DeadExec, NewExec, InTurn, HasAgent
<1>2. toComm' = [toComm EXCEPT ![e] = toComm[e]]
  BY DEF TypeOK
<1> DEFINE x == DeadExec
           q == toComm[e]
<1> HIDE DEF x
<1>3. exec' = [exec EXCEPT ![e] = x] /\ x.pc = "dead" /\ x.pc \notin InTurn
  BY <1>1 DEF x
<1>4. QED BY <1>2, <1>3, ExecutorKeeps

(* It goes on and says nothing.                                            *)
LEMMA SilentKeeps ==
  ASSUME TypeOK, OneInv, NEW e \in Epoch, Alive(e), Taken(e), NEW x,
         exec' = [exec EXCEPT ![e] = x], UNCHANGED toComm,
         x.pc \in InTurn => exec[e].pc \in InTurn \/ HasMsg(comm.pipe[e], "prompt"),
         exec[e].halted => x.halted, x.pc # "dead"
  PROVE  OneInv'
<1>1. toComm' = [toComm EXCEPT ![e] = toComm[e]]
  BY DEF TypeOK
<1> DEFINE q == toComm[e]
<1>2. QED BY <1>1, ExecutorKeeps

(* It goes on and writes to the Communicator.                              *)
LEMMA SayKeeps ==
  ASSUME TypeOK, OneInv, NEW e \in Epoch, Alive(e), Taken(e), NEW x, NEW m,
         exec' = [exec EXCEPT ![e] = x], Say(e, m),
         x.pc \in InTurn => exec[e].pc \in InTurn \/ HasMsg(comm.pipe[e], "prompt"),
         exec[e].halted => x.halted, x.pc # "dead",
         m.type = "event" /\ m.line.kind = "turn_finished" => exec[e].pc \in InTurn,
         m.type = "halted" => x.halted
  PROVE  OneInv'
<1> DEFINE q == Append(toComm[e], m)
<1>1. toComm' = [toComm EXCEPT ![e] = q] /\ toComm[e] \in Seq(ToCommMsg)
  BY DEF TypeOK, Say
<1>2. /\ HasMsg(q, "halted") => HasMsg(toComm[e], "halted") \/ x.halted
      /\ EndSaid(q) => EndSaid(toComm[e]) \/ exec[e].pc \in InTurn
  <2>1. toComm[e] \in Seq(ToCommMsg \cup {m})
    BY <1>1, SeqMonotonic
  <2>2. m \in ToCommMsg \cup {m}
    OBVIOUS
  <2>3. QED BY <2>1, <2>2, AppendHas
<1> HIDE DEF q
<1>3. QED BY <1>1, <1>2, ExecutorKeeps

(* Neither pipe of a concatenation holds more than the two.                *)
LEMMA ConcatHas ==
  ASSUME NEW S, NEW q \in Seq(S), NEW r \in Seq(S)
  PROVE  /\ \A t : HasMsg(q \o r, t) => HasMsg(q, t) \/ HasMsg(r, t)
         /\ EndSaid(q \o r) => EndSaid(q) \/ EndSaid(r)
<1>1. /\ Len(q \o r) = Len(q) + Len(r) /\ Len(q) \in Nat /\ Len(r) \in Nat
      /\ \A i \in 1 .. Len(q) + Len(r) :
           (q \o r)[i] = IF i <= Len(q) THEN q[i] ELSE r[i - Len(q)]
  BY ConcatProperties, LenProperties
<1>2. \A i \in 1 .. Len(q) + Len(r) :
        \/ i \in 1 .. Len(q) /\ (q \o r)[i] = q[i]
        \/ i - Len(q) \in 1 .. Len(r) /\ (q \o r)[i] = r[i - Len(q)]
  BY <1>1
<1>3. QED BY <1>1, <1>2 DEF HasMsg, EndSaid

(* The calls that are open in the store are finitely many.                 *)
LEMMA OpenCallsAreFinite ==
  ASSUME TypeOK
  PROVE  IsFiniteSet(OpenCalls(store))
<1>1. \A i \in DOMAIN store : store[i].call \in Call \cup {None}
  <2>1. \A i \in DOMAIN store : store[i] \in LineType
    BY DEF TypeOK
  <2>2. QED BY <2>1 DEF LineType
<1>2. OpenCalls(store) \subseteq Call \cup {None}
  BY <1>1 DEF OpenCalls, CallsIn
<1>3. IsFiniteSet(1 .. MaxCalls)
  BY FS_Interval, BoundAssumption
<1>4. IsFiniteSet(Call \cup {None})
  BY <1>3, FS_AddElement DEF Call
<1>5. QED BY <1>2, <1>4, FS_Subset

(* The session opens: the calls that were found open are closed and the    *)
(* opening is acknowledged.                                                *)
LEMMA SessionOpenedKeeps ==
  ASSUME TypeOK, OneInv, NEW e \in Epoch, SessionOpened(e)
  PROVE  OneInv'
<1> DEFINE M == {EventMsg(Line("tool_call_finished", None, c), FALSE) : c \in OpenCalls(store)}
                  \cup {Signal("open_ack")}
           x == [exec[e] EXCEPT !.pc = "idle"]
<1>1. PICK order \in [1 .. Cardinality(OpenCalls(store)) -> OpenCalls(store)] :
        toComm' = [toComm EXCEPT ![e] = @
          \o [i \in DOMAIN order |-> EventMsg(Line("tool_call_finished", None, order[i]), FALSE)]
          \o <<Signal("open_ack")>>]
  BY DEF SessionOpened
<1> DEFINE f == [i \in DOMAIN order |-> EventMsg(Line("tool_call_finished", None, order[i]), FALSE)]
           a == <<Signal("open_ack")>>
           q == (toComm[e] \o f) \o a
<1>2. f \in Seq(M)
  <2>1. IsFiniteSet(OpenCalls(store))
    BY OpenCallsAreFinite
  <2>2. Cardinality(OpenCalls(store)) \in Nat
    BY <2>1, FS_CardinalityType
  <2>3. f \in [1 .. Cardinality(OpenCalls(store)) -> M]
    OBVIOUS
  <2> HIDE DEF f, M
  <2>4. QED BY <2>2, <2>3, FunctionIsSeq
<1>3. a \in Seq(M)
  OBVIOUS
<1>4. \A m \in M : m.type # "halted" /\ ~(m.type = "event" /\ m.line.kind = "turn_finished")
  BY DEF EventMsg, Line, Signal
<1>5. toComm' = [toComm EXCEPT ![e] = q] /\ toComm[e] \in Seq(ToCommMsg)
  BY <1>1 DEF TypeOK
<1> HIDE DEF f, a, M
<1>6. ~HasMsg(f, "halted") /\ ~EndSaid(f) /\ ~HasMsg(a, "halted") /\ ~EndSaid(a)
  BY <1>2, <1>3, <1>4, ElementOfSeq DEF HasMsg, EndSaid
<1>7. (HasMsg(q, "halted") => HasMsg(toComm[e], "halted")) /\ (EndSaid(q) => EndSaid(toComm[e]))
  <2> DEFINE S == ToCommMsg \cup M
  <2>1. toComm[e] \in Seq(S) /\ f \in Seq(S) /\ a \in Seq(S)
    BY <1>2, <1>3, <1>5, SeqMonotonic
  <2> HIDE DEF S
  <2>2. toComm[e] \o f \in Seq(S)
    BY <2>1, ConcatProperties
  <2>3. /\ HasMsg(q, "halted") => HasMsg(toComm[e] \o f, "halted")
        /\ EndSaid(q) => EndSaid(toComm[e] \o f)
    BY <1>6, <2>1, <2>2, ConcatHas
  <2>4. /\ HasMsg(toComm[e] \o f, "halted") => HasMsg(toComm[e], "halted")
        /\ EndSaid(toComm[e] \o f) => EndSaid(toComm[e])
    BY <1>6, <2>1, ConcatHas
  <2>5. QED BY <2>3, <2>4
<1>8. /\ exec' = [exec EXCEPT ![e] = x] /\ Alive(e) /\ Taken(e)
      /\ x.pc = "idle" /\ x.halted = exec[e].halted
  <2>1. exec[e] \in ExecType /\ exec \in [Epoch -> ExecType]
    BY DEF TypeOK
  <2>2. QED BY <2>1 DEF SessionOpened, Taken, ExecType
<1> HIDE DEF x, q
<1>9. x.pc \notin InTurn /\ x.pc # "dead"
  BY <1>8 DEF InTurn, HasAgent
<1>10. QED BY <1>5, <1>7, <1>8, <1>9, ExecutorKeeps

(* A turn begins, with a prompt that was sent or was queued in the turn.   *)
LEMMA BeginTurnKeeps ==
  ASSUME TypeOK, OneInv, NEW e \in Epoch, NEW p \in Prompt, NEW y \in ExecType,
         Alive(e), Taken(e), BeginTurn(e, p, y), y.halted = exec[e].halted,
         exec[e].pc \in InTurn \/ HasMsg(comm.pipe[e], "prompt")
  PROVE  OneInv'
<1> DEFINE x == [y EXCEPT !.pc = "user", !.prompt = p, !.queued = None, !.abort = FALSE]
           m == EventMsg(Line("user_message", p, None), TRUE)
<1>1. x.pc = "user" /\ x.halted = exec[e].halted
  BY DEF ExecType
<1>2. m.type = "event" /\ m.line.kind = "user_message"
  BY DEF EventMsg, Line
<1>3. exec' = [exec EXCEPT ![e] = x] /\ Say(e, m)
  BY DEF BeginTurn
<1> HIDE DEF x, m
<1>4. QED BY <1>1, <1>2, <1>3, SayKeeps

(* The Executor takes a message.                                           *)
LEMMA ReceivingKeeps ==
  ASSUME TypeOK, OneInv, NEW e \in Epoch,
         \/ RecvSessionOpen(e) \/ RecvPrompt(e) \/ RecvCancel(e)
         \/ RecvHalt(e) \/ RecvShutdown(e) \/ RecvAnswer(e)
  PROVE  OneInv'
<1>0. /\ exec[e] \in ExecType /\ exec \in [Epoch -> ExecType] /\ toComm \in [Epoch -> Seq(ToCommMsg)]
      /\ Alive(e) /\ exec[e].pc # "dead"
  BY DEF TypeOK, Alive, RecvSessionOpen, RecvPrompt, RecvCancel, RecvHalt, RecvShutdown,
         RecvAnswer, TakeSignal
<1>1. ASSUME NEW t, TakeSignal(e, t) PROVE Taken(e) /\ HasMsg(comm.pipe[e], t)
  <2>1. Take(e, Signal(t)) /\ Signal(t).type = t
    BY <1>1 DEF TakeSignal, Signal
  <2>2. QED BY <2>1, TakeIsTaken
<1>2. CASE RecvSessionOpen(e)
  <2> DEFINE x == IF exec[e].pc = "fresh" THEN [exec[e] EXCEPT !.pc = "opening"] ELSE exec[e]
  <2>1. exec' = [exec EXCEPT ![e] = x] /\ UNCHANGED toComm
    BY <1>0, <1>2 DEF RecvSessionOpen
  <2>2. x.halted = exec[e].halted /\ x.pc # "dead" /\ (x.pc \in InTurn => exec[e].pc \in InTurn)
    BY <1>0 DEF ExecType, InTurn, HasAgent
  <2> HIDE DEF x
  <2>3. Taken(e)
    BY <1>1, <1>2 DEF RecvSessionOpen
  <2>4. QED BY <1>0, <2>1, <2>2, <2>3, SilentKeeps
<1>3. CASE RecvPrompt(e)
  <2>1. PICK p \in Prompt, note \in BOOLEAN :
          /\ Take(e, PromptMsg(p, note))
          /\ \/ exec[e].pc = "idle" /\ BeginTurn(e, p, exec[e])
             \/ exec[e].pc = "finish" /\ exec' = [exec EXCEPT ![e].queued = p] /\ UNCHANGED toComm
             \/ UNCHANGED <<exec, toComm>>
    BY <1>3 DEF RecvPrompt
  <2>2. Taken(e) /\ HasMsg(comm.pipe[e], "prompt")
    BY <2>1, TakeIsTaken DEF PromptMsg
  <2>3. CASE BeginTurn(e, p, exec[e])
    BY <1>0, <2>2, <2>3, BeginTurnKeeps
  <2>4. CASE exec[e].pc = "finish" /\ exec' = [exec EXCEPT ![e].queued = p] /\ UNCHANGED toComm
    <3> DEFINE x == [exec[e] EXCEPT !.queued = p]
    <3>1. exec' = [exec EXCEPT ![e] = x] /\ x.halted = exec[e].halted /\ x.pc = exec[e].pc
      BY <1>0, <2>4 DEF ExecType
    <3> HIDE DEF x
    <3>2. QED BY <1>0, <2>2, <2>4, <3>1, SilentKeeps
  <2>5. CASE UNCHANGED <<exec, toComm>>
    <3>1. exec' = [exec EXCEPT ![e] = exec[e]]
      BY <1>0, <2>5
    <3>2. QED BY <1>0, <2>2, <2>5, <3>1, SilentKeeps
  <2>6. QED BY <2>1, <2>3, <2>4, <2>5
<1>4. CASE RecvCancel(e)
  <2> DEFINE x == Aborted(exec[e])
  <2>1. exec' = [exec EXCEPT ![e] = x] /\ UNCHANGED toComm
    BY <1>0, <1>4 DEF RecvCancel
  <2>2. x.halted = exec[e].halted /\ x.pc = exec[e].pc
    BY <1>0 DEF ExecType, Aborted
  <2> HIDE DEF x
  <2>3. Taken(e)
    BY <1>1, <1>4 DEF RecvCancel
  <2>4. QED BY <1>0, <2>1, <2>2, <2>3, SilentKeeps
<1>5. CASE RecvHalt(e)
  <2>1. Taken(e)
    BY <1>1, <1>5 DEF RecvHalt
  <2>2. CASE exec[e].pc \in HasAgent
    <3> DEFINE x == [Aborted(exec[e]) EXCEPT !.halted = TRUE]
               m == Signal("halted")
    <3>1. exec' = [exec EXCEPT ![e] = x] /\ Say(e, m)
      BY <1>0, <1>5, <2>2 DEF RecvHalt
    <3>2. x.halted /\ x.pc = exec[e].pc
      BY <1>0 DEF ExecType, Aborted
    <3>3. m.type = "halted"
      BY DEF Signal
    <3> HIDE DEF x, m
    <3>4. QED BY <1>0, <2>1, <3>1, <3>2, <3>3, SayKeeps
  <2>3. CASE exec[e].pc \notin HasAgent
    <3>1. exec' = [exec EXCEPT ![e] = exec[e]] /\ UNCHANGED toComm
      BY <1>0, <1>5, <2>3 DEF RecvHalt
    <3>2. QED BY <1>0, <2>1, <3>1, SilentKeeps
  <2>4. QED BY <2>2, <2>3
<1>6. CASE RecvShutdown(e)
  <2>1. Taken(e) /\ HasMsg(comm.pipe[e], "shutdown")
    BY <1>1, <1>6 DEF RecvShutdown
  <2>2. comm.shutting # "no"
    BY <2>1 DEF OneInv, CommInvariant, PipesAreRight
  <2>3. QED BY <1>0, <1>6, <2>1, <2>2, EndKeeps DEF RecvShutdown
<1>7. CASE RecvAnswer(e)
  <2>1. PICK c \in Call :
          /\ Take(e, AnswerMsg(c))
          /\ IF exec[e].pc = "ask" /\ exec[e].call = c
               THEN /\ exec' = [exec EXCEPT ![e].pc = "model", ![e].call = None]
                    /\ Say(e, EventMsg(Line("tool_call_finished", None, c), FALSE))
               ELSE UNCHANGED <<exec, toComm>>
    BY <1>7 DEF RecvAnswer
  <2>2. Taken(e)
    BY <2>1, TakeIsTaken
  <2>3. CASE exec[e].pc = "ask" /\ exec[e].call = c
    <3> DEFINE x == [exec[e] EXCEPT !.pc = "model", !.call = None]
               m == EventMsg(Line("tool_call_finished", None, c), FALSE)
    <3>1. exec' = [exec EXCEPT ![e] = x] /\ Say(e, m)
      BY <1>0, <2>1, <2>3
    <3>2. x.halted = exec[e].halted /\ x.pc = "model" /\ exec[e].pc \in InTurn
      BY <1>0, <2>3 DEF ExecType, InTurn, HasAgent
    <3>3. m.type = "event" /\ m.line.kind = "tool_call_finished"
      BY DEF EventMsg, Line
    <3> HIDE DEF x, m
    <3>4. QED BY <1>0, <2>2, <3>1, <3>2, <3>3, SayKeeps
  <2>4. CASE ~(exec[e].pc = "ask" /\ exec[e].call = c)
    <3>1. exec' = [exec EXCEPT ![e] = exec[e]] /\ UNCHANGED toComm
      BY <1>0, <2>1, <2>4
    <3>2. QED BY <1>0, <2>2, <3>1, SilentKeeps
  <2>5. QED BY <2>3, <2>4
<1>8. QED BY <1>2, <1>3, <1>4, <1>5, <1>6, <1>7

(* A step within the turn, or of the start, that says nothing of a halt or *)
(* of the end of a turn.                                                   *)
LEMMA PlainKeeps ==
  ASSUME TypeOK, OneInv, NEW e \in Epoch, Alive(e), UNCHANGED comm, NEW x,
         exec' = [exec EXCEPT ![e] = x],
         \/ UNCHANGED toComm
         \/ \E m : /\ Say(e, m) /\ m.type # "halted"
                   /\ m.type = "event" => m.line.kind # "turn_finished" \/ exec[e].pc \in InTurn,
         x.pc \in InTurn => exec[e].pc \in InTurn,
         x.halted = exec[e].halted, x.pc # "dead"
  PROVE  OneInv'
<1>1. Taken(e)
  BY DEF Taken
<1>2. CASE UNCHANGED toComm
  BY <1>1, <1>2, SilentKeeps
<1>3. ASSUME NEW m, Say(e, m), m.type # "halted",
             m.type = "event" => m.line.kind # "turn_finished" \/ exec[e].pc \in InTurn
      PROVE  OneInv'
  BY <1>1, <1>3, SayKeeps
<1>4. QED BY <1>2, <1>3

(* The Executor goes on by itself.                                         *)
LEMMA ActingKeeps ==
  ASSUME TypeOK, OneInv, NEW e \in Epoch,
         \/ Hello(e) \/ UserAcked(e) \/ ModelTool(e) \/ GateRefuses(e) \/ Dispatch(e)
         \/ ToolDone(e) \/ Finish(e) \/ ProviderError(e) \/ FinishAcked(e)
         \/ AckTimeout(e) \/ Disconnect(e)
  PROVE  OneInv'
<1>0. /\ exec[e] \in ExecType /\ exec \in [Epoch -> ExecType] /\ Alive(e) /\ UNCHANGED comm
  BY DEF TypeOK, AckedIn, Hello, UserAcked, ModelTool, GateRefuses, Dispatch, ToolDone, Finish,
         ProviderError, FinishAcked, AckTimeout, Disconnect, BeginTurn
<1> DEFINE done == EventMsg(Line("tool_call_finished", None, exec[e].call), FALSE)
           back == [exec[e] EXCEPT !.pc = "model", !.call = None]
<1>2. back.halted = exec[e].halted /\ back.pc = "model"
  BY <1>0 DEF ExecType
<1>3. CASE Hello(e)
  <2> DEFINE x == [exec[e] EXCEPT !.pc = "fresh"]
             m == Signal("hello")
  <2>1. exec' = [exec EXCEPT ![e] = x] /\ Say(e, m)
    BY <1>3 DEF Hello
  <2>2. x.halted = exec[e].halted /\ x.pc = "fresh" /\ m.type = "hello"
    BY <1>0 DEF ExecType, Signal
  <2> HIDE DEF x, m
  <2>3. x.pc \notin InTurn
    BY <2>2 DEF InTurn, HasAgent
  <2>4. QED BY <1>0, <2>1, <2>2, <2>3, PlainKeeps
<1>4. CASE UserAcked(e)
  <2> DEFINE x == [exec[e] EXCEPT !.pc = "model"]
  <2>1. exec' = [exec EXCEPT ![e] = x] /\ UNCHANGED toComm /\ exec[e].pc \in InTurn
    BY <1>4 DEF UserAcked, AckedIn, InTurn, HasAgent
  <2>2. x.halted = exec[e].halted /\ x.pc = "model"
    BY <1>0 DEF ExecType
  <2> HIDE DEF x
  <2>3. QED BY <1>0, <2>1, <2>2, PlainKeeps
<1>5. CASE ModelTool(e)
  <2> DEFINE c == env.calls + 1
             x == [exec[e] EXCEPT !.pc = "request", !.call = c]
             m == EventMsg(Line("tool_call_requested", None, c), TRUE)
  <2>1. exec' = [exec EXCEPT ![e] = x] /\ Say(e, m) /\ exec[e].pc \in InTurn
    BY <1>5 DEF ModelTool, InTurn, HasAgent
  <2>2. x.halted = exec[e].halted /\ x.pc = "request"
    BY <1>0 DEF ExecType
  <2>3. m.type = "event"
    BY DEF EventMsg
  <2> HIDE DEF x, m
  <2>4. QED BY <1>0, <2>1, <2>2, <2>3, PlainKeeps
<1>6. CASE GateRefuses(e) \/ ToolDone(e)
  <2>1. exec' = [exec EXCEPT ![e] = back] /\ Say(e, done) /\ exec[e].pc \in InTurn
    BY <1>0, <1>6 DEF GateRefuses, ToolDone, AckedIn, InTurn, HasAgent
  <2>2. done.type = "event"
    BY DEF EventMsg
  <2> HIDE DEF back, done
  <2>3. QED BY <1>0, <1>2, <2>1, <2>2, PlainKeeps
<1>7. CASE Dispatch(e)
  <2>1. exec[e].pc \in InTurn
    BY <1>7 DEF Dispatch, AckedIn, InTurn, HasAgent
  <2>2. CASE exec' = [exec EXCEPT ![e].pc = "tool"] /\ UNCHANGED toComm
    <3> DEFINE x == [exec[e] EXCEPT !.pc = "tool"]
    <3>1. exec' = [exec EXCEPT ![e] = x] /\ x.halted = exec[e].halted /\ x.pc = "tool"
      BY <1>0, <2>2 DEF ExecType
    <3> HIDE DEF x
    <3>2. QED BY <1>0, <2>1, <2>2, <3>1, PlainKeeps
  <2>3. CASE exec' = [exec EXCEPT ![e].pc = "ask"] /\ Say(e, AskMsg(exec[e].call))
    <3> DEFINE x == [exec[e] EXCEPT !.pc = "ask"]
               m == AskMsg(exec[e].call)
    <3>1. exec' = [exec EXCEPT ![e] = x] /\ x.halted = exec[e].halted /\ x.pc = "ask"
      BY <1>0, <2>3 DEF ExecType
    <3>2. m.type = "ask_user" /\ Say(e, m)
      BY <2>3 DEF AskMsg
    <3> HIDE DEF x, m
    <3>3. QED BY <1>0, <2>1, <3>1, <3>2, PlainKeeps
  <2>4. QED BY <1>7, <2>2, <2>3 DEF Dispatch
<1>8. CASE Finish(e)
  <2> DEFINE x == [exec[e] EXCEPT !.pc = "finish"]
             m == EventMsg(Line("turn_finished", exec[e].prompt, None), TRUE)
  <2>1. exec' = [exec EXCEPT ![e] = x] /\ Say(e, m) /\ exec[e].pc \in InTurn
    BY <1>8 DEF Finish, InTurn, HasAgent
  <2>2. x.halted = exec[e].halted /\ x.pc = "finish"
    BY <1>0 DEF ExecType
  <2>3. m.type = "event"
    BY DEF EventMsg
  <2> HIDE DEF x, m
  <2>4. QED BY <1>0, <2>1, <2>2, <2>3, PlainKeeps
<1>9. CASE ProviderError(e)
  <2> DEFINE x == [exec[e] EXCEPT !.pc = "idle", !.prompt = None]
             m == EventMsg(Line("provider_error", exec[e].prompt, None), FALSE)
  <2>1. exec' = [exec EXCEPT ![e] = x] /\ Say(e, m) /\ exec[e].pc \in InTurn
    BY <1>0, <1>9 DEF ProviderError, InTurn, HasAgent
  <2>2. x.halted = exec[e].halted /\ x.pc = "idle"
    BY <1>0 DEF ExecType
  <2>3. m.type = "event"
    BY DEF EventMsg
  <2> HIDE DEF x, m
  <2>4. QED BY <1>0, <2>1, <2>2, <2>3, PlainKeeps
<1>10. CASE FinishAcked(e)
  <2> DEFINE x == [exec[e] EXCEPT !.pc = "idle", !.prompt = None, !.abort = FALSE]
  <2>1. exec[e].pc \in InTurn
    BY <1>10 DEF FinishAcked, AckedIn, InTurn, HasAgent
  <2>2. x \in ExecType /\ x.halted = exec[e].halted /\ x.pc = "idle" /\ x.queued \in Prompt \cup {None}
    BY <1>0 DEF ExecType, PC, HasAgent
  <2>3. IF x.queued # None THEN BeginTurn(e, x.queued, x)
                           ELSE exec' = [exec EXCEPT ![e] = x] /\ UNCHANGED toComm
    BY <1>10 DEF FinishAcked
  <2>4. Taken(e)
    BY <1>0 DEF Taken
  <2> HIDE DEF x
  <2>5. CASE x.queued # None
    <3>1. x.queued \in Prompt
      BY <2>2, <2>5
    <3>2. QED BY <1>0, <2>1, <2>2, <2>3, <2>4, <2>5, <3>1, BeginTurnKeeps
  <2>6. CASE x.queued = None
    BY <1>0, <2>1, <2>2, <2>3, <2>6, PlainKeeps
  <2>7. QED BY <2>5, <2>6
<1>11. CASE AckTimeout(e) \/ Disconnect(e)
  <2>1. exec[e].pc \in InTurn \/ comm.shutting # "no"
    BY <1>11 DEF AckTimeout, Disconnect, CommOn, Awaiting, InTurn, HasAgent
  <2>2. exec' = [exec EXCEPT ![e] = DeadExec] /\ UNCHANGED toComm
    BY <1>11 DEF AckTimeout, Disconnect
  <2>3. Taken(e)
    BY <1>0 DEF Taken
  <2>4. QED BY <1>0, <2>1, <2>2, <2>3, EndKeeps
<1>12. QED
  BY <1>3, <1>4, <1>5, <1>6, <1>7, <1>8, <1>9, <1>10, <1>11

(* The shutdown is over: the Executor that is live then is killed.         *)
LEMMA ShutdownDoneKeeps ==
  ASSUME TypeOK, OneInv, ShutdownDone
  PROVE  OneInv'
<1>1. comm \in CommType /\ CommInvariant(comm)
  BY DEF OneInv, CommInvariant
<1>2. /\ comm' \in CommType /\ comm'.child = comm.child /\ comm'.after = comm.after
      /\ comm'.epoch = comm.epoch /\ comm'.live = comm.live /\ comm'.pipe = comm.pipe
      /\ comm'.shutting = "done" /\ comm'.halted = comm.halted
      /\ comm'.turn = comm.turn /\ comm'.stopped = comm.stopped
  BY <1>1 DEF ShutdownDone, CommType
<1>3. CommInvariant(comm')
  BY <1>1, <1>2 DEF CommInvariant, OneLive, PipesAreRight
<1>4. DeadExec.pc = "dead" /\ "dead" \notin InTurn
  BY DEF DeadExec, NewExec, InTurn, HasAgent
<1>5. ASSUME NEW e \in Epoch PROVE ExecIsRight(comm, e)' /\ HaltIsRight(comm, e)'
  <2>1. ExecIsRight(comm, e) /\ HaltIsRight(comm, e)
    BY DEF OneInv, ProcessesAreRight
  <2>2. exec'[e] = (IF e = comm.live THEN DeadExec ELSE exec[e]) /\ UNCHANGED toComm
    BY DEF ShutdownDone
  <2>3. e = comm.live => comm.child[e] \notin {"none", "gone"}
    BY <1>1 DEF CommInvariant, OneLive
  <2>4. QED BY <1>2, <1>4, <2>1, <2>2, <2>3 DEF ExecIsRight, HaltIsRight
<1>6. QED BY <1>3, <1>5 DEF OneInv, ProcessesAreRight

-----------------------------------------------------------------------------
(* The invariant is inductive.                                             *)

(* Init establishes the invariant.                                         *)
LEMMA OneInit == Init => OneInv
<1> SUFFICES ASSUME Init PROVE OneInv
  OBVIOUS
<1>1. comm \in CommType
  BY EmptySeq, PromptAssumption DEF Init, CommType, After, NoPrompt
<1>2. OneLive(comm) /\ PipesAreRight(comm)
  BY EmptyHas DEF Init, OneLive, PipesAreRight, NoPrompt, Epoch
<1>3. ASSUME NEW e \in Epoch PROVE ExecIsRight(comm, e) /\ HaltIsRight(comm, e)
  BY EmptyHas DEF Init, ExecIsRight, HaltIsRight
<1>4. QED BY <1>1, <1>2, <1>3 DEF Init, OneInv, CommInvariant, ProcessesAreRight

(* Every step keeps it, as long as no fault hits the start of an Executor. *)
LEMMA OneStep == NoStartFaults /\ TypeOK /\ OneInv /\ [Next]_vars => OneInv'
<1> SUFFICES ASSUME NoStartFaults, TypeOK, OneInv, [Next]_vars PROVE OneInv'
  OBVIOUS
<1>1. CASE UNCHANGED vars
  <2>1. comm' = comm /\ exec' = exec /\ toComm' = toComm
    BY <1>1 DEF vars
  <2>2. CommInvariant(comm')
    BY <2>1 DEF OneInv
  <2>3. \A e \in Epoch : ExecIsRight(comm, e)' /\ HaltIsRight(comm, e)'
    BY <2>1 DEF OneInv, ProcessesAreRight, ExecIsRight, HaltIsRight
  <2>4. QED BY <2>2, <2>3 DEF OneInv, ProcessesAreRight
<1>2. CASE User \/ IdleWindowPasses
  BY <1>2, UserKeeps
<1>3. CASE ShutdownDone
  BY <1>3, ShutdownDoneKeeps
<1>4. ASSUME NEW e \in Epoch, CommStep(e) PROVE OneInv'
  BY <1>4, StartKeeps, EventKeeps, HaltedKeeps, ChildExitKeeps DEF CommStep
<1>5. ASSUME NEW e \in Epoch, ExecStep(e) PROVE OneInv'
  BY <1>5, SessionOpenedKeeps, ReceivingKeeps, ActingKeeps DEF ExecStep
<1>6. ASSUME NEW e \in Epoch, HelloTimeout(e) \/ OpenTimeout(e) PROVE OneInv'
  BY <1>6 DEF HelloTimeout, OpenTimeout, NoStartFaults
<1>7. ASSUME NEW e \in Epoch, Exit(e) PROVE OneInv'
  <2>1. /\ Alive(e) /\ comm.child[e] = "up" /\ Taken(e)
        /\ exec' = [exec EXCEPT ![e] = DeadExec] /\ UNCHANGED toComm
    BY <1>7 DEF Exit, NoStartFaults, Taken
  <2>2. QED BY <2>1, EndKeeps
<1>8. QED BY <1>1, <1>2, <1>3, <1>4, <1>5, <1>6, <1>7 DEF Next

(* So the invariant holds in every run without such a fault.               *)
THEOREM ExecutorsAreRight ==
  ASSUME NoStartFaults
  PROVE  Spec => []OneInv
<1>1. OneInv /\ TypeOK /\ [Next]_vars => OneInv'
  BY OneStep
<1>2. QED BY <1>1, OneInit, TypeCorrect, PTL DEF Spec

(* One agent works on the session: through crashes of an Executor that is  *)
(* up, restarts, cancels, halts, failing appends and failing model calls   *)
(* no two Executors are alive (core.ts, spawnAndHello after onChildExit).  *)
THEOREM OneExecutorWorks ==
  ASSUME NoStartFaults
  PROVE  Spec => []AtMostOneExecutor
<1>1. OneInv => AtMostOneExecutor
  <2> SUFFICES ASSUME OneInv, NEW e \in Epoch, NEW f \in Epoch, Alive(e), Alive(f)
               PROVE  e = f
    BY DEF AtMostOneExecutor
  <2>1. comm.child[e] \notin {"none", "gone"} /\ comm.child[f] \notin {"none", "gone"}
    BY DEF Alive, OneInv, ProcessesAreRight, ExecIsRight
  <2>2. QED BY <2>1 DEF OneInv, CommInvariant, OneLive
<1>2. QED BY <1>1, ExecutorsAreRight, PTL

(* Once the Communicator holds the run for halted no tool starts, also not *)
(* in an Executor that was respawned with a gate that is not halted.       *)
THEOREM HaltedRunsStartNoTool ==
  ASSUME NoStartFaults
  PROVE  Spec => HaltStopsTools
<1>1. OneInv /\ TypeOK /\ [Next]_vars => [comm.halted => env'.ran = env.ran]_vars
  <2> SUFFICES ASSUME OneInv, env \in EnvType, Next, comm.halted PROVE env'.ran = env.ran
    BY DEF TypeOK
  <2>1. ASSUME NEW e \in Epoch PROVE ~Dispatch(e)
    <3> SUFFICES ASSUME Dispatch(e) PROVE FALSE
      OBVIOUS
    <3>1. exec[e].pc = "request" /\ ~exec[e].halted
      BY DEF Dispatch, AckedIn
    <3>2. HaltIsRight(comm, e)
      BY DEF OneInv, ProcessesAreRight
    <3>3. QED BY <3>1, <3>2 DEF HaltIsRight, InTurn, HasAgent
  <2>2. CASE User \/ ShutdownDone \/ IdleWindowPasses
    BY <2>2 DEF User, TypePrompt, TypeAnswer, Cancel, Halt, Shutdown, ShutdownDone,
                IdleWindowPasses, EnvType
  <2>3. ASSUME NEW e \in Epoch, CommStep(e) PROVE env'.ran = env.ran
    BY <2>3 DEF CommStep, RecvHello, RecvOpenAck, RecvEvent, AppendFails, RecvAsk,
                RecvHalted, OnChildExit, EnvType
  <2>4. ASSUME NEW e \in Epoch, ExecStep(e) PROVE env'.ran = env.ran
    BY <2>1, <2>4 DEF ExecStep, Hello, RecvSessionOpen, SessionOpened, RecvPrompt, Lose,
                RecvCancel, RecvHalt, RecvShutdown, RecvAnswer, UserAcked, ModelTool, GateRefuses,
                ToolDone, Finish, ProviderError, FinishAcked, AckTimeout, Disconnect, EnvType
  <2>5. ASSUME NEW e \in Epoch, HelloTimeout(e) \/ OpenTimeout(e) \/ Exit(e) PROVE env'.ran = env.ran
    BY <2>5 DEF HelloTimeout, OpenTimeout, Exit, EnvType
  <2>6. QED BY <2>2, <2>3, <2>4, <2>5 DEF Next
<1>2. QED BY <1>1, ExecutorsAreRight, TypeCorrect, PTL DEF Spec, HaltStopsTools

-----------------------------------------------------------------------------
(* The restart budget, under every fault.  A prompt that is on its way to  *)
(* the session store stands somewhere: in what a respawn will do, in a     *)
(* pipe, in an Executor's queue, in a line, in the store.  The places      *)
(* where it stands are counted; c, x, q and s are values of comm, exec,    *)
(* toComm and store.                                                       *)

Place == {"after", "pipe", "queued", "line", "store"} \X Nat \X Nat
Stands(c, x, q, s, z, p) ==
  \/ /\ z[1] = "after" /\ z[2] \in Epoch /\ z[3] = 0
     /\ c.after[z[2]].prompt = p
  \/ /\ z[1] = "pipe" /\ z[2] \in Epoch /\ z[3] \in 1 .. Len(c.pipe[z[2]])
     /\ c.pipe[z[2]][z[3]].type = "prompt" /\ c.pipe[z[2]][z[3]].prompt = p
  \/ /\ z[1] = "queued" /\ z[2] \in Epoch /\ z[3] = 0
     /\ x[z[2]].queued = p
  \/ /\ z[1] = "line" /\ z[2] \in Epoch /\ z[3] \in 1 .. Len(q[z[2]])
     /\ q[z[2]][z[3]].type = "event" /\ q[z[2]][z[3]].line.kind = "user_message"
     /\ q[z[2]][z[3]].line.prompt = p
  \/ /\ z[1] = "store" /\ z[2] = 0 /\ z[3] \in 1 .. Len(s)
     /\ s[z[3]].kind = "user_message" /\ s[z[3]].prompt = p
Tokens(c, x, q, s, p) == {z \in Place : Stands(c, x, q, s, z, p)}

(* In how many places a prompt may stand: in none before it is submitted,  *)
(* in one more with each restart, and never in more than the budget has.   *)
Room(c, t, p) ==
  IF p \notin t \/ c.slot = p THEN 0
  ELSE IF c.turn # "idle" /\ c.prompt = p THEN c.used + 1 ELSE PerTurnMax + 1

Counted(c, x, q, s, t) ==
  /\ c \in CommType /\ c.used <= PerTurnMax
  /\ {c.slot, c.prompt} \subseteq t \cup {None}
  /\ c.slot # None => c.slot # c.prompt
  /\ \A p \in Prompt : /\ IsFiniteSet(Tokens(c, x, q, s, p))
                       /\ Cardinality(Tokens(c, x, q, s, p)) <= Room(c, t, p)
ReplayInv == Counted(comm, exec, toComm, store, env.typed)

(* There is always room for one more, but none before the submission.      *)
LEMMA RoomIsNat ==
  ASSUME NEW c \in CommType, NEW t, NEW p
  PROVE  Room(c, t, p) \in Nat
BY BudgetAssumption DEF Room, CommType

(* Places that correspond to places.                                       *)
LEMMA FewerPlaces ==
  ASSUME NEW S, NEW T, NEW g \in [S -> T], IsFiniteSet(T),
         \A y, z \in S : g[y] = g[z] => y = z
  PROVE  IsFiniteSet(S) /\ Cardinality(S) <= Cardinality(T)
<1>1. g \in Injection(S, T)
  BY DEF Injection, IsInjective
<1>2. QED BY <1>1, FS_Injection

(* Messages move from place to place, and some get lost.                   *)
LEMMA TokensMove ==
  ASSUME NEW c, NEW x, NEW q, NEW s, NEW t, Counted(c, x, q, s, t),
         NEW d \in CommType, NEW y, NEW r, NEW u,
         d.slot = c.slot, d.prompt = c.prompt, d.used = c.used,
         (d.turn = "idle") <=> (c.turn = "idle"),
         NEW g \in [Place -> Place],
         \A p \in Prompt : \A z \in Tokens(d, y, r, u, p) : g[z] \in Tokens(c, x, q, s, p),
         \A p \in Prompt : \A z, w \in Tokens(d, y, r, u, p) : g[z] = g[w] => z = w
  PROVE  Counted(d, y, r, u, t)
<1>1. ASSUME NEW p \in Prompt
      PROVE  /\ IsFiniteSet(Tokens(d, y, r, u, p))
             /\ Cardinality(Tokens(d, y, r, u, p)) <= Room(d, t, p)
  <2> DEFINE S == Tokens(d, y, r, u, p)
             T == Tokens(c, x, q, s, p)
             h == [z \in S |-> g[z]]
  <2>1. IsFiniteSet(T) /\ Cardinality(T) <= Room(c, t, p) /\ Cardinality(T) \in Nat
    BY FS_CardinalityType DEF Counted
  <2>2. Room(d, t, p) = Room(c, t, p)
    BY DEF Room
  <2>3. \A z \in S : g[z] \in T
    OBVIOUS
  <2>4. \A z, w \in S : g[z] = g[w] => z = w
    OBVIOUS
  <2> HIDE DEF S, T
  <2>5. h \in [S -> T] /\ \A z, w \in S : h[z] = h[w] => z = w
    BY <2>3, <2>4
  <2>6. IsFiniteSet(S) /\ Cardinality(S) <= Cardinality(T)
    BY <2>1, <2>5, FewerPlaces
  <2>7. Cardinality(S) \in Nat /\ Room(c, t, p) \in Nat
    BY <2>6, FS_CardinalityType, RoomIsNat DEF Counted
  <2>8. QED BY <2>1, <2>2, <2>6, <2>7 DEF S
<1>2. QED BY <1>1 DEF Counted

(* What a handler of the Communicator adds to the places: at most one, for *)
(* one prompt.                                                             *)
Adds(c, d, p) ==
  \A x, q, s : \E z : \A r \in Prompt, w \in Place :
    Stands(d, x, q, s, w, r) => IF w = z THEN r = p ELSE Stands(c, x, q, s, w, r)

(* It may add what there is room for.                                      *)
LEMMA AddsCounted ==
  ASSUME NEW c, NEW x, NEW q, NEW s, NEW t, Counted(c, x, q, s, t),
         NEW d \in CommType, NEW t2, t \subseteq t2, NEW p, Adds(c, d, p),
         d.used <= PerTurnMax, {d.slot, d.prompt} \subseteq t2 \cup {None},
         d.slot # None => d.slot # d.prompt,
         \A r \in Prompt \ {p} : Room(c, t, r) <= Room(d, t2, r),
         p \in Prompt => \/ Room(c, t, p) < Room(d, t2, p)
                         \/ Tokens(c, x, q, s, p) = {} /\ Room(d, t2, p) # 0
  PROVE  Counted(d, x, q, s, t2)
<1>1. PICK z : \A r \in Prompt, w \in Place :
        Stands(d, x, q, s, w, r) => IF w = z THEN r = p ELSE Stands(c, x, q, s, w, r)
  BY DEF Adds
<1>2. ASSUME NEW r \in Prompt
      PROVE  /\ IsFiniteSet(Tokens(d, x, q, s, r))
             /\ Cardinality(Tokens(d, x, q, s, r)) <= Room(d, t2, r)
  <2> DEFINE S == Tokens(d, x, q, s, r)
             T == Tokens(c, x, q, s, r)
  <2>1. IsFiniteSet(T) /\ Cardinality(T) <= Room(c, t, r) /\ Cardinality(T) \in Nat
    BY FS_CardinalityType DEF Counted
  <2>2. Room(c, t, r) \in Nat /\ Room(d, t2, r) \in Nat
    BY RoomIsNat DEF Counted
  <2>3. S \subseteq T \cup (IF r = p THEN {z} ELSE {})
    BY <1>1 DEF Tokens
  <2> HIDE DEF S, T
  <2>4. CASE r # p
    <3>1. IsFiniteSet(S) /\ Cardinality(S) <= Cardinality(T)
      BY <2>1, <2>3, <2>4, FS_Subset
    <3>2. Cardinality(S) \in Nat /\ Room(c, t, r) <= Room(d, t2, r)
      BY <2>4, <3>1, FS_CardinalityType
    <3>3. QED BY <2>1, <2>2, <3>1, <3>2 DEF S
  <2>5. CASE r = p
    <3>1. IsFiniteSet(T \cup {z}) /\ Cardinality(T \cup {z}) <= Cardinality(T) + 1
          /\ Cardinality(T \cup {z}) \in Nat
      <4>1. /\ IsFiniteSet(T \cup {z})
            /\ Cardinality(T \cup {z}) = IF z \in T THEN Cardinality(T) ELSE Cardinality(T) + 1
        BY <2>1, FS_AddElement, Zenon
      <4>2. QED BY <2>1, <4>1
    <3>2. S \in SUBSET (T \cup {z})
      BY <2>3, <2>5
    <3>3. IsFiniteSet(S) /\ Cardinality(S) <= Cardinality(T \cup {z})
      BY <3>1, <3>2, FS_Subset
    <3>4. Cardinality(S) \in Nat
      BY <3>3, FS_CardinalityType
    <3>5. Cardinality(T) < Room(d, t2, r)
      <4>1. CASE Room(c, t, r) < Room(d, t2, r)
        BY <2>1, <2>2, <4>1
      <4>2. CASE T = {} /\ Room(d, t2, r) # 0
        BY <2>1, <2>2, <4>2, FS_EmptySet
      <4>3. QED BY <2>5, <4>1, <4>2 DEF T
    <3>6. QED BY <2>1, <2>2, <3>1, <3>3, <3>4, <3>5 DEF S
  <2>6. QED BY <2>4, <2>5
<1>3. QED BY <1>2 DEF Counted

(* A handler that leaves pipes and respawns alone adds nothing.            *)
LEMMA AddsNothing ==
  ASSUME NEW c, NEW d, d.after = c.after, d.pipe = c.pipe, NEW p
  PROVE  Adds(c, d, p)
<1> DEFINE z == <<"nowhere", 0, 0>>
<1>1. z \notin Place
  BY DEF Place
<1>2. \A x, q, s, r, w : Stands(d, x, q, s, w, r) => Stands(c, x, q, s, w, r)
  BY DEF Stands
<1> HIDE DEF z
<1>3. SUFFICES ASSUME NEW x, NEW q, NEW s
               PROVE  \E v : \A r \in Prompt, w \in Place :
                 Stands(d, x, q, s, w, r) => IF w = v THEN r = p ELSE Stands(c, x, q, s, w, r)
  BY DEF Adds
<1>4. \A r \in Prompt, w \in Place :
        Stands(d, x, q, s, w, r) => IF w = z THEN r = p ELSE Stands(c, x, q, s, w, r)
  BY <1>1, <1>2
<1>5. QED BY <1>4

(* Two handlers, of which one adds nothing.                                *)
LEMMA AddsAfter ==
  ASSUME NEW c, NEW d, NEW w, d.after = c.after, d.pipe = c.pipe, NEW p, Adds(d, w, p)
  PROVE  Adds(c, w, p)
<1>1. \A x, q, s, z, r : Stands(d, x, q, s, z, r) => Stands(c, x, q, s, z, r)
  BY DEF Stands
<1>2. SUFFICES ASSUME NEW x, NEW q, NEW s
               PROVE  \E v : \A r \in Prompt, z \in Place :
                 Stands(w, x, q, s, z, r) => IF z = v THEN r = p ELSE Stands(c, x, q, s, z, r)
  BY DEF Adds
<1>3. PICK v : \A r \in Prompt, z \in Place :
        Stands(w, x, q, s, z, r) => IF z = v THEN r = p ELSE Stands(d, x, q, s, z, r)
  BY DEF Adds
<1>4. \A r \in Prompt, z \in Place :
        Stands(w, x, q, s, z, r) => IF z = v THEN r = p ELSE Stands(c, x, q, s, z, r)
  BY <1>1, <1>3
<1>5. QED BY <1>4

(* What stays the same when a message is sent or an Executor is spawned.   *)
SameTurn(c, d) ==
  /\ d \in CommType
  /\ d.turn = c.turn /\ d.prompt = c.prompt /\ d.used = c.used /\ d.slot = c.slot

(* A message adds its prompt, if it is one.                                *)
LEMMA SendToAdds ==
  ASSUME NEW c \in CommType, NEW n, NEW m \in PipeMsg, NEW p, m.type = "prompt" => m.prompt = p
  PROVE  SameTurn(c, SendTo(c, n, m)) /\ Adds(c, SendTo(c, n, m), p)
<1> DEFINE d == SendTo(c, n, m)
<1>1. \A f \in Epoch : Append(c.pipe[f], m) \in Seq(PipeMsg)
  BY DEF CommType
<1>2. d \in CommType
  BY <1>1 DEF CommType, SendTo
<1>3. /\ d.after = c.after /\ d.turn = c.turn /\ d.prompt = c.prompt /\ d.used = c.used
      /\ d.slot = c.slot
      /\ \A f \in Epoch : d.pipe[f] = IF f = n THEN Append(c.pipe[f], m) ELSE c.pipe[f]
  BY DEF CommType, SendTo
<1>4. \A f \in Epoch :
        /\ Len(c.pipe[f]) \in Nat
        /\ Len(Append(c.pipe[f], m)) = Len(c.pipe[f]) + 1
        /\ Append(c.pipe[f], m)[Len(c.pipe[f]) + 1] = m
        /\ \A i \in 1 .. Len(c.pipe[f]) : Append(c.pipe[f], m)[i] = c.pipe[f][i]
  <2>1. \A f \in Epoch : c.pipe[f] \in Seq(PipeMsg)
    BY DEF CommType
  <2>2. QED BY <2>1, AppendFacts, AppendProperties
<1> HIDE DEF d
<1>5. ASSUME NEW x, NEW q, NEW s
      PROVE  \E z : \A r \in Prompt, w \in Place :
               Stands(d, x, q, s, w, r) => IF w = z THEN r = p ELSE Stands(c, x, q, s, w, r)
  <2> DEFINE z == <<"pipe", n, Len(c.pipe[n]) + 1>>
  <2>1. ASSUME NEW r \in Prompt, NEW w \in Place, Stands(d, x, q, s, w, r)
        PROVE  IF w = z THEN r = p ELSE Stands(c, x, q, s, w, r)
    <3>1. CASE w[1] # "pipe"
      BY <1>3, <2>1, <3>1 DEF Stands
    <3>2. CASE w[1] = "pipe"
      <4>1. /\ w[2] \in Epoch /\ w[3] \in 1 .. Len(d.pipe[w[2]])
            /\ d.pipe[w[2]][w[3]].type = "prompt" /\ d.pipe[w[2]][w[3]].prompt = r
        BY <2>1, <3>2 DEF Stands
      <4>2. CASE w[2] # n
        BY <1>3, <3>2, <4>1, <4>2 DEF Stands
      <4>3. CASE w[2] = n
        <5>1. d.pipe[n] = Append(c.pipe[n], m) /\ n \in Epoch
          BY <1>3, <4>1, <4>3
        <5>2. CASE w[3] \in 1 .. Len(c.pipe[n])
          <6>1. w # z
            BY <1>4, <5>1, <5>2
          <6>2. QED BY <1>4, <3>2, <4>1, <4>3, <5>1, <5>2, <6>1 DEF Stands
        <5>3. CASE w[3] = Len(c.pipe[n]) + 1
          <6>1. m.type = "prompt" /\ m.prompt = r
            BY <1>4, <4>1, <4>3, <5>1, <5>3
          <6>2. w = <<w[1], w[2], w[3]>>
            BY DEF Place
          <6>3. QED BY <3>2, <4>3, <5>3, <6>1, <6>2
        <5>4. QED BY <1>4, <4>1, <4>3, <5>1, <5>2, <5>3
      <4>4. QED BY <4>2, <4>3
    <3>3. QED BY <3>1, <3>2
  <2> HIDE DEF z
  <2>2. \A r \in Prompt, w \in Place :
          Stands(d, x, q, s, w, r) => IF w = z THEN r = p ELSE Stands(c, x, q, s, w, r)
    BY <2>1
  <2>3. QED BY <2>2
<1>6. QED BY <1>2, <1>3, <1>5 DEF SameTurn, Adds, d

(* So does one to the live Executor, if there is one.                      *)
LEMMA SendAdds ==
  ASSUME NEW c \in CommType, NEW m \in PipeMsg, NEW p, m.type = "prompt" => m.prompt = p
  PROVE  SameTurn(c, SendLive(c, m)) /\ Adds(c, SendLive(c, m), p)
<1>1. SameTurn(c, c) /\ Adds(c, c, p)
  BY AddsNothing DEF SameTurn
<1>2. QED BY <1>1, SendToAdds DEF SendLive

(* A respawn adds the prompt it will send.                                 *)
LEMMA RespawnAdds ==
  ASSUME NEW c \in CommType, NEW a \in After
  PROVE  SameTurn(c, Respawn(c, a)) /\ Adds(c, Respawn(c, a), a.prompt)
<1>1. CASE c.shutting # "no"
  <2>1. Respawn(c, a) = c
    BY <1>1 DEF Respawn
  <2>2. QED BY <2>1, AddsNothing DEF SameTurn
<1>2. CASE c.shutting = "no"
  <2> DEFINE d == SpawnAndHello(c, a)
             n == c.epoch + 1
  <2>1. Respawn(c, a) = d /\ n \in Nat
    BY <1>2 DEF Respawn, CommType
  <2>2. d \in CommType
    BY <2>1 DEF CommType, SpawnAndHello
  <2>3. /\ d.pipe = c.pipe /\ d.turn = c.turn /\ d.prompt = c.prompt /\ d.used = c.used
        /\ d.slot = c.slot
        /\ \A f \in Epoch : d.after[f] = IF f = n THEN a ELSE c.after[f]
    BY DEF CommType, SpawnAndHello
  <2> HIDE DEF d, n
  <2>4. ASSUME NEW x, NEW q, NEW s
        PROVE  \E z : \A r \in Prompt, w \in Place :
                 Stands(d, x, q, s, w, r)
                   => IF w = z THEN r = a.prompt ELSE Stands(c, x, q, s, w, r)
    <3> DEFINE z == <<"after", n, 0>>
    <3>1. ASSUME NEW r \in Prompt, NEW w \in Place, Stands(d, x, q, s, w, r)
          PROVE  IF w = z THEN r = a.prompt ELSE Stands(c, x, q, s, w, r)
      <4>1. CASE w[1] # "after"
        BY <2>3, <3>1, <4>1 DEF Stands
      <4>2. CASE w[1] = "after"
        <5>1. w[2] \in Epoch /\ w[3] = 0 /\ d.after[w[2]].prompt = r
          BY <3>1, <4>2 DEF Stands
        <5>2. w = <<w[1], w[2], w[3]>>
          BY DEF Place
        <5>3. QED BY <2>3, <4>2, <5>1, <5>2 DEF Stands
      <4>3. QED BY <4>1, <4>2
    <3> HIDE DEF z
    <3>2. \A r \in Prompt, w \in Place :
            Stands(d, x, q, s, w, r)
              => IF w = z THEN r = a.prompt ELSE Stands(c, x, q, s, w, r)
      BY <3>1
    <3>3. QED BY <3>2
  <2>5. QED BY <2>1, <2>2, <2>3, <2>4 DEF SameTurn, Adds
<1>3. QED BY <1>1, <1>2

-----------------------------------------------------------------------------
(* The handlers of the Communicator keep to the budget.                    *)

(* Where there is no room there is no token.                               *)
LEMMA NoRoomNoTokens ==
  ASSUME NEW c, NEW x, NEW q, NEW s, NEW t, Counted(c, x, q, s, t),
         NEW p \in Prompt, Room(c, t, p) = 0
  PROVE  Tokens(c, x, q, s, p) = {}
<1> DEFINE T == Tokens(c, x, q, s, p)
<1>1. IsFiniteSet(T) /\ Cardinality(T) <= 0 /\ Cardinality(T) \in Nat
  BY FS_CardinalityType DEF Counted
<1>2. QED BY <1>1, FS_EmptySet DEF T

(* A handler that only makes room.                                         *)
LEMMA RoomGrows ==
  ASSUME NEW c, NEW x, NEW q, NEW s, NEW t, Counted(c, x, q, s, t),
         NEW d \in CommType, NEW t2, t \subseteq t2,
         d.after = c.after, d.pipe = c.pipe,
         d.used <= PerTurnMax, {d.slot, d.prompt} \subseteq t2 \cup {None},
         d.slot # None => d.slot # d.prompt,
         \A p \in Prompt : Room(c, t, p) <= Room(d, t2, p)
  PROVE  Counted(d, x, q, s, t2)
<1>1. Adds(c, d, None) /\ None \notin Prompt
  BY AddsNothing, PromptAssumption
<1> HIDE DEF Counted
<1>2. QED BY <1>1, AddsCounted

(* Bookkeeping that no prompt is about.                                    *)
LEMMA OtherFields ==
  ASSUME NEW c, NEW x, NEW q, NEW s, NEW t, Counted(c, x, q, s, t),
         NEW d \in CommType, d.after = c.after, d.pipe = c.pipe,
         d.slot = c.slot, d.prompt = c.prompt, d.used = c.used,
         (d.turn = "idle") <=> (c.turn = "idle")
  PROVE  Counted(d, x, q, s, t)
<1>1. ASSUME NEW p \in Prompt PROVE Room(c, t, p) <= Room(d, t, p)
  <2>1. Room(c, t, p) = Room(d, t, p) /\ Room(c, t, p) \in Nat
    BY RoomIsNat DEF Counted, Room
  <2>2. QED BY <2>1
<1>2. /\ d.used <= PerTurnMax /\ {d.slot, d.prompt} \subseteq t \cup {None}
      /\ d.slot # None => d.slot # d.prompt
  BY DEF Counted
<1>3. QED BY <1>1, <1>2, RoomGrows

(* A message that is no prompt.                                            *)
LEMMA SignalCounts ==
  ASSUME NEW c, NEW x, NEW q, NEW s, NEW t, Counted(c, x, q, s, t),
         NEW m \in PipeMsg, m.type # "prompt", NEW n, NEW d \in {SendTo(c, n, m), SendLive(c, m)}
  PROVE  Counted(d, x, q, s, t)
<1>1. c \in CommType /\ None \notin Prompt
  BY PromptAssumption DEF Counted
<1>2. SameTurn(c, d) /\ Adds(c, d, None)
  BY <1>1, SendToAdds, SendAdds
<1>3. ASSUME NEW p \in Prompt PROVE Room(c, t, p) <= Room(d, t, p)
  <2>1. Room(c, t, p) = Room(d, t, p) /\ Room(c, t, p) \in Nat
    BY <1>1, <1>2, RoomIsNat DEF SameTurn, Room
  <2>2. QED BY <2>1
<1>4. /\ d \in CommType /\ d.used <= PerTurnMax /\ {d.slot, d.prompt} \subseteq t \cup {None}
      /\ d.slot # None => d.slot # d.prompt
  BY <1>2 DEF Counted, SameTurn
<1>5. QED BY <1>1, <1>2, <1>3, <1>4, AddsCounted

(* The end of a turn.                                                      *)
LEMMA EndTurnCounts ==
  ASSUME NEW c, NEW x, NEW q, NEW s, NEW t, Counted(c, x, q, s, t)
  PROVE  Counted(EndTurn(c), x, q, s, t)
<1> DEFINE d == EndTurn(c)
<1>1. c \in CommType /\ c.used \in Nat /\ PerTurnMax \in Nat
  BY BudgetAssumption DEF Counted, CommType
<1>2. /\ d \in CommType /\ d.after = c.after /\ d.pipe = c.pipe /\ d.used = c.used
      /\ d.slot = c.slot /\ d.prompt = None /\ d.turn = "idle"
  BY <1>1 DEF EndTurn, CommType
<1> HIDE DEF d
<1>3. \A p \in Prompt : Room(c, t, p) <= Room(d, t, p)
  BY <1>1, <1>2 DEF Room, Counted
<1>4. /\ d.used <= PerTurnMax /\ {d.slot, d.prompt} \subseteq t \cup {None}
      /\ d.slot # None => d.slot # d.prompt
  BY <1>2 DEF Counted
<1>5. QED BY <1>2, <1>3, <1>4, RoomGrows DEF d

(* A prompt that stands nowhere is submitted.                              *)
LEMMA SubmitCounts ==
  ASSUME NEW c, NEW x, NEW q, NEW s, NEW t, Counted(c, x, q, s, t),
         NEW p \in Prompt, Tokens(c, x, q, s, p) = {}, c.slot # p, c.turn = "idle"
  PROVE  Counted(SubmitPrompt(c, p), x, q, s, t \cup {p})
<1> DEFINE t2 == t \cup {p}
<1>1. /\ c \in CommType /\ c.used \in Nat /\ PerTurnMax \in Nat /\ None \notin Prompt
      /\ c.used <= PerTurnMax /\ {c.slot, c.prompt} \subseteq t \cup {None}
      /\ c.slot # None => c.slot # c.prompt
  BY BudgetAssumption, PromptAssumption DEF Counted, CommType
<1>2. CASE c.halted
  <2>1. SubmitPrompt(c, p) = c
    BY <1>2 DEF SubmitPrompt
  <2>2. \A r \in Prompt : Room(c, t, r) <= Room(c, t2, r)
    BY <1>1 DEF Room
  <2>3. QED BY <1>1, <2>1, <2>2, RoomGrows
<1>3. CASE ~c.halted
  <2> DEFINE d == StartTurn(c, p)
             w == SubmitPrompt(c, p)
  <2>1. /\ d \in CommType /\ d.after = c.after /\ d.pipe = c.pipe /\ d.used = 0
        /\ d.slot = c.slot /\ d.prompt = p /\ d.turn = "running"
    BY <1>1 DEF StartTurn, CommType
  <2> HIDE DEF d
  <2>2. PICK e \in CommType :
          /\ e.after = d.after /\ e.pipe = d.pipe /\ SameTurn(d, e)
          /\ SameTurn(e, w) /\ Adds(e, w, p)
    <3>1. CASE d.stopped \/ ~LiveReady(d)
      <4> DEFINE f == [d EXCEPT !.stopped = FALSE]
                 a == [prompt |-> p, note |-> FALSE]
      <4>1. /\ f \in CommType /\ f.after = d.after /\ f.pipe = d.pipe /\ SameTurn(d, f)
            /\ a \in After /\ a.prompt = p
        BY <2>1 DEF CommType, SameTurn, After
      <4>2. w = Respawn(f, a)
        BY <1>3, <3>1 DEF SubmitPrompt, d
      <4> HIDE DEF f, a, w
      <4>3. QED BY <4>1, <4>2, RespawnAdds
    <3>2. CASE ~(d.stopped \/ ~LiveReady(d))
      <4> DEFINE m == PromptMsg(p, FALSE)
      <4>1. m \in PipeMsg /\ m.prompt = p
        BY DEF PromptMsg, PipeMsg
      <4>2. w = SendLive(d, m)
        BY <1>3, <3>2 DEF SubmitPrompt, SendPrompt, d
      <4> HIDE DEF m, w
      <4>3. SameTurn(d, d)
        BY <2>1 DEF SameTurn
      <4>4. QED BY <2>1, <4>1, <4>2, <4>3, SendAdds
    <3>3. QED BY <3>1, <3>2
  <2> HIDE DEF w
  <2>3. Adds(c, w, p)
    BY <2>1, <2>2, AddsAfter
  <2>4. /\ w \in CommType /\ w.used = 0 /\ w.slot = c.slot /\ w.prompt = p /\ w.turn = "running"
    BY <2>1, <2>2 DEF SameTurn
  <2>5. \A r \in Prompt \ {p} : Room(c, t, r) <= Room(w, t2, r)
    BY <1>1, <2>4 DEF Room
  <2>6. Room(w, t2, p) # 0
    BY <1>1, <2>4 DEF Room
  <2>7. w.used <= PerTurnMax /\ {w.slot, w.prompt} \subseteq t2 \cup {None}
        /\ (w.slot # None => w.slot # w.prompt)
    BY <1>1, <2>4
  <2> HIDE DEF t2
  <2>8. t \subseteq t2
    BY DEF t2
  <2>9. QED BY <2>3, <2>4, <2>5, <2>6, <2>7, <2>8, AddsCounted DEF t2, w
<1>4. QED BY <1>2, <1>3

(* The queued line is one.                                                 *)
LEMMA TurnEndCounts ==
  ASSUME NEW c, NEW x, NEW q, NEW s, NEW t, Counted(c, x, q, s, t), c.turn = "idle"
  PROVE  Counted(OnTurnEnd(c), x, q, s, t)
<1> DEFINE d == [c EXCEPT !.slot = None]
<1>1. /\ c \in CommType /\ c.used \in Nat /\ PerTurnMax \in Nat /\ c.used <= PerTurnMax
      /\ {c.slot, c.prompt} \subseteq t \cup {None}
  BY BudgetAssumption DEF Counted, CommType
<1>2. /\ d \in CommType /\ d.after = c.after /\ d.pipe = c.pipe /\ d.used = c.used
      /\ d.slot = None /\ d.prompt = c.prompt /\ d.turn = "idle"
  BY <1>1 DEF CommType
<1> HIDE DEF d
<1>3. \A p \in Prompt : Room(c, t, p) <= Room(d, t, p)
  BY <1>1, <1>2, PromptAssumption DEF Room
<1>4. Counted(d, x, q, s, t)
  BY <1>1, <1>2, <1>3, RoomGrows
<1>5. CASE c.slot = None \/ c.shutting # "no"
  BY <1>4, <1>5 DEF OnTurnEnd, d
<1>6. CASE ~(c.slot = None \/ c.shutting # "no")
  <2> DEFINE p == c.slot
  <2>1. p \in Prompt /\ p \in t /\ d.slot # p
    BY <1>1, <1>2, <1>6, PromptAssumption DEF CommType
  <2>2. Tokens(c, x, q, s, p) = {}
    BY <2>1, NoRoomNoTokens DEF Room
  <2>3. Tokens(d, x, q, s, p) = {}
    BY <1>2, <2>2 DEF Tokens, Stands
  <2>4. OnTurnEnd(c) = SubmitPrompt(d, p) /\ t \cup {p} = t
    BY <1>6, <2>1 DEF OnTurnEnd, d
  <2> HIDE DEF p
  <2>5. Counted(SubmitPrompt(d, p), x, q, s, t \cup {p})
    BY <1>2, <1>4, <2>1, <2>3, SubmitCounts
  <2>6. QED BY <2>4, <2>5
<1>7. QED BY <1>5, <1>6

(* The restart policy: every replay uses up a restart.                     *)
LEMMA DecideCounts ==
  ASSUME NEW c, NEW x, NEW q, NEW s, NEW t, Counted(c, x, q, s, t)
  PROVE  Counted(DecideOnExit(c), x, q, s, t)
<1> DEFINE n == c.used + 1
           k == c.idleExits + 1
<1>1. /\ c \in CommType /\ n \in Nat /\ k \in Nat /\ c.used \in Nat /\ PerTurnMax \in Nat /\ c.used <= PerTurnMax
      /\ {c.slot, c.prompt} \subseteq t \cup {None} /\ None \notin Prompt
      /\ c.slot # None => c.slot # c.prompt
  BY BudgetAssumption, PromptAssumption DEF Counted, CommType
<1>0. n = c.used + 1 /\ k = c.idleExits + 1
  OBVIOUS
<1> HIDE DEF n, k
<1>2. CASE c.turn # "idle" /\ c.used < PerTurnMax
  <2> DEFINE d == [c EXCEPT !.used = n]
             a == [prompt |-> c.prompt, note |-> TRUE]
             w == Respawn(d, a)
  <2>1. /\ d \in CommType /\ d.after = c.after /\ d.pipe = c.pipe /\ d.used = n
        /\ d.slot = c.slot /\ d.prompt = c.prompt /\ d.turn = c.turn
        /\ a \in After /\ a.prompt = c.prompt
    BY <1>1 DEF CommType, After
  <2>2. DecideOnExit(c) = w
    BY <1>2 DEF DecideOnExit, n
  <2> HIDE DEF d, a
  <2>3. SameTurn(d, w) /\ Adds(d, w, c.prompt)
    BY <2>1, RespawnAdds
  <2> HIDE DEF w
  <2>4. Adds(c, w, c.prompt)
    BY <2>1, <2>3, AddsAfter
  <2>5. /\ w \in CommType /\ w.used = n /\ w.slot = c.slot /\ w.prompt = c.prompt
        /\ w.turn = c.turn
    BY <2>1, <2>3 DEF SameTurn
  <2>6. \A r \in Prompt \ {c.prompt} : Room(c, t, r) <= Room(w, t, r)
    BY <1>1, <2>5 DEF Room
  <2>7. c.prompt \in Prompt => Room(c, t, c.prompt) < Room(w, t, c.prompt)
    BY <1>0, <1>1, <1>2, <2>5 DEF Room
  <2>8. /\ w.used <= PerTurnMax /\ {w.slot, w.prompt} \subseteq t \cup {None}
        /\ w.slot # None => w.slot # w.prompt
    BY <1>0, <1>1, <1>2, <2>5
  <2> DEFINE p == c.prompt
  <2> HIDE DEF p
  <2>9. Counted(w, x, q, s, t)
    <3>1. Adds(c, w, p) /\ \A r \in Prompt \ {p} : Room(c, t, r) <= Room(w, t, r)
      BY <2>4, <2>6 DEF p
    <3>2. p \in Prompt => Room(c, t, p) < Room(w, t, p)
      BY <2>7 DEF p
    <3>3. QED BY <2>5, <2>8, <3>1, <3>2, AddsCounted
  <2>10. QED BY <2>2, <2>9
<1>3. CASE c.turn # "idle" /\ ~(c.used < PerTurnMax)
  <2> DEFINE f == EndTurn(c)
             d == [f EXCEPT !.stopped = TRUE]
  <2>1. Counted(f, x, q, s, t) /\ f.turn = "idle" /\ f \in CommType
    BY <1>1, EndTurnCounts DEF EndTurn, Counted, CommType
  <2> HIDE DEF f
  <2>2. /\ d \in CommType /\ d.after = f.after /\ d.pipe = f.pipe /\ d.used = f.used
        /\ d.slot = f.slot /\ d.prompt = f.prompt /\ d.turn = f.turn
    BY <2>1 DEF CommType
  <2> HIDE DEF d
  <2>3. Counted(d, x, q, s, t)
    BY <2>1, <2>2, OtherFields
  <2>4. DecideOnExit(c) = OnTurnEnd(d)
    BY <1>3 DEF DecideOnExit, d, f
  <2>5. QED BY <2>1, <2>2, <2>3, <2>4, TurnEndCounts
<1>4. CASE c.turn = "idle" /\ c.idleExits < IdleMax
  <2> DEFINE d == [c EXCEPT !.idleExits = k]
             w == Respawn(d, NoPrompt)
  <2>1. /\ d \in CommType /\ d.after = c.after /\ d.pipe = c.pipe /\ d.used = c.used
        /\ d.slot = c.slot /\ d.prompt = c.prompt /\ d.turn = c.turn
        /\ NoPrompt \in After /\ NoPrompt.prompt = None
    BY <1>1 DEF CommType, After, NoPrompt
  <2>2. DecideOnExit(c) = w
    BY <1>4 DEF DecideOnExit, k
  <2> HIDE DEF d
  <2>3. SameTurn(d, w) /\ Adds(d, w, None)
    BY <2>1, RespawnAdds
  <2> HIDE DEF w
  <2>4. Adds(c, w, None)
    BY <2>1, <2>3, AddsAfter
  <2>5. /\ w \in CommType /\ w.used = c.used /\ w.slot = c.slot /\ w.prompt = c.prompt
        /\ w.turn = c.turn
    BY <2>1, <2>3 DEF SameTurn
  <2>6. \A r \in Prompt : Room(c, t, r) <= Room(w, t, r)
    BY <1>1, <2>5 DEF Room
  <2>7. /\ w.used <= PerTurnMax /\ {w.slot, w.prompt} \subseteq t \cup {None}
        /\ w.slot # None => w.slot # w.prompt
    BY <1>1, <2>5
  <2>8. Counted(w, x, q, s, t)
    BY <1>1, <2>4, <2>5, <2>6, <2>7, AddsCounted
  <2>9. QED BY <2>2, <2>8
<1>5. CASE c.turn = "idle" /\ ~(c.idleExits < IdleMax)
  <2> DEFINE d == [c EXCEPT !.idleExits = k, !.stopped = TRUE]
  <2>1. /\ d \in CommType /\ d.after = c.after /\ d.pipe = c.pipe /\ d.used = c.used
        /\ d.slot = c.slot /\ d.prompt = c.prompt /\ d.turn = c.turn
    BY <1>1 DEF CommType
  <2>2. DecideOnExit(c) = d
    BY <1>5 DEF DecideOnExit, k
  <2> HIDE DEF d
  <2>3. Counted(d, x, q, s, t)
    BY <2>1, OtherFields
  <2>4. QED BY <2>2, <2>3
<1>6. QED BY <1>2, <1>3, <1>4, <1>5

(* A respawn that failed ends the turn.                                    *)
LEMMA FailedCounts ==
  ASSUME NEW c, NEW x, NEW q, NEW s, NEW t, Counted(c, x, q, s, t)
  PROVE  Counted(RespawnFailed(c), x, q, s, t)
<1> DEFINE d == [c EXCEPT !.stopped = TRUE]
<1>1. c \in CommType
  BY DEF Counted
<1>2. /\ d \in CommType /\ d.after = c.after /\ d.pipe = c.pipe /\ d.used = c.used
      /\ d.slot = c.slot /\ d.prompt = c.prompt /\ d.turn = c.turn
  BY <1>1 DEF CommType
<1>3. RespawnFailed(c) \in {c, d, OnTurnEnd(EndTurn(d))}
  BY DEF RespawnFailed
<1> HIDE DEF d
<1>4. Counted(d, x, q, s, t)
  BY <1>2, OtherFields
<1>5. Counted(EndTurn(d), x, q, s, t) /\ EndTurn(d).turn = "idle"
  BY <1>2, <1>4, EndTurnCounts DEF EndTurn, CommType
<1>6. Counted(OnTurnEnd(EndTurn(d)), x, q, s, t)
  BY <1>5, TurnEndCounts
<1>7. QED BY <1>3, <1>4, <1>6

-----------------------------------------------------------------------------
(* The ways a prompt moves on.                                             *)

(* Some places are no longer taken.                                        *)
LEMMA TokensVanish ==
  ASSUME NEW c, NEW x, NEW q, NEW s, NEW t, Counted(c, x, q, s, t),
         NEW d \in CommType, NEW y, NEW r, NEW u,
         d.slot = c.slot, d.prompt = c.prompt, d.used = c.used,
         (d.turn = "idle") <=> (c.turn = "idle"),
         \A p \in Prompt, z \in Place : Stands(d, y, r, u, z, p) => Stands(c, x, q, s, z, p)
  PROVE  Counted(d, y, r, u, t)
<1> DEFINE g == [z \in Place |-> z]
<1>1. g \in [Place -> Place]
  OBVIOUS
<1>2. \A p \in Prompt : \A z \in Tokens(d, y, r, u, p) : g[z] \in Tokens(c, x, q, s, p) /\ g[z] = z
  BY DEF Tokens
<1> HIDE DEF g
<1>3. QED BY <1>1, <1>2, TokensMove

(* One prompt goes from one place to another.                              *)
LEMMA OneMoves ==
  ASSUME NEW c, NEW x, NEW q, NEW s, NEW t, Counted(c, x, q, s, t),
         NEW d \in CommType, NEW y, NEW r, NEW u,
         d.slot = c.slot, d.prompt = c.prompt, d.used = c.used,
         (d.turn = "idle") <=> (c.turn = "idle"),
         NEW z0, NEW z1 \in Place,
         \A p \in Prompt, z \in Place : Stands(d, y, r, u, z, p) =>
           /\ z # z0 => Stands(c, x, q, s, z, p) /\ z # z1
           /\ z = z0 => Stands(c, x, q, s, z1, p)
  PROVE  Counted(d, y, r, u, t)
<1> DEFINE g == [z \in Place |-> IF z = z0 THEN z1 ELSE z]
<1>1. g \in [Place -> Place]
  OBVIOUS
<1>2. \A p \in Prompt : \A z \in Tokens(d, y, r, u, p) :
        g[z] \in Tokens(c, x, q, s, p) /\ (IF z = z0 THEN g[z] = z1 ELSE g[z] = z /\ z # z1)
  BY DEF Tokens
<1>3. \A p \in Prompt : \A z, w \in Tokens(d, y, r, u, p) : g[z] = g[w] => z = w
  BY <1>2
<1> HIDE DEF g
<1>4. QED BY <1>1, <1>2, <1>3, TokensMove

(* What a place is.                                                        *)
LEMMA Places ==
  /\ \A z \in Place : z = <<z[1], z[2], z[3]>> /\ z[2] \in Nat /\ z[3] \in Nat
                      /\ z[1] \in {"after", "pipe", "queued", "line", "store"}
  /\ \A a \in {"after", "pipe", "queued", "line", "store"}, n, k \in Nat : <<a, n, k>> \in Place
  /\ Epoch \subseteq Nat
BY BoundAssumption DEF Place, Epoch

(* The pipes after the Communicator read a message, and the store: it may  *)
(* have one more line.                                                     *)
Read(q, e) == [q EXCEPT ![e] = Tail(@)]
Stored(s, l, u) == u \in {s, Append(s, l)}

(* The Communicator reads a message, and a user_message line it reads may  *)
(* get into the store.                                                     *)
LEMMA ReadCounts ==
  ASSUME NEW c, NEW x, NEW q, NEW s, NEW t, Counted(c, x, q, s, t),
         NEW S, q \in [Epoch -> Seq(S)], NEW e \in Epoch, q[e] # <<>>,
         NEW L, s \in Seq(L), NEW l \in L, NEW u, Stored(s, l, u),
         l.kind = "user_message" => Head(q[e]).type = "event" /\ Head(q[e]).line = l,
         NEW r, r = Read(q, e)
  PROVE  Counted(c, x, r, u, t)
<1> DEFINE n == Len(s) + 1
           g == [z \in Place |-> IF z[1] = "line" /\ z[2] = e THEN <<"line", e, z[3] + 1>>
                                 ELSE IF z = <<"store", 0, n>> THEN <<"line", e, 1>> ELSE z]
<1>1. /\ Len(q[e]) \in Nat /\ Len(Tail(q[e])) \in Nat /\ Len(q[e]) = Len(Tail(q[e])) + 1
      /\ \A i \in 1 .. Len(Tail(q[e])) : Tail(q[e])[i] = q[e][i + 1]
      /\ Head(q[e]) = q[e][1]
  OBVIOUS
<1>2. /\ r[e] = Tail(q[e]) /\ \A f \in Epoch : f # e => r[f] = q[f]
  BY DEF Read
<1>3. /\ Len(s) \in Nat /\ Len(u) \in {Len(s), n}
      /\ \A i \in 1 .. Len(s) : u[i] = s[i]
      /\ Len(u) = n => u[n] = l
  <2> HIDE DEF g
  <2>1. CASE u = s
    BY <2>1
  <2>2. CASE u = Append(s, l)
    BY <2>2, AppendFacts, AppendProperties
  <2>3. QED BY <2>1, <2>2 DEF Stored
<1>4. e \in Nat /\ n \in Nat /\ \A k \in Nat : k + 1 \in Nat
  BY <1>3, Places
<1>5. g \in [Place -> Place]
  BY <1>4, Places
<1> HIDE DEF n
<1>6. ASSUME NEW p \in Prompt, NEW z \in Place, Stands(c, x, r, u, z, p)
      PROVE  /\ Stands(c, x, q, s, g[z], p)
             /\ z[1] = "line" /\ z[2] = e => z[3] >= 1
  <2>1. CASE z[1] = "line" /\ z[2] = e
    <3>1. /\ z[3] \in 1 .. Len(r[e]) /\ r[e][z[3]].type = "event"
          /\ r[e][z[3]].line.kind = "user_message" /\ r[e][z[3]].line.prompt = p
      BY <1>6, <2>1 DEF Stands
    <3>2. g[z] = <<"line", e, z[3] + 1>> /\ z[3] + 1 \in 1 .. Len(q[e])
          /\ r[e][z[3]] = q[e][z[3] + 1] /\ z[3] >= 1
      BY <1>1, <1>2, <2>1, <3>1
    <3> HIDE DEF g
    <3>3. QED BY <3>1, <3>2 DEF Stands
  <2>2. CASE z = <<"store", 0, n>>
    <3>1. u[n].kind = "user_message" /\ u[n].prompt = p /\ n \in 1 .. Len(u)
      BY <1>6, <2>2 DEF Stands
    <3>2. u[n] = l /\ n = Len(s) + 1
      BY <1>3, <3>1 DEF n
    <3>3. g[z] = <<"line", e, 1>> /\ 1 \in 1 .. Len(q[e]) /\ q[e][1].type = "event" /\ q[e][1].line = l
      BY <1>1, <2>2, <3>1, <3>2
    <3> HIDE DEF g
    <3>4. Stands(c, x, q, s, <<"line", e, 1>>, p)
      BY <3>1, <3>2, <3>3 DEF Stands
    <3>5. z[1] # "line"
      BY <2>2
    <3>6. QED BY <3>3, <3>4, <3>5
  <2>3. CASE ~(z[1] = "line" /\ z[2] = e) /\ z # <<"store", 0, n>>
    <3>1. g[z] = z
      BY <2>3
    <3> HIDE DEF g
    <3>2. CASE z[1] = "store"
      <4>1. z[2] = 0 /\ z[3] \in 1 .. Len(u) /\ u[z[3]].kind = "user_message" /\ u[z[3]].prompt = p
        BY <1>6, <3>2 DEF Stands
      <4>2. z[3] # n
        BY <2>3, <3>2, <4>1, Places
      <4>3. z[3] \in 1 .. Len(s) /\ u[z[3]] = s[z[3]]
        BY <1>3, <4>1, <4>2 DEF n
      <4>4. QED BY <3>1, <3>2, <4>1, <4>3 DEF Stands
    <3>3. CASE z[1] = "line"
      BY <1>2, <1>6, <2>3, <3>1, <3>3 DEF Stands
    <3>4. CASE z[1] \notin {"store", "line"}
      BY <1>6, <2>3, <3>1, <3>4 DEF Stands
    <3>5. QED BY <2>3, <3>2, <3>3, <3>4
  <2>4. QED BY <2>1, <2>2, <2>3
<1>7. ASSUME NEW p \in Prompt, NEW z \in Place, NEW w \in Place, g[z] = g[w],
             Stands(c, x, r, u, z, p), Stands(c, x, r, u, w, p)
      PROVE  z = w
  <2>1. \A v \in {z, w} : v = <<v[1], v[2], v[3]>> /\ v[3] \in Nat
                          /\ (v[1] = "line" /\ v[2] = e => v[3] >= 1)
    BY <1>6, <1>7, Places
  <2>2. \A v \in {z, w} :
          IF v[1] = "line" /\ v[2] = e THEN g[v] = <<"line", e, v[3] + 1>>
          ELSE IF v = <<"store", 0, n>> THEN g[v] = <<"line", e, 1>> ELSE g[v] = v
    OBVIOUS
  <2> HIDE DEF g
  <2>3. g[z] = g[w]
    BY <1>7
  <2>4. QED BY <2>1, <2>2, <2>3
<1> HIDE DEF g
<1>8. c \in CommType
  BY DEF Counted
<1>9. /\ \A p \in Prompt : \A z \in Tokens(c, x, r, u, p) : g[z] \in Tokens(c, x, q, s, p)
      /\ \A p \in Prompt : \A z, w \in Tokens(c, x, r, u, p) : g[z] = g[w] => z = w
  BY <1>5, <1>6, <1>7 DEF Tokens
<1>10. QED BY <1>5, <1>8, <1>9, TokensMove

(* The pipe to an Executor after its message i was taken.                  *)
Cut(c, e, i) == [c EXCEPT !.pipe[e] = SubSeq(@, 1, i - 1) \o SubSeq(@, i + 1, Len(@))]

(* An Executor takes a message; a prompt it takes may go to one place.     *)
LEMMA TakeCounts ==
  ASSUME NEW c, NEW x, NEW q, NEW s, NEW t, Counted(c, x, q, s, t),
         NEW e \in Epoch, NEW i \in DOMAIN c.pipe[e], NEW m, c.pipe[e][i] = m,
         NEW d, d = Cut(c, e, i),
         NEW y, NEW r, NEW z0, z0[1] # "pipe",
         \A p \in Prompt, z \in Place : z[1] # "pipe" /\ Stands(d, y, r, s, z, p) =>
           /\ z # z0 => Stands(c, x, q, s, z, p)
           /\ z = z0 => m.type = "prompt" /\ m.prompt = p
  PROVE  d \in CommType /\ Counted(d, y, r, s, t)
<1> DEFINE h == c.pipe[e]
           k == d.pipe[e]
           g == [z \in Place |-> IF z[1] = "pipe" /\ z[2] = e /\ z[3] >= i
                                   THEN <<"pipe", e, z[3] + 1>>
                                 ELSE IF z = z0 THEN <<"pipe", e, i>> ELSE z]
<1>1. c \in CommType
  BY DEF Counted
<1>2. h \in Seq(PipeMsg) /\ Len(h) \in Nat /\ i \in 1 .. Len(h)
  BY <1>1 DEF CommType
<1>3. k = SubSeq(h, 1, i - 1) \o SubSeq(h, i + 1, Len(h))
  BY <1>1 DEF CommType, Cut
<1> HIDE DEF h, k
<1>4. /\ k \in Seq(PipeMsg) /\ Len(k) = Len(h) - 1
      /\ \A j \in 1 .. Len(h) - 1 : k[j] = IF j < i THEN h[j] ELSE h[j + 1]
  BY <1>2, <1>3, CutAt
<1>5. /\ d \in CommType /\ d.slot = c.slot /\ d.prompt = c.prompt /\ d.used = c.used
      /\ d.turn = c.turn
      /\ \A f \in Epoch : f # e => d.pipe[f] = c.pipe[f]
  BY <1>1, <1>3, <1>4 DEF CommType, Cut, h
<1>6. e \in Nat /\ i \in Nat /\ \A j \in Nat : j + 1 \in Nat
  BY <1>2, Places
<1>7. g \in [Place -> Place]
  BY <1>6, Places
<1>8. ASSUME NEW p \in Prompt, NEW z \in Place, Stands(d, y, r, s, z, p)
      PROVE  Stands(c, x, q, s, g[z], p)
  <2>1. CASE z[1] = "pipe" /\ z[2] = e /\ z[3] >= i
    <3>1. z[3] \in 1 .. Len(k) /\ k[z[3]].type = "prompt" /\ k[z[3]].prompt = p
      BY <1>8, <2>1 DEF Stands, k
    <3>2. g[z] = <<"pipe", e, z[3] + 1>> /\ z[3] + 1 \in 1 .. Len(h) /\ k[z[3]] = h[z[3] + 1]
      BY <1>2, <1>4, <2>1, <3>1
    <3> HIDE DEF g
    <3>3. QED BY <3>1, <3>2 DEF Stands, h
  <2>2. CASE z[1] = "pipe" /\ z[2] = e /\ ~(z[3] >= i)
    <3>1. z[3] \in 1 .. Len(k) /\ k[z[3]].type = "prompt" /\ k[z[3]].prompt = p
      BY <1>8, <2>2 DEF Stands, k
    <3>2. g[z] = z /\ z[3] \in 1 .. Len(h) /\ k[z[3]] = h[z[3]]
      BY <1>2, <1>4, <2>2, <3>1
    <3> HIDE DEF g
    <3>3. QED BY <2>2, <3>1, <3>2 DEF Stands, h
  <2>3. CASE z[1] = "pipe" /\ z[2] # e
    <3>1. g[z] = z
      BY <2>3
    <3> HIDE DEF g
    <3>2. QED BY <1>5, <1>8, <2>3, <3>1 DEF Stands
  <2>4. CASE z[1] # "pipe" /\ z # z0
    <3>1. g[z] = z
      BY <2>4
    <3> HIDE DEF g
    <3>2. QED BY <1>8, <2>4, <3>1
  <2>5. CASE z[1] # "pipe" /\ z = z0
    <3>1. g[z] = <<"pipe", e, i>> /\ m.type = "prompt" /\ m.prompt = p
      BY <1>8, <2>5
    <3>2. h[i] = m
      BY DEF h
    <3> HIDE DEF g
    <3>3. QED BY <1>2, <3>1, <3>2 DEF Stands, h
  <2>6. QED BY <2>1, <2>2, <2>3, <2>4, <2>5
<1>9. ASSUME NEW z \in Place, NEW w \in Place, g[z] = g[w]
      PROVE  z = w
  <2>1. \A v \in {z, w} : v = <<v[1], v[2], v[3]>> /\ v[3] \in Nat
    BY Places
  <2>2. \A v \in {z, w} :
          IF v[1] = "pipe" /\ v[2] = e /\ v[3] >= i THEN g[v] = <<"pipe", e, v[3] + 1>>
          ELSE IF v = z0 THEN g[v] = <<"pipe", e, i>> /\ v[1] # "pipe" ELSE g[v] = v
    OBVIOUS
  <2> HIDE DEF g
  <2>3. g[z] = g[w]
    BY <1>9
  <2>4. QED BY <1>6, <2>1, <2>2, <2>3
<1> HIDE DEF g
<1>10. /\ \A p \in Prompt : \A z \in Tokens(d, y, r, s, p) : g[z] \in Tokens(c, x, q, s, p)
       /\ \A p \in Prompt : \A z, w \in Tokens(d, y, r, s, p) : g[z] = g[w] => z = w
  BY <1>7, <1>8, <1>9 DEF Tokens
<1>11. QED BY <1>5, <1>7, <1>10, TokensMove

-----------------------------------------------------------------------------
(* Every step keeps to the budget.                                         *)

(* The steps of the user.                                                  *)
LEMMA UserCounts ==
  ASSUME TypeOK, ReplayInv, User \/ IdleWindowPasses
  PROVE  ReplayInv'
<1> DEFINE K(c, t) == Counted(c, exec, toComm, store, t)
<1>0. /\ comm \in CommType /\ env.typed \subseteq Prompt /\ K(comm, env.typed)
      /\ comm.used \in Nat /\ PerTurnMax \in Nat /\ comm.used <= PerTurnMax
      /\ {comm.slot, comm.prompt} \subseteq env.typed \cup {None} /\ None \notin Prompt
  BY BudgetAssumption, PromptAssumption DEF ReplayInv, Counted, TypeOK, EnvType, CommType
<1>1. ASSUME K(comm', env.typed), env'.typed = env.typed, UNCHANGED <<exec, toComm, store>>
      PROVE  ReplayInv'
  BY <1>1 DEF ReplayInv
<1>2. \A t \in {"cancel", "halt", "shutdown"} : Signal(t) \in PipeMsg /\ Signal(t).type # "prompt"
  BY DEF Signal, PipeMsg
<1>3. ASSUME NEW p \in Prompt, TypePrompt(p) PROVE ReplayInv'
  <2> DEFINE t2 == env.typed \cup {p}
  <2>1. p \notin env.typed /\ env'.typed = t2 /\ UNCHANGED <<exec, toComm, store>>
    BY <1>3 DEF TypePrompt, TypeOK, EnvType
  <2>2. CASE comm.turn # "idle"
    <3> DEFINE d == [comm EXCEPT !.slot = p]
    <3>1. comm' = d
      BY <1>3, <2>2 DEF TypePrompt
    <3>2. /\ d \in CommType /\ d.after = comm.after /\ d.pipe = comm.pipe /\ d.used = comm.used
          /\ d.slot = p /\ d.prompt = comm.prompt /\ d.turn = comm.turn
      BY <1>0 DEF CommType
    <3> HIDE DEF d
    <3>3. \A r \in Prompt : Room(comm, env.typed, r) <= Room(d, t2, r)
      BY <1>0, <2>1, <3>2 DEF Room
    <3>4. K(d, t2)
      BY <1>0, <2>1, <3>2, <3>3, RoomGrows
    <3>5. QED BY <2>1, <3>1, <3>4 DEF ReplayInv
  <2>3. CASE comm.turn = "idle"
    <3>1. comm' = SubmitPrompt(comm, p)
      BY <1>3, <2>3 DEF TypePrompt
    <3>2. Tokens(comm, exec, toComm, store, p) = {}
      BY <1>0, <2>1, NoRoomNoTokens DEF Room
    <3>3. K(SubmitPrompt(comm, p), t2)
      BY <1>0, <2>1, <2>3, <3>2, SubmitCounts
    <3>4. QED BY <2>1, <3>1, <3>3 DEF ReplayInv
  <2>4. QED BY <2>2, <2>3
<1>4. CASE TypeAnswer
  <2> DEFINE m == AnswerMsg(comm.ask)
             c == SendLive(comm, m)
             d == [Answered(c) EXCEPT !.ask = None]
  <2>1. m \in PipeMsg /\ m.type # "prompt"
    BY <1>0 DEF AnswerMsg, PipeMsg, CommType
  <2> HIDE DEF m
  <2>2. K(c, env.typed)
    BY <1>0, <2>1, SignalCounts
  <2>3. c \in CommType
    BY <2>2 DEF Counted
  <2>4. comm' = d /\ env'.typed = env.typed /\ UNCHANGED <<exec, toComm, store>>
    BY <1>4 DEF TypeAnswer, m
  <2> HIDE DEF c
  <2>5. /\ d \in CommType /\ d.after = c.after /\ d.pipe = c.pipe /\ d.used = c.used
        /\ d.slot = c.slot /\ d.prompt = c.prompt /\ ((d.turn = "idle") <=> (c.turn = "idle"))
    BY <2>3 DEF CommType, Answered
  <2> HIDE DEF d
  <2>6. K(d, env.typed)
    BY <2>2, <2>5, OtherFields
  <2>7. QED BY <1>1, <2>4, <2>6
<1>5. CASE Cancel
  <2>1. comm' = SendLive(comm, Signal("cancel")) /\ env'.typed = env.typed
        /\ UNCHANGED <<exec, toComm, store>>
    BY <1>5 DEF Cancel, TypeOK, EnvType
  <2>2. QED BY <1>0, <1>1, <1>2, <2>1, SignalCounts
<1>6. CASE Halt
  <2>1. comm' = SendLive(comm, Signal("halt")) /\ env'.typed = env.typed
        /\ UNCHANGED <<exec, toComm, store>>
    BY <1>6 DEF Halt, TypeOK, EnvType
  <2>2. QED BY <1>0, <1>1, <1>2, <2>1, SignalCounts
<1>7. CASE Shutdown
  <2> DEFINE c == SendLive(comm, Signal("shutdown"))
             d == [c EXCEPT !.shutting = "stopping"]
  <2>1. comm' = d /\ env'.typed = env.typed /\ UNCHANGED <<exec, toComm, store>>
    BY <1>7 DEF Shutdown
  <2>2. K(c, env.typed)
    BY <1>0, <1>2, SignalCounts
  <2>3. c \in CommType
    BY <2>2 DEF Counted
  <2> HIDE DEF c
  <2>4. /\ d \in CommType /\ d.after = c.after /\ d.pipe = c.pipe /\ d.used = c.used
        /\ d.slot = c.slot /\ d.prompt = c.prompt /\ d.turn = c.turn
    BY <2>3 DEF CommType
  <2> HIDE DEF d
  <2>5. K(d, env.typed)
    BY <2>2, <2>4, OtherFields
  <2>6. QED BY <1>1, <2>1, <2>5
<1>8. CASE IdleWindowPasses
  <2> DEFINE n == comm.idleExits - 1
             d == [comm EXCEPT !.idleExits = n]
  <2>1. comm' = d /\ env'.typed = env.typed /\ UNCHANGED <<exec, toComm, store>>
        /\ n \in Nat
    BY <1>0, <1>8 DEF IdleWindowPasses, CommType
  <2> HIDE DEF n
  <2>2. /\ d \in CommType /\ d.after = comm.after /\ d.pipe = comm.pipe /\ d.used = comm.used
        /\ d.slot = comm.slot /\ d.prompt = comm.prompt /\ d.turn = comm.turn
    BY <1>0, <2>1 DEF CommType
  <2> HIDE DEF d
  <2>3. K(d, env.typed)
    BY <1>0, <2>2, OtherFields
  <2>4. QED BY <1>1, <2>1, <2>3
<1>9. QED BY <1>3, <1>4, <1>5, <1>6, <1>7, <1>8 DEF User

(* What the Communicator reads about the start of an Executor.             *)
LEMMA StartCounts ==
  ASSUME TypeOK, ReplayInv, NEW e \in Epoch, RecvHello(e) \/ RecvOpenAck(e)
  PROVE  ReplayInv'
<1> DEFINE K(c) == Counted(c, exec, toComm, store, env.typed)
<1>0. /\ comm \in CommType /\ K(comm) /\ None \notin Prompt
  BY PromptAssumption DEF ReplayInv, Counted
<1>1. ASSUME K(comm') PROVE ReplayInv'
  <2>1. /\ toComm[e] # <<>> /\ toComm' = [toComm EXCEPT ![e] = Tail(@)]
        /\ UNCHANGED <<exec, store, env>>
    BY DEF RecvHello, RecvOpenAck, CommReceives
  <2> DEFINE L == LineType \cup {Line("halted", None, None)}
             l == Line("halted", None, None)
  <2>2. store \in Seq(L) /\ l \in L /\ l.kind # "user_message" /\ Stored(store, l, store)
    BY SeqMonotonic DEF TypeOK, Line, Stored
  <2> HIDE DEF L, l
  <2>3. Counted(comm', exec, toComm', store, env.typed)
    BY <1>1, <2>1, <2>2, ReadCounts DEF TypeOK, Read
  <2>4. QED BY <2>1, <2>3 DEF ReplayInv
<1>2. CASE RecvHello(e)
  <2>1. CASE comm.child[e] # "hello"
    BY <1>0, <1>1, <1>2, <2>1 DEF RecvHello
  <2>2. CASE comm.child[e] = "hello"
    <3> DEFINE d == [comm EXCEPT !.child[e] = "open"]
               m == Signal("session_open")
    <3>1. comm' = SendTo(d, e, m)
      BY <1>2, <2>2 DEF RecvHello
    <3>2. /\ d \in CommType /\ d.after = comm.after /\ d.pipe = comm.pipe /\ d.used = comm.used
          /\ d.slot = comm.slot /\ d.prompt = comm.prompt /\ d.turn = comm.turn
      BY <1>0 DEF CommType
    <3>3. m \in PipeMsg /\ m.type # "prompt"
      BY DEF Signal, PipeMsg
    <3> HIDE DEF d, m
    <3>4. K(d)
      BY <1>0, <3>2, OtherFields
    <3>5. K(SendTo(d, e, m))
      BY <3>3, <3>4, SignalCounts
    <3>6. QED BY <1>1, <3>1, <3>5
  <2>3. QED BY <2>1, <2>2
<1>3. CASE RecvOpenAck(e)
  <2>1. CASE comm.child[e] # "open"
    BY <1>0, <1>1, <1>3, <2>1 DEF RecvOpenAck
  <2>2. CASE comm.child[e] = "open"
    <3> DEFINE a == comm.after[e]
               d == [comm EXCEPT !.child[e] = "up", !.after[e] = NoPrompt]
    <3>1. comm' = AfterOpen(d, a)
      BY <1>3, <2>2 DEF RecvOpenAck
    <3>2. /\ d \in CommType /\ d.pipe = comm.pipe /\ d.used = comm.used
          /\ d.slot = comm.slot /\ d.prompt = comm.prompt /\ d.turn = comm.turn
          /\ \A f \in Epoch : d.after[f] = IF f = e THEN NoPrompt ELSE comm.after[f]
          /\ a \in After /\ NoPrompt.prompt = None
      BY <1>0 DEF CommType, After, NoPrompt
    <3> HIDE DEF d
    <3>3. ASSUME NEW p \in Prompt, NEW z \in Place, Stands(d, exec, toComm, store, z, p)
          PROVE  Stands(comm, exec, toComm, store, z, p) /\ z # <<"after", e, 0>>
      <4>1. CASE z[1] = "after"
        BY <1>0, <3>2, <3>3, <4>1 DEF Stands
      <4>2. CASE z[1] # "after"
        BY <3>2, <3>3, <4>2 DEF Stands
      <4>3. QED BY <4>1, <4>2
    <3>4. CASE a.prompt = None
      <4>1. comm' = d
        BY <3>1, <3>4 DEF AfterOpen
      <4>2. K(d)
        BY <1>0, <3>2, <3>3, TokensVanish
      <4>3. QED BY <1>1, <4>1, <4>2
    <3>5. CASE a.prompt # None
      <4> DEFINE f == IF a.note /\ d.turn # "idle" THEN [d EXCEPT !.turn = "running"] ELSE d
                 m == PromptMsg(a.prompt, a.note)
                 w == SendLive(f, m)
      <4>1. comm' = w
        BY <3>1, <3>5 DEF AfterOpen, SendPrompt
      <4>2. /\ f \in CommType /\ f.pipe = d.pipe /\ f.used = d.used /\ f.slot = d.slot
            /\ f.prompt = d.prompt /\ ((f.turn = "idle") <=> (d.turn = "idle"))
            /\ f.after = d.after
        BY <3>2 DEF CommType
      <4>3. m \in PipeMsg /\ m.prompt = a.prompt
        BY <3>2 DEF PromptMsg, PipeMsg, After
      <4> HIDE DEF f, m
      <4>4. SameTurn(f, w) /\ Adds(f, w, a.prompt)
        BY <4>2, <4>3, SendAdds
      <4> HIDE DEF w
      <4>5. PICK z0 : \A r \in Prompt, z \in Place :
              Stands(w, exec, toComm, store, z, r)
                => IF z = z0 THEN r = a.prompt ELSE Stands(f, exec, toComm, store, z, r)
        BY <4>4 DEF Adds
      <4> DEFINE z1 == <<"after", e, 0>>
      <4>6. \A r \in Prompt, z \in Place :
              Stands(f, exec, toComm, store, z, r) => Stands(d, exec, toComm, store, z, r)
        BY <4>2 DEF Stands
      <4>7. z1 \in Place /\ Stands(comm, exec, toComm, store, z1, a.prompt)
        BY Places DEF Stands
      <4>8. \A r \in Prompt, z \in Place : Stands(w, exec, toComm, store, z, r) =>
              /\ z # z0 => Stands(comm, exec, toComm, store, z, r) /\ z # z1
              /\ z = z0 => Stands(comm, exec, toComm, store, z1, r)
        BY <3>3, <4>5, <4>6, <4>7
      <4>9. /\ w \in CommType /\ w.slot = comm.slot /\ w.prompt = comm.prompt
            /\ w.used = comm.used /\ ((w.turn = "idle") <=> (comm.turn = "idle"))
        BY <3>2, <4>2, <4>4 DEF SameTurn
      <4> HIDE DEF z1
      <4>10. K(w)
        BY <1>0, <4>7, <4>8, <4>9, OneMoves
      <4>11. QED BY <1>1, <4>1, <4>10
    <3>6. QED BY <3>4, <3>5
  <2>3. QED BY <2>1, <2>2
<1>4. QED BY <1>2, <1>3

(* The lines and the other messages it reads.                              *)
LEMMA EventCounts ==
  ASSUME TypeOK, ReplayInv, NEW e \in Epoch,
         RecvEvent(e) \/ AppendFails(e) \/ RecvAsk(e) \/ RecvHalted(e)
  PROVE  ReplayInv'
<1> DEFINE K(c) == Counted(c, exec', toComm', store', env'.typed)
           h == Head(toComm[e])
           halt == Line("halted", None, None)
<1>0. /\ comm \in CommType /\ store \in Seq(LineType) /\ toComm \in [Epoch -> Seq(ToCommMsg)]
      /\ toComm[e] # <<>> /\ toComm' = [toComm EXCEPT ![e] = Tail(@)]
      /\ UNCHANGED exec /\ env'.typed = env.typed /\ h \in ToCommMsg
  <2>1. /\ toComm[e] # <<>> /\ toComm' = [toComm EXCEPT ![e] = Tail(@)]
        /\ UNCHANGED exec /\ env'.typed = env.typed
    BY DEF RecvEvent, AppendFails, RecvAsk, RecvHalted, CommReceives, TypeOK, EnvType
  <2>2. toComm \in [Epoch -> Seq(ToCommMsg)]
    BY DEF TypeOK
  <2>3. QED BY <2>1, <2>2 DEF ReplayInv, Counted, TypeOK
<1>1. halt \in LineType /\ halt.kind # "user_message"
  BY DEF Line, LineType, LineKind
<1>2. ASSUME NEW l \in LineType, store' \in {store, Append(store, l)},
             l.kind = "user_message" => h.type = "event" /\ h.line = l
      PROVE  K(comm)
  <2>1. Counted(comm, exec, toComm', store', env.typed)
    <3>1. /\ Counted(comm, exec, toComm, store, env.typed) /\ toComm' = Read(toComm, e)
          /\ l.kind = "user_message" => Head(toComm[e]).type = "event" /\ Head(toComm[e]).line = l
      BY <1>0, <1>2 DEF ReplayInv, Read
    <3>2. /\ toComm \in [Epoch -> Seq(ToCommMsg)] /\ toComm[e] # <<>> /\ store \in Seq(LineType)
          /\ Stored(store, l, store') /\ l \in LineType
      BY <1>0, <1>2 DEF Stored
    <3> HIDE DEF h
    <3>3. QED BY <3>1, <3>2, ReadCounts
  <2>2. QED BY <1>0, <2>1
<1> HIDE DEF halt
<1>3. CASE RecvEvent(e)
  <2>1. h.type = "event" /\ store' = Append(store, h.line)
        /\ comm' = (IF h.line.kind = "turn_finished" THEN OnTurnEnd(EndTurn(comm)) ELSE comm)
    BY <1>3 DEF RecvEvent, CommReceives
  <2>2. h.line \in LineType
    BY <1>0, <2>1 DEF ToCommMsg
  <2>3. K(comm)
    BY <1>2, <2>1, <2>2
  <2>4. K(EndTurn(comm)) /\ EndTurn(comm).turn = "idle"
    BY <1>0, <2>3, EndTurnCounts DEF EndTurn, CommType
  <2>5. K(OnTurnEnd(EndTurn(comm)))
    BY <2>4, TurnEndCounts
  <2>6. QED BY <2>1, <2>3, <2>5 DEF ReplayInv
<1>4. CASE AppendFails(e)
  <2>1. UNCHANGED <<comm, store>>
    BY <1>4 DEF AppendFails
  <2>2. K(comm)
    BY <1>1, <1>2, <2>1
  <2>3. QED BY <2>1, <2>2 DEF ReplayInv
<1>5. CASE RecvAsk(e)
  <2> DEFINE d == [WaitForAnswer(comm) EXCEPT !.ask = h.call]
  <2>1. comm' = d /\ UNCHANGED store /\ h.type = "ask_user"
    BY <1>5 DEF RecvAsk, CommReceives
  <2>2. h.call \in Call \cup {None}
    BY <1>0, <2>1 DEF ToCommMsg
  <2>3. K(comm)
    BY <1>1, <1>2, <2>1
  <2>4. /\ d \in CommType /\ d.after = comm.after /\ d.pipe = comm.pipe /\ d.used = comm.used
        /\ d.slot = comm.slot /\ d.prompt = comm.prompt
        /\ ((d.turn = "idle") <=> (comm.turn = "idle"))
    BY <1>0, <2>2 DEF CommType, WaitForAnswer
  <2> HIDE DEF d
  <2>5. K(d)
    BY <2>3, <2>4, OtherFields
  <2>6. QED BY <2>1, <2>5 DEF ReplayInv
<1>6. CASE RecvHalted(e)
  <2> DEFINE d == [comm EXCEPT !.halted = TRUE]
  <2>1. store' = Append(store, halt)
        /\ comm' = (IF comm.live = e THEN OnTurnEnd(EndTurn(d)) ELSE comm)
    BY <1>6 DEF RecvHalted, halt
  <2>2. K(comm)
    BY <1>1, <1>2, <2>1
  <2>3. /\ d \in CommType /\ d.after = comm.after /\ d.pipe = comm.pipe /\ d.used = comm.used
        /\ d.slot = comm.slot /\ d.prompt = comm.prompt /\ d.turn = comm.turn
    BY <1>0 DEF CommType
  <2> HIDE DEF d
  <2>4. K(d)
    BY <2>2, <2>3, OtherFields
  <2>5. K(EndTurn(d)) /\ EndTurn(d).turn = "idle"
    BY <2>3, <2>4, EndTurnCounts DEF EndTurn, CommType
  <2>6. K(OnTurnEnd(EndTurn(d)))
    BY <2>5, TurnEndCounts
  <2>7. QED BY <2>1, <2>2, <2>6 DEF ReplayInv
<1>7. QED BY <1>3, <1>4, <1>5, <1>6

(* The exits and the timeouts it notices.                                  *)
LEMMA ExitCounts ==
  ASSUME TypeOK, ReplayInv, NEW e \in Epoch,
         OnChildExit(e) \/ HelloTimeout(e) \/ OpenTimeout(e)
  PROVE  ReplayInv'
<1> DEFINE K(c) == Counted(c, exec', toComm', store', env'.typed)
<1>0. /\ comm \in CommType /\ Counted(comm, exec, toComm, store, env.typed)
      /\ NoPrompt \in After /\ NoPrompt.prompt = None /\ None \notin Prompt
      /\ exec \in [Epoch -> ExecType] /\ env.typed \subseteq Prompt
      /\ DeadExec.queued = None
  BY PromptAssumption DEF ReplayInv, Counted, NoPrompt, After, TypeOK, EnvType, DeadExec, NewExec
<1>1. ASSUME NEW d \in CommType,
             d.slot = comm.slot, d.prompt = comm.prompt, d.used = comm.used, d.turn = comm.turn,
             \A f \in Epoch : /\ d.after[f] \in {comm.after[f], NoPrompt}
                              /\ d.pipe[f] \in {comm.pipe[f], <<>>}
                              /\ exec'[f] \in {exec[f], DeadExec}
                              /\ toComm'[f] \in {toComm[f], <<>>},
             UNCHANGED store, env'.typed = env.typed
      PROVE  K(d)
  <2>1. Len(<<>>) = 0
    OBVIOUS
  <2>2. ASSUME NEW p \in Prompt, NEW z \in Place, Stands(d, exec', toComm', store', z, p)
        PROVE  Stands(comm, exec, toComm, store, z, p)
    <3>1. CASE z[1] = "after"
      BY <1>0, <1>1, <2>2, <3>1 DEF Stands
    <3>2. CASE z[1] = "pipe"
      BY <1>1, <2>1, <2>2, <3>2 DEF Stands
    <3>3. CASE z[1] = "queued"
      BY <1>0, <1>1, <2>2, <3>3 DEF Stands
    <3>4. CASE z[1] = "line"
      BY <1>1, <2>1, <2>2, <3>4 DEF Stands
    <3>5. CASE z[1] = "store"
      BY <1>1, <2>2, <3>5 DEF Stands
    <3>6. QED BY <3>1, <3>2, <3>3, <3>4, <3>5, Places
  <2>3. QED BY <1>0, <1>1, <2>2, TokensVanish
<1>2. CASE OnChildExit(e)
  <2> DEFINE d == [comm EXCEPT !.child[e] = "gone", !.pipe[e] = <<>>,
                               !.after[e] = NoPrompt,
                               !.live = IF @ = e THEN 0 ELSE @]
             w == IF d.shutting # "no" THEN d ELSE DecideOnExit(d)
  <2>1. /\ comm' = (IF comm.child[e] \in {"hello", "open"} THEN RespawnFailed(w) ELSE w)
        /\ toComm' = [toComm EXCEPT ![e] = <<>>] /\ UNCHANGED <<exec, store, env>>
    BY <1>2 DEF OnChildExit
  <2>2. /\ d \in CommType /\ d.slot = comm.slot /\ d.prompt = comm.prompt
        /\ d.used = comm.used /\ d.turn = comm.turn
    BY <1>0, EmptySeq DEF CommType
  <2>3. \A f \in Epoch : /\ d.after[f] \in {comm.after[f], NoPrompt}
                         /\ d.pipe[f] \in {comm.pipe[f], <<>>}
    BY <1>0 DEF CommType
  <2>4. \A f \in Epoch : toComm'[f] \in {toComm[f], <<>>}
    BY <2>1 DEF TypeOK
  <2> HIDE DEF d
  <2>5. K(d)
    BY <1>1, <2>1, <2>2, <2>3, <2>4
  <2>6. K(w)
    BY <2>5, DecideCounts
  <2>7. K(RespawnFailed(w))
    BY <2>6, FailedCounts
  <2>8. QED BY <2>1, <2>6, <2>7 DEF ReplayInv
<1>3. ASSUME NEW st \in {"late", "up"},
             comm' = RespawnFailed([comm EXCEPT !.child[e] = st, !.after[e] = NoPrompt]),
             exec' \in {exec, [exec EXCEPT ![e] = DeadExec]}, UNCHANGED <<toComm, store>>,
             env'.typed = env.typed
      PROVE  ReplayInv'
  <2> DEFINE d == [comm EXCEPT !.child[e] = st, !.after[e] = NoPrompt]
  <2>1. /\ d \in CommType /\ d.slot = comm.slot /\ d.prompt = comm.prompt
        /\ d.used = comm.used /\ d.turn = comm.turn
    BY <1>0 DEF CommType
  <2>2. \A f \in Epoch : /\ d.after[f] \in {comm.after[f], NoPrompt}
                         /\ d.pipe[f] = comm.pipe[f]
                         /\ exec'[f] \in {exec[f], DeadExec}
    BY <1>0, <1>3 DEF CommType
  <2> HIDE DEF d
  <2>3. K(d)
    BY <1>1, <1>3, <2>1, <2>2
  <2>4. K(RespawnFailed(d))
    BY <2>3, FailedCounts
  <2>5. QED BY <1>3, <2>4 DEF ReplayInv, d
<1>4. CASE HelloTimeout(e)
  BY <1>3, <1>4 DEF HelloTimeout, TypeOK, EnvType
<1>5. CASE OpenTimeout(e)
  BY <1>3, <1>5 DEF OpenTimeout, TypeOK, EnvType
<1>6. QED BY <1>2, <1>4, <1>5

(* Steps of an Executor that put a prompt nowhere: it may take a message,  *)
(* forget the queued prompt and write other lines.                         *)
UserLine(m) == m.type = "event" /\ m.line.kind = "user_message"
NoNewPrompt(q, old) ==
  \A i \in 1 .. Len(q) : UserLine(q[i]) => i \in 1 .. Len(old) /\ q[i] = old[i]
PutsNoPrompt ==
  /\ \A f \in Epoch : /\ exec'[f].queued \in {exec[f].queued, None}
                      /\ NoNewPrompt(toComm'[f], toComm[f])
  /\ UNCHANGED store /\ env'.typed = env.typed

(* Such a step keeps to the budget.                                        *)
LEMMA QuietCounts ==
  ASSUME TypeOK, ReplayInv, NEW e \in Epoch, PutsNoPrompt, UNCHANGED comm \/ \E m : Take(e, m)
  PROVE  ReplayInv'
<1>0. Counted(comm, exec, toComm, store, env.typed) /\ comm \in CommType
  BY DEF ReplayInv, Counted
<1>1. ASSUME NEW c, NEW d, NEW p \in Prompt, NEW z \in Place, z[1] # "pipe",
             d.after = c.after, Stands(d, exec', toComm', store, z, p)
      PROVE  Stands(c, exec, toComm, store, z, p)
  BY <1>1, PromptAssumption DEF PutsNoPrompt, NoNewPrompt, UserLine, Stands
<1>2. CASE UNCHANGED comm
  <2>1. ASSUME NEW p \in Prompt, NEW z \in Place, Stands(comm, exec', toComm', store, z, p)
        PROVE  Stands(comm, exec, toComm, store, z, p)
    <3>1. CASE z[1] = "pipe"
      BY <2>1, <3>1 DEF Stands
    <3>2. QED BY <1>1, <2>1, <3>1
  <2>2. Counted(comm, exec', toComm', store, env.typed)
    BY <1>0, <2>1, TokensVanish
  <2>3. QED BY <1>2, <2>2 DEF ReplayInv, PutsNoPrompt
<1>3. ASSUME NEW m, Take(e, m) PROVE ReplayInv'
  <2>1. PICK i \in DOMAIN comm.pipe[e] :
          /\ comm.pipe[e][i] = m
          /\ comm' = Cut(comm, e, i)
    BY <1>3 DEF Take, Cut
  <2>2. comm'.after = comm.after
    BY <1>0, <2>1 DEF CommType, Cut
  <2> DEFINE z0 == <<"nowhere", 0, 0>>
  <2>3. z0 \notin Place /\ z0[1] # "pipe"
    BY DEF Place
  <2> HIDE DEF z0
  <2>4. \A p \in Prompt, z \in Place : z[1] # "pipe" /\ Stands(comm', exec', toComm', store, z, p) =>
          /\ z # z0 => Stands(comm, exec, toComm, store, z, p)
          /\ z = z0 => m.type = "prompt" /\ m.prompt = p
    BY <1>1, <2>2, <2>3
  <2>5. Counted(comm', exec', toComm', store, env.typed)
    BY <1>0, <2>1, <2>3, <2>4, TakeCounts
  <2>6. QED BY <2>5 DEF ReplayInv, PutsNoPrompt
<1>4. QED BY <1>2, <1>3

(* A message that is no user_message line.                                 *)
LEMMA SaysNoPrompt ==
  ASSUME TypeOK, NEW e \in Epoch, NEW m, ~UserLine(m),
         Say(e, m) \/ UNCHANGED toComm
  PROVE  \A f \in Epoch : NoNewPrompt(toComm'[f], toComm[f])
<1> DEFINE S == ToCommMsg \cup {m}
<1>1. toComm \in [Epoch -> Seq(ToCommMsg)] /\ m \in S
  BY DEF TypeOK
<1>2. toComm[e] \in Seq(S)
  BY <1>1, SeqMonotonic
<1> HIDE DEF S
<1>3. CASE UNCHANGED toComm
  BY <1>3 DEF NoNewPrompt
<1>4. CASE Say(e, m)
  <2> DEFINE q == toComm[e]
             r == Append(q, m)
  <2>1. /\ Len(q) \in Nat /\ Len(r) = Len(q) + 1 /\ r[Len(q) + 1] = m
        /\ \A i \in 1 .. Len(q) : r[i] = q[i]
    BY <1>1, <1>2, AppendFacts, AppendProperties
  <2>2. \A f \in Epoch : toComm'[f] = IF f = e THEN r ELSE toComm[f]
    BY <1>1, <1>4 DEF Say
  <2> HIDE DEF r
  <2>3. NoNewPrompt(r, q)
    BY <2>1 DEF NoNewPrompt
  <2>4. \A f \in Epoch : NoNewPrompt(toComm[f], toComm[f])
    BY DEF NoNewPrompt
  <2>5. QED BY <2>2, <2>3, <2>4
<1>5. QED BY <1>3, <1>4

(* The lines of a step that is not the beginning of a turn.                *)
LEMMA OtherLines ==
  /\ \A t \in {"hello", "open_ack", "halted"} : ~UserLine(Signal(t))
  /\ \A c : ~UserLine(AskMsg(c))
  /\ \A k, p, c, w : k # "user_message" => ~UserLine(EventMsg(Line(k, p, c), w))
BY DEF UserLine, Signal, AskMsg, EventMsg, Line

(* The session opens.                                                      *)
LEMMA OpenedCounts ==
  ASSUME TypeOK, ReplayInv, NEW e \in Epoch, SessionOpened(e)
  PROVE  ReplayInv'
<1> DEFINE M == {EventMsg(Line("tool_call_finished", None, c), FALSE) : c \in OpenCalls(store)}
                  \cup {Signal("open_ack")}
<1>1. PICK order \in [1 .. Cardinality(OpenCalls(store)) -> OpenCalls(store)] :
        toComm' = [toComm EXCEPT ![e] = @
          \o [i \in DOMAIN order |-> EventMsg(Line("tool_call_finished", None, order[i]), FALSE)]
          \o <<Signal("open_ack")>>]
  BY DEF SessionOpened
<1> DEFINE f == [i \in DOMAIN order |-> EventMsg(Line("tool_call_finished", None, order[i]), FALSE)]
           a == <<Signal("open_ack")>>
           q == (toComm[e] \o f) \o a
<1>2. f \in Seq(M) /\ a \in Seq(M)
  <2>1. Cardinality(OpenCalls(store)) \in Nat
    BY OpenCallsAreFinite, FS_CardinalityType
  <2>2. f \in [1 .. Cardinality(OpenCalls(store)) -> M]
    OBVIOUS
  <2>3. a \in Seq(M)
    OBVIOUS
  <2> HIDE DEF f, M, a
  <2>4. QED BY <2>1, <2>2, <2>3, FunctionIsSeq
<1>3. \A m \in M : ~UserLine(m)
  BY OtherLines
<1>4. toComm' = [toComm EXCEPT ![e] = q] /\ toComm \in [Epoch -> Seq(ToCommMsg)]
  BY <1>1 DEF TypeOK
<1> HIDE DEF f, a, M
<1>5. ASSUME NEW S, NEW h \in Seq(S), NEW g \in Seq(M)
      PROVE  h \o g \in Seq(S \cup M) /\ NoNewPrompt(h \o g, h)
  <2>1. h \in Seq(S \cup M) /\ g \in Seq(S \cup M)
    BY SeqMonotonic
  <2>2. /\ h \o g \in Seq(S \cup M) /\ Len(h \o g) = Len(h) + Len(g)
        /\ Len(h) \in Nat /\ Len(g) \in Nat
        /\ \A i \in 1 .. Len(h) + Len(g) :
             (h \o g)[i] = IF i <= Len(h) THEN h[i] ELSE g[i - Len(h)]
    BY <2>1, ConcatProperties, LenProperties
  <2>3. \A i \in 1 .. Len(g) : ~UserLine(g[i])
    BY <1>3, ElementOfSeq
  <2>4. \A i \in 1 .. Len(h) + Len(g) : i <= Len(h) \/ i - Len(h) \in 1 .. Len(g)
    BY <2>2
  <2>5. QED BY <2>2, <2>3, <2>4 DEF NoNewPrompt
<1>6. NoNewPrompt(q, toComm[e])
  <2>1. toComm[e] \o f \in Seq(ToCommMsg \cup M) /\ NoNewPrompt(toComm[e] \o f, toComm[e])
    BY <1>2, <1>4, <1>5
  <2>2. NoNewPrompt(q, toComm[e] \o f)
    BY <1>2, <1>5, <2>1
  <2>3. QED BY <2>1, <2>2 DEF NoNewPrompt
<1> HIDE DEF q
<1>7. \A g \in Epoch : /\ NoNewPrompt(toComm'[g], toComm[g])
                       /\ exec'[g].queued = exec[g].queued
  <2>1. \A g \in Epoch : NoNewPrompt(toComm[g], toComm[g])
    BY DEF NoNewPrompt
  <2>2. \A g \in Epoch : NoNewPrompt(toComm'[g], toComm[g])
    BY <1>4, <1>6, <2>1
  <2>3. exec' = [exec EXCEPT ![e].pc = "idle"] /\ exec \in [Epoch -> ExecType]
    BY DEF SessionOpened, TypeOK
  <2>4. \A g \in Epoch : exec'[g].queued = exec[g].queued
    BY <2>3 DEF ExecType
  <2>5. QED BY <2>2, <2>4
<1>8. PutsNoPrompt /\ UNCHANGED comm
  BY <1>7 DEF PutsNoPrompt, SessionOpened
<1>9. QED BY <1>8, QuietCounts

(* A turn begins: the prompt goes into its line.                           *)
LEMMA BeginCounts ==
  ASSUME TypeOK, NEW e \in Epoch, NEW p \in Prompt, NEW x \in ExecType, BeginTurn(e, p, x)
  PROVE  LET z0 == <<"line", e, Len(toComm[e]) + 1>>
         IN  /\ \A f \in Epoch : f # e => exec'[f] = exec[f] /\ toComm'[f] = toComm[f]
             /\ exec'[e].queued = None
             /\ \A d, r, z : z \in Place /\ r \in Prompt /\ z[1] # "pipe"
                               /\ Stands(d, exec', toComm', store, z, r) =>
                  /\ z # z0 => Stands(d, exec, toComm, store, z, r) /\ z # <<"queued", e, 0>>
                  /\ z = z0 => r = p
<1> DEFINE z0 == <<"line", e, Len(toComm[e]) + 1>>
           m == EventMsg(Line("user_message", p, None), TRUE)
           q == toComm[e]
<1>1. /\ exec \in [Epoch -> ExecType] /\ toComm \in [Epoch -> Seq(ToCommMsg)]
      /\ m \in ToCommMsg /\ m.line.prompt = p /\ q \in Seq(ToCommMsg)
  BY MessageTypes DEF TypeOK, EventMsg, Line
<1>2. /\ \A f \in Epoch : exec'[f] = IF f = e
                                       THEN [x EXCEPT !.pc = "user", !.prompt = p,
                                                      !.queued = None, !.abort = FALSE]
                                       ELSE exec[f]
      /\ \A f \in Epoch : toComm'[f] = IF f = e THEN Append(q, m) ELSE toComm[f]
  BY <1>1 DEF BeginTurn, Say
<1>3. exec'[e].queued = None
  BY <1>2 DEF ExecType
<1>4. /\ Len(q) \in Nat /\ Len(Append(q, m)) = Len(q) + 1 /\ Append(q, m)[Len(q) + 1] = m
      /\ \A i \in 1 .. Len(q) : Append(q, m)[i] = q[i]
  <2> HIDE DEF m, q
  <2>1. QED BY <1>1, AppendFacts, AppendProperties
<1> HIDE DEF m, q
<1>5. ASSUME NEW d, NEW r \in Prompt, NEW z \in Place, z[1] # "pipe",
             Stands(d, exec', toComm', store, z, r)
      PROVE  /\ z # z0 => Stands(d, exec, toComm, store, z, r) /\ z # <<"queued", e, 0>>
             /\ z = z0 => r = p
  <2>1. CASE z[1] \in {"after", "store"}
    BY <1>5, <2>1 DEF Stands
  <2>2. CASE z[1] = "queued"
    <3>1. z[2] \in Epoch /\ z[3] = 0 /\ exec'[z[2]].queued = r /\ r # None
      BY <1>5, <2>2, PromptAssumption DEF Stands
    <3>2. z[2] # e
      BY <1>3, <3>1
    <3>3. QED BY <1>2, <2>2, <3>1, <3>2 DEF Stands
  <2>3. CASE z[1] = "line"
    <3>1. /\ z[2] \in Epoch /\ z[3] \in 1 .. Len(toComm'[z[2]])
          /\ toComm'[z[2]][z[3]].type = "event"
          /\ toComm'[z[2]][z[3]].line.kind = "user_message"
          /\ toComm'[z[2]][z[3]].line.prompt = r
      BY <1>5, <2>3 DEF Stands
    <3>2. CASE z[2] # e
      BY <1>2, <2>3, <3>1, <3>2 DEF Stands
    <3>3. CASE z[2] = e /\ z[3] = Len(q) + 1
      <4>1. toComm'[e][z[3]] = m
        BY <1>2, <1>4, <3>3
      <4>2. z = z0
        BY <2>3, <3>3, Places DEF q
      <4>3. QED BY <1>1, <3>1, <3>3, <4>1, <4>2
    <3>4. CASE z[2] = e /\ z[3] # Len(q) + 1
      <4>0. toComm'[e] = Append(q, m) /\ z[3] \in 1 .. Len(toComm'[e])
        BY <1>2, <3>1, <3>4
      <4>1. z[3] \in 1 .. Len(q) /\ toComm'[e][z[3]] = q[z[3]]
        BY <1>4, <3>4, <4>0
      <4>2. z # z0
        BY <3>4 DEF q
      <4>3. QED BY <2>3, <3>1, <3>4, <4>1, <4>2 DEF Stands, q
    <3>5. QED BY <3>2, <3>3, <3>4
  <2>4. QED BY <1>5, <2>1, <2>2, <2>3, Places
<1>6. QED BY <1>2, <1>3, <1>5

(* An Executor that ends, or several.                                      *)
LEMMA EndCounts ==
  ASSUME TypeOK, \A f \in Epoch : exec'[f] \in {exec[f], DeadExec},
         UNCHANGED <<toComm, store>>, env'.typed = env.typed
  PROVE  PutsNoPrompt
BY DEF PutsNoPrompt, NoNewPrompt, DeadExec, NewExec

(* The messages an Executor takes.                                         *)
LEMMA ReceivingCounts ==
  ASSUME TypeOK, ReplayInv, NEW e \in Epoch,
         \/ RecvSessionOpen(e) \/ RecvPrompt(e) \/ RecvCancel(e)
         \/ RecvHalt(e) \/ RecvShutdown(e) \/ RecvAnswer(e)
  PROVE  ReplayInv'
<1>0. /\ exec[e] \in ExecType /\ exec \in [Epoch -> ExecType] /\ toComm \in [Epoch -> Seq(ToCommMsg)]
      /\ env \in EnvType
  BY DEF TypeOK
<1>1. ASSUME NEW m, Take(e, m), UNCHANGED store, env'.typed = env.typed,
             \A f \in Epoch : exec'[f].queued \in {exec[f].queued, None},
             NEW w, ~UserLine(w), Say(e, w) \/ UNCHANGED toComm
      PROVE  ReplayInv'
  <2>1. PutsNoPrompt
    BY <1>1, SaysNoPrompt DEF PutsNoPrompt
  <2>2. QED BY <1>1, <2>1, QuietCounts
<1>2. CASE RecvSessionOpen(e)
  <2>1. /\ Take(e, Signal("session_open")) /\ UNCHANGED <<toComm, store, env>>
        /\ \A f \in Epoch : exec'[f].queued \in {exec[f].queued, None}
    BY <1>0, <1>2 DEF RecvSessionOpen, TakeSignal, ExecType
  <2>2. QED BY <1>1, <2>1, OtherLines
<1>3. CASE RecvPrompt(e)
  <2>1. PICK p \in Prompt, note \in BOOLEAN :
          /\ Take(e, PromptMsg(p, note)) /\ UNCHANGED store
          /\ \/ BeginTurn(e, p, exec[e]) /\ UNCHANGED env
             \/ exec[e].queued = None /\ exec' = [exec EXCEPT ![e].queued = p] /\ UNCHANGED <<toComm, env>>
             \/ Lose(p) /\ UNCHANGED <<exec, toComm>>
    BY <1>3 DEF RecvPrompt
  <2> DEFINE m == PromptMsg(p, note)
  <2>2. m.type = "prompt" /\ m.prompt = p /\ Take(e, m)
    BY <2>1 DEF PromptMsg
  <2>3. Counted(comm, exec, toComm, store, env.typed) /\ comm \in CommType
    BY DEF ReplayInv, Counted
  <2>4. PICK i \in DOMAIN comm.pipe[e] :
          /\ comm.pipe[e][i] = m
          /\ comm' = Cut(comm, e, i)
    BY <2>2 DEF Take, Cut
  <2> HIDE DEF m
  <2>5. comm'.after = comm.after
    BY <2>3, <2>4 DEF CommType, Cut
  <2>6. \A y, r, z, u : z[1] # "pipe" /\ Stands(comm', y, r, store, z, u)
                          => Stands(comm, y, r, store, z, u)
    BY <2>5 DEF Stands
  <2>7. ASSUME NEW z0, z0[1] # "pipe", env'.typed = env.typed,
               \A r \in Prompt, z \in Place :
                 z[1] # "pipe" /\ Stands(comm', exec', toComm', store, z, r) =>
                   /\ z # z0 => Stands(comm, exec, toComm, store, z, r)
                   /\ z = z0 => m.type = "prompt" /\ m.prompt = r
        PROVE  ReplayInv'
    <3>1. Counted(comm', exec', toComm', store, env.typed)
      BY <2>3, <2>4, <2>7, TakeCounts
    <3>2. QED BY <2>1, <2>7, <3>1 DEF ReplayInv
  <2>8. CASE BeginTurn(e, p, exec[e]) /\ UNCHANGED env
    <3> DEFINE z0 == <<"line", e, Len(toComm[e]) + 1>>
    <3>1. \A d, r, z : z \in Place /\ r \in Prompt /\ z[1] # "pipe"
                         /\ Stands(d, exec', toComm', store, z, r) =>
            /\ z # z0 => Stands(d, exec, toComm, store, z, r)
            /\ z = z0 => r = p
      BY <1>0, <2>8, BeginCounts
    <3>2. z0[1] # "pipe"
      OBVIOUS
    <3> HIDE DEF z0
    <3>3. QED BY <2>2, <2>6, <2>7, <2>8, <3>1, <3>2
  <2>9. CASE exec' = [exec EXCEPT ![e].queued = p] /\ UNCHANGED <<toComm, env>>
    <3> DEFINE z0 == <<"queued", e, 0>>
    <3>1. ASSUME NEW z \in Place, NEW r \in Prompt, z[1] # "pipe",
                 Stands(comm', exec', toComm', store, z, r)
          PROVE  /\ z # z0 => Stands(comm, exec, toComm, store, z, r)
                 /\ z = z0 => r = p
      <4>1. Stands(comm, exec', toComm', store, z, r)
        BY <2>6, <3>1
      <4>2. /\ \A f \in Epoch : f # e => exec'[f] = exec[f]
            /\ exec'[e].queued = p
        BY <1>0, <2>9 DEF ExecType
      <4>3. CASE z[1] = "queued"
        <5>1. z[2] \in Epoch /\ z[3] = 0 /\ exec'[z[2]].queued = r
          BY <4>1, <4>3 DEF Stands
        <5>2. z = z0 <=> z[2] = e
          BY <4>3, <5>1, Places
        <5>3. QED BY <4>2, <4>3, <5>1, <5>2 DEF Stands
      <4>4. CASE z[1] # "queued"
        <5>1. z # z0
          BY <4>4
        <5>2. QED BY <2>9, <4>1, <4>4, <5>1 DEF Stands
      <4>5. QED BY <4>3, <4>4
    <3>2. z0[1] # "pipe"
      OBVIOUS
    <3> HIDE DEF z0
    <3>3. \A r \in Prompt, z \in Place :
            z[1] # "pipe" /\ Stands(comm', exec', toComm', store, z, r) =>
              /\ z # z0 => Stands(comm, exec, toComm, store, z, r)
              /\ z = z0 => m.type = "prompt" /\ m.prompt = r
      BY <2>2, <3>1
    <3>4. QED BY <2>7, <2>9, <3>2, <3>3
  <2>10. CASE Lose(p) /\ UNCHANGED <<exec, toComm>>
    <3>1. env'.typed = env.typed
      BY <1>0, <2>10 DEF Lose, EnvType
    <3>2. QED BY <1>1, <2>1, <2>2, <2>10, <3>1, OtherLines
  <2>11. QED BY <2>1, <2>8, <2>9, <2>10
<1>4. CASE RecvCancel(e)
  <2>1. /\ Take(e, Signal("cancel")) /\ UNCHANGED <<toComm, store, env>>
        /\ \A f \in Epoch : exec'[f].queued \in {exec[f].queued, None}
    BY <1>0, <1>4 DEF RecvCancel, TakeSignal, ExecType, Aborted
  <2>2. QED BY <1>1, <2>1, OtherLines
<1>5. CASE RecvHalt(e)
  <2>1. /\ Take(e, Signal("halt")) /\ UNCHANGED <<store, env>>
        /\ Say(e, Signal("halted")) \/ UNCHANGED toComm
        /\ exec' \in {exec, [exec EXCEPT ![e] = [Aborted(@) EXCEPT !.halted = TRUE]]}
    BY <1>5 DEF RecvHalt, TakeSignal
  <2>2. \A f \in Epoch : exec'[f].queued \in {exec[f].queued, None}
    BY <1>0, <2>1 DEF ExecType, Aborted
  <2>3. QED BY <1>1, <2>1, <2>2, OtherLines
<1>6. CASE RecvShutdown(e)
  <2>1. /\ Take(e, Signal("shutdown")) /\ UNCHANGED <<toComm, store, env>>
        /\ \A f \in Epoch : exec'[f].queued \in {exec[f].queued, None}
    BY <1>0, <1>6 DEF RecvShutdown, TakeSignal, DeadExec, NewExec
  <2>2. QED BY <1>1, <2>1, OtherLines
<1>7. CASE RecvAnswer(e)
  <2> DEFINE x == [exec[e] EXCEPT !.pc = "model", !.call = None]
  <2>1. PICK c \in Call :
          /\ Take(e, AnswerMsg(c)) /\ UNCHANGED <<store, env>>
          /\ Say(e, EventMsg(Line("tool_call_finished", None, c), FALSE)) \/ UNCHANGED toComm
          /\ exec' \in {exec, [exec EXCEPT ![e] = x]}
    BY <1>0, <1>7 DEF RecvAnswer
  <2>2. x.queued = exec[e].queued
    BY <1>0 DEF ExecType
  <2> HIDE DEF x
  <2>3. \A f \in Epoch : exec'[f].queued \in {exec[f].queued, None}
    BY <1>0, <2>1, <2>2
  <2>4. QED BY <1>1, <2>1, <2>3, OtherLines
<1>8. QED BY <1>2, <1>3, <1>4, <1>5, <1>6, <1>7

(* What an Executor does by itself.                                        *)
LEMMA ActingCounts ==
  ASSUME TypeOK, ReplayInv, NEW e \in Epoch,
         \/ Hello(e) \/ UserAcked(e) \/ ModelTool(e) \/ GateRefuses(e) \/ Dispatch(e)
         \/ ToolDone(e) \/ Finish(e) \/ ProviderError(e) \/ FinishAcked(e)
         \/ AckTimeout(e) \/ Disconnect(e) \/ Exit(e)
  PROVE  ReplayInv'
<1>0. /\ exec[e] \in ExecType /\ exec \in [Epoch -> ExecType] /\ toComm \in [Epoch -> Seq(ToCommMsg)]
      /\ env \in EnvType
  BY DEF TypeOK
<1>1. ASSUME UNCHANGED <<comm, store>>, env'.typed = env.typed,
             \A f \in Epoch : exec'[f].queued \in {exec[f].queued, None},
             NEW w, ~UserLine(w), Say(e, w) \/ UNCHANGED toComm
      PROVE  ReplayInv'
  <2>1. PutsNoPrompt
    BY <1>1, SaysNoPrompt DEF PutsNoPrompt
  <2>2. QED BY <1>1, <2>1, QuietCounts
<1>2. CASE Hello(e)
  <2>1. /\ UNCHANGED <<comm, store, env>> /\ Say(e, Signal("hello"))
        /\ \A f \in Epoch : exec'[f].queued \in {exec[f].queued, None}
    BY <1>0, <1>2 DEF Hello, ExecType
  <2>2. QED BY <1>1, <2>1, OtherLines
<1>3. CASE UserAcked(e)
  <2>1. /\ UNCHANGED <<comm, store, env, toComm>>
        /\ \A f \in Epoch : exec'[f].queued \in {exec[f].queued, None}
    BY <1>0, <1>3 DEF UserAcked, ExecType
  <2>2. QED BY <1>1, <2>1, OtherLines
<1>4. CASE ModelTool(e)
  <2>1. /\ UNCHANGED <<comm, store>> /\ env'.typed = env.typed
        /\ Say(e, EventMsg(Line("tool_call_requested", None, env.calls + 1), TRUE))
        /\ \A f \in Epoch : exec'[f].queued \in {exec[f].queued, None}
    BY <1>0, <1>4 DEF ModelTool, ExecType, EnvType
  <2>2. QED BY <1>1, <2>1, OtherLines
<1>5. CASE GateRefuses(e) \/ ToolDone(e)
  <2> DEFINE x == [exec[e] EXCEPT !.pc = "model", !.call = None]
  <2>1. /\ UNCHANGED <<comm, store, env>>
        /\ Say(e, EventMsg(Line("tool_call_finished", None, exec[e].call), FALSE))
        /\ exec' = [exec EXCEPT ![e] = x]
    BY <1>0, <1>5 DEF GateRefuses, ToolDone
  <2>2. x.queued = exec[e].queued
    BY <1>0 DEF ExecType
  <2> HIDE DEF x
  <2>3. \A f \in Epoch : exec'[f].queued \in {exec[f].queued, None}
    BY <1>0, <2>1, <2>2
  <2>4. QED BY <1>1, <2>1, <2>3, OtherLines
<1>6. CASE Dispatch(e)
  <2>1. /\ UNCHANGED <<comm, store>> /\ env'.typed = env.typed
        /\ Say(e, AskMsg(exec[e].call)) \/ UNCHANGED toComm
        /\ exec' = [exec EXCEPT ![e].pc = "tool"] \/ exec' = [exec EXCEPT ![e].pc = "ask"]
    BY <1>0, <1>6 DEF Dispatch, EnvType
  <2>2. \A f \in Epoch : exec'[f].queued \in {exec[f].queued, None}
    <3>1. CASE exec' = [exec EXCEPT ![e].pc = "tool"]
      BY <1>0, <3>1 DEF ExecType
    <3>2. CASE exec' = [exec EXCEPT ![e].pc = "ask"]
      BY <1>0, <3>2 DEF ExecType
    <3>3. QED BY <2>1, <3>1, <3>2
  <2>3. QED BY <1>1, <2>1, <2>2, OtherLines
<1>7. CASE Finish(e)
  <2>1. /\ UNCHANGED <<comm, store, env>>
        /\ Say(e, EventMsg(Line("turn_finished", exec[e].prompt, None), TRUE))
        /\ \A f \in Epoch : exec'[f].queued \in {exec[f].queued, None}
    BY <1>0, <1>7 DEF Finish, ExecType
  <2>2. QED BY <1>1, <2>1, OtherLines
<1>8. CASE ProviderError(e)
  <2>1. /\ UNCHANGED <<comm, store, env>>
        /\ Say(e, EventMsg(Line("provider_error", exec[e].prompt, None), FALSE))
        /\ \A f \in Epoch : exec'[f].queued \in {exec[f].queued, None}
    BY <1>0, <1>8 DEF ProviderError, ExecType
  <2>2. QED BY <1>1, <2>1, OtherLines
<1>9. CASE FinishAcked(e)
  <2> DEFINE x == [exec[e] EXCEPT !.pc = "idle", !.prompt = None, !.abort = FALSE]
             p == x.queued
  <2>1. /\ UNCHANGED <<comm, store, env>>
        /\ IF p # None THEN BeginTurn(e, p, x)
                       ELSE exec' = [exec EXCEPT ![e] = x] /\ UNCHANGED toComm
    BY <1>9 DEF FinishAcked
  <2>2. x \in ExecType /\ p = exec[e].queued /\ p \in Prompt \cup {None}
    BY <1>0 DEF ExecType, PC, HasAgent
  <2> HIDE DEF x, p
  <2>3. CASE p = None
    <3>1. \A f \in Epoch : exec'[f].queued \in {exec[f].queued, None}
      BY <1>0, <2>1, <2>2, <2>3 DEF p
    <3>2. UNCHANGED toComm
      BY <2>1, <2>3
    <3>3. QED BY <1>1, <2>1, <3>1, <3>2, OtherLines
  <2>4. CASE p # None
    <3> DEFINE z0 == <<"line", e, Len(toComm[e]) + 1>>
               z1 == <<"queued", e, 0>>
    <3>1. p \in Prompt /\ BeginTurn(e, p, x)
      BY <2>1, <2>2, <2>4
    <3>2. \A d, r, z : z \in Place /\ r \in Prompt /\ z[1] # "pipe"
                         /\ Stands(d, exec', toComm', store, z, r) =>
            /\ z # z0 => Stands(d, exec, toComm, store, z, r) /\ z # z1
            /\ z = z0 => r = p
      BY <2>2, <3>1, BeginCounts
    <3>3. z1 \in Place /\ Stands(comm, exec, toComm, store, z1, p)
      BY <2>2, Places DEF Stands
    <3>4. ASSUME NEW r \in Prompt, NEW z \in Place, Stands(comm, exec', toComm', store, z, r)
          PROVE  /\ z # z0 => Stands(comm, exec, toComm, store, z, r) /\ z # z1
                 /\ z = z0 => Stands(comm, exec, toComm, store, z1, r)
      <4>1. CASE z[1] = "pipe"
        <5>1. z # z0 /\ z # z1
          BY <4>1
        <5>2. QED BY <3>4, <4>1, <5>1 DEF Stands
      <4>2. CASE z[1] # "pipe"
        BY <3>2, <3>3, <3>4, <4>2
      <4>3. QED BY <4>1, <4>2
    <3>5. Counted(comm, exec, toComm, store, env.typed) /\ comm \in CommType
      BY DEF ReplayInv, Counted
    <3> HIDE DEF z0, z1
    <3>6. Counted(comm, exec', toComm', store, env.typed)
      BY <3>3, <3>4, <3>5, OneMoves
    <3>7. QED BY <2>1, <3>6 DEF ReplayInv
  <2>5. QED BY <2>3, <2>4
<1>10. CASE AckTimeout(e) \/ Disconnect(e) \/ Exit(e)
  <2>1. UNCHANGED <<comm, store, toComm>> /\ env'.typed = env.typed
        /\ \A f \in Epoch : exec'[f] \in {exec[f], DeadExec}
    BY <1>0, <1>10 DEF AckTimeout, Disconnect, Exit, EnvType
  <2>2. PutsNoPrompt
    BY <2>1, EndCounts
  <2>3. QED BY <2>1, <2>2, QuietCounts
<1>11. QED BY <1>2, <1>3, <1>4, <1>5, <1>6, <1>7, <1>8, <1>9, <1>10

(* The end of the shutdown.                                                *)
LEMMA ShutdownCounts ==
  ASSUME TypeOK, ReplayInv, ShutdownDone
  PROVE  ReplayInv'
<1> DEFINE d == [comm EXCEPT !.shutting = "done"]
<1>1. /\ comm' = d /\ UNCHANGED <<toComm, store>> /\ env'.typed = env.typed
      /\ \A f \in Epoch : exec'[f] \in {exec[f], DeadExec}
  BY DEF ShutdownDone
<1>2. PutsNoPrompt
  BY <1>1, EndCounts
<1>3. Counted(comm, exec, toComm, store, env.typed) /\ comm \in CommType
  BY DEF ReplayInv, Counted
<1>4. /\ d \in CommType /\ d.after = comm.after /\ d.pipe = comm.pipe /\ d.used = comm.used
      /\ d.slot = comm.slot /\ d.prompt = comm.prompt /\ d.turn = comm.turn
  BY <1>3 DEF CommType
<1> HIDE DEF d
<1>5. ASSUME NEW p \in Prompt, NEW z \in Place, Stands(d, exec', toComm', store, z, p)
      PROVE  Stands(comm, exec, toComm, store, z, p)
  BY <1>1, <1>2, <1>4, <1>5, PromptAssumption DEF Stands, PutsNoPrompt
<1>6. Counted(d, exec', toComm', store, env.typed)
  BY <1>3, <1>4, <1>5, TokensVanish
<1>7. QED BY <1>1, <1>6 DEF ReplayInv

-----------------------------------------------------------------------------
(* The count is inductive.                                                 *)

(* At the start no prompt stands anywhere.                                 *)
LEMMA ReplayInit == Init => ReplayInv
<1> SUFFICES ASSUME Init PROVE ReplayInv
  OBVIOUS
<1>1. comm \in CommType
  BY EmptySeq, PromptAssumption DEF Init, CommType, After, NoPrompt
<1>2. \A p \in Prompt, z \in Place : ~Stands(comm, exec, toComm, store, z, p)
  BY PromptAssumption DEF Init, Stands, NoPrompt, NewExec
<1>3. \A p \in Prompt : Tokens(comm, exec, toComm, store, p) = {}
  BY <1>2 DEF Tokens
<1>4. \A p \in Prompt : Room(comm, env.typed, p) \in Nat
  BY <1>1, RoomIsNat
<1>5. IsFiniteSet({}) /\ Cardinality({}) = 0
  BY FS_EmptySet
<1>6. 0 <= PerTurnMax /\ comm.used = 0 /\ comm.slot = None /\ comm.prompt = None
  BY BudgetAssumption DEF Init
<1>7. \A p \in Prompt : Cardinality({}) <= Room(comm, env.typed, p)
  BY <1>4, <1>5
<1>8. QED BY <1>1, <1>3, <1>5, <1>6, <1>7 DEF ReplayInv, Counted

(* Every step keeps it, whatever fault occurs.                             *)
LEMMA ReplayStep == TypeOK /\ ReplayInv /\ [Next]_vars => ReplayInv'
<1> SUFFICES ASSUME TypeOK, ReplayInv, [Next]_vars PROVE ReplayInv'
  OBVIOUS
<1>1. CASE UNCHANGED vars
  BY <1>1 DEF vars, ReplayInv
<1>2. CASE User \/ IdleWindowPasses
  BY <1>2, UserCounts
<1>3. CASE ShutdownDone
  BY <1>3, ShutdownCounts
<1>4. ASSUME NEW e \in Epoch, CommStep(e) PROVE ReplayInv'
  BY <1>4, StartCounts, EventCounts, ExitCounts DEF CommStep
<1>5. ASSUME NEW e \in Epoch, ExecStep(e) PROVE ReplayInv'
  BY <1>5, OpenedCounts, ReceivingCounts, ActingCounts DEF ExecStep
<1>6. ASSUME NEW e \in Epoch, HelloTimeout(e) \/ OpenTimeout(e) \/ Exit(e) PROVE ReplayInv'
  BY <1>6, ExitCounts, ActingCounts
<1>7. QED BY <1>1, <1>2, <1>3, <1>4, <1>5, <1>6 DEF Next

(* A prompt is in the store at most once for its submission and once for   *)
(* every restart its turn may use, whatever fault occurs.                  *)
THEOREM ReplaysAreBounded == Spec => []BoundedReplays
<1>1. TypeOK /\ ReplayInv => BoundedReplays
  <2> SUFFICES ASSUME TypeOK, ReplayInv, NEW p \in Prompt
               PROVE  Cardinality({i \in DOMAIN store :
                                     store[i].kind = "user_message" /\ store[i].prompt = p})
                        <= 1 + PerTurnMax
    BY DEF BoundedReplays
  <2> DEFINE S == {i \in DOMAIN store : store[i].kind = "user_message" /\ store[i].prompt = p}
             T == Tokens(comm, exec, toComm, store, p)
             g == [i \in S |-> <<"store", 0, i>>]
  <2>1. /\ comm \in CommType /\ comm.used \in Nat /\ comm.used <= PerTurnMax /\ PerTurnMax \in Nat
        /\ IsFiniteSet(T) /\ Cardinality(T) \in Nat
        /\ Cardinality(T) <= Room(comm, env.typed, p)
    BY FS_CardinalityType, BudgetAssumption DEF ReplayInv, Counted, CommType
  <2>2. Room(comm, env.typed, p) <= 1 + PerTurnMax /\ Room(comm, env.typed, p) \in Nat
    BY <2>1, RoomIsNat DEF Room
  <2>3. \A i \in S : i \in Nat /\ i \in 1 .. Len(store)
    BY DEF TypeOK
  <2>4. \A i \in S : <<"store", 0, i>> \in T
    <3>1. \A i \in S : <<"store", 0, i>> \in Place
      BY <2>3, Places
    <3>2. QED BY <2>3, <3>1 DEF Tokens, Stands
  <2> HIDE DEF S, T
  <2>5. g \in [S -> T] /\ \A i, j \in S : g[i] = g[j] => i = j
    BY <2>4
  <2>6. IsFiniteSet(S) /\ Cardinality(S) <= Cardinality(T)
    BY <2>1, <2>5, FewerPlaces
  <2>7. Cardinality(S) \in Nat
    BY <2>6, FS_CardinalityType
  <2>8. QED BY <2>1, <2>2, <2>6, <2>7 DEF S
<1>2. QED BY <1>1, ReplayInit, ReplayStep, TypeCorrect, PTL DEF Spec

-----------------------------------------------------------------------------
(* The turn that an Executor works on, as long as no fault hits a start.   *)
(* c is a value of comm, x and q are values of exec[e] and toComm[e], s    *)
(* and t of exec and toComm.                                               *)

IsEnd(m) == m.type = "event" /\ m.line.kind = "turn_finished"
PromptsOf(q) == {i \in 1 .. Len(q) : q[i].type = "prompt"}

(* The Communicator has the turn of prompt p open, or the run is halted.   *)
Mine(c, p) == c.halted \/ (c.turn # "idle" /\ c.prompt = p)
Working(x, q) == x.pc \in InTurn /\ (x.pc = "finish" => EndSaid(q))

(* A prompt in the pipe is alone and meets an Executor that can take it, a *)
(* queued one follows the turn whose end was received, and whatever an     *)
(* Executor works on, has queued, is sent or will be sent at its start     *)
(* belongs to the open turn.                                               *)
WorkOf(c, x, q, e) ==
  /\ \A i, j \in PromptsOf(c.pipe[e]) : i = j /\ Mine(c, c.pipe[e][i].prompt)
  /\ PromptsOf(c.pipe[e]) # {} =>
       x.pc \in {"idle", "finish"} /\ ~Working(x, q) /\ x.queued = None
  /\ x.queued # None => x.pc = "finish" /\ ~Working(x, q) /\ Mine(c, x.queued)
  /\ Working(x, q) => Mine(c, x.prompt)
  /\ c.after[e].prompt # None =>
       c.child[e] \in {"hello", "open"} /\ Mine(c, c.after[e].prompt)

(* The end of a turn is on its way only while it is awaited, and the       *)
(* Executor of an open session has its agent.                              *)
LinesOf(c, x, q, e) ==
  /\ \A i \in 1 .. Len(q) : IsEnd(q[i]) => q[i].wait /\ x.pc = "finish"
  /\ c.child[e] = "up" \/ HasMsg(q, "open_ack") => x.pc \in HasAgent

TurnsAgree(c, s, t) ==
  \A e \in Epoch : c.child[e] # "none" /\ s[e].pc # "dead" =>
    WorkOf(c, s[e], t[e], e) /\ LinesOf(c, s[e], t[e], e)
WorkInv == TurnsAgree(comm, exec, toComm)

(* No prompt stands between the Communicator and an Executor.              *)
Free(c, s, t) ==
  \A e \in Epoch : c.child[e] # "none" /\ s[e].pc # "dead" =>
    /\ PromptsOf(c.pipe[e]) = {} /\ s[e].queued = None /\ ~Working(s[e], t[e])
    /\ c.after[e].prompt = None /\ LinesOf(c, s[e], t[e], e)

(* What OneInv says of the processes that are not there.                   *)
Absent(c, s, t) ==
  \A e \in Epoch : /\ c.child[e] = "none" => s[e] = NewExec /\ t[e] = <<>>
                   /\ c.child[e] = "gone" => s[e].pc = "dead"

(* It says so of the present ones.                                         *)
LEMMA OneAbsent == ProcessesAreRight(comm) => Absent(comm, exec, toComm)
BY DEF ProcessesAreRight, ExecIsRight, Absent

(* While no turn is open nothing stands in between.                        *)
LEMMA IdleIsFree ==
  ASSUME NEW c, NEW s, NEW t, TurnsAgree(c, s, t), c.turn = "idle", ~c.halted
  PROVE  Free(c, s, t)
BY DEF TurnsAgree, Free, WorkOf, Mine

(* Then the turn and the budget are free to change.                        *)
LEMMA FreeAgrees ==
  ASSUME NEW c, NEW d, NEW s, NEW t, Free(c, s, t),
         d.child = c.child, d.pipe = c.pipe, d.after = c.after
  PROVE  Free(d, s, t) /\ TurnsAgree(d, s, t)
BY DEF TurnsAgree, Free, WorkOf, LinesOf

(* Otherwise only so far as the turn stays what it is.                     *)
LEMMA TurnStays ==
  ASSUME NEW c, NEW d, NEW s, NEW t, TurnsAgree(c, s, t),
         d.child = c.child, d.pipe = c.pipe, d.after = c.after,
         \A p : Mine(c, p) => Mine(d, p)
  PROVE  TurnsAgree(d, s, t)
<1> SUFFICES ASSUME NEW e \in Epoch, d.child[e] # "none", s[e].pc # "dead"
             PROVE  WorkOf(d, s[e], t[e], e) /\ LinesOf(d, s[e], t[e], e)
  BY DEF TurnsAgree
<1>1. WorkOf(c, s[e], t[e], e) /\ LinesOf(c, s[e], t[e], e)
  BY DEF TurnsAgree
<1>2. WorkOf(d, s[e], t[e], e)
  BY <1>1 DEF WorkOf
<1>3. QED BY <1>1, <1>2 DEF LinesOf

(* Where the prompts of a pipe are after a message was written.            *)
LEMMA PromptsOfAppend ==
  ASSUME NEW q \in Seq(PipeMsg), NEW m \in PipeMsg
  PROVE  /\ PromptsOf(Append(q, m)) =
              PromptsOf(q) \cup (IF m.type = "prompt" THEN {Len(q) + 1} ELSE {})
         /\ \A i \in PromptsOf(q) : Append(q, m)[i] = q[i]
         /\ Append(q, m)[Len(q) + 1] = m
<1>1. /\ Len(q) \in Nat /\ Len(Append(q, m)) = Len(q) + 1
      /\ Append(q, m)[Len(q) + 1] = m
      /\ \A i \in 1 .. Len(q) : Append(q, m)[i] = q[i]
  BY AppendFacts, AppendProperties
<1>2. \A i : i \in 1 .. Len(q) + 1 <=> i \in 1 .. Len(q) \/ i = Len(q) + 1
  BY <1>1
<1>3. QED BY <1>1, <1>2 DEF PromptsOf

(* A signal or an answer moves no prompt.                                  *)
LEMMA SignalAgrees ==
  ASSUME NEW c \in CommType, NEW s, NEW t, TurnsAgree(c, s, t), NEW e, NEW m \in PipeMsg,
         m.type # "prompt"
  PROVE  TurnsAgree(SendTo(c, e, m), s, t)
<1> DEFINE d == SendTo(c, e, m)
<1>1. /\ d.child = c.child /\ d.after = c.after /\ d.turn = c.turn /\ d.prompt = c.prompt
      /\ d.halted = c.halted
      /\ \A f \in Epoch : d.pipe[f] = IF f = e THEN Append(c.pipe[e], m) ELSE c.pipe[f]
  BY DEF CommType, SendTo
<1> HIDE DEF d
<1>2. ASSUME NEW f \in Epoch
      PROVE  /\ PromptsOf(d.pipe[f]) = PromptsOf(c.pipe[f])
             /\ \A i \in PromptsOf(c.pipe[f]) : d.pipe[f][i] = c.pipe[f][i]
  <2>1. c.pipe[f] \in Seq(PipeMsg)
    BY DEF CommType
  <2>2. CASE f = e
    <3>1. d.pipe[f] = Append(c.pipe[f], m)
      BY <1>1, <2>2
    <3>2. /\ PromptsOf(Append(c.pipe[f], m)) =
               PromptsOf(c.pipe[f]) \cup (IF m.type = "prompt" THEN {Len(c.pipe[f]) + 1} ELSE {})
          /\ \A i \in PromptsOf(c.pipe[f]) : Append(c.pipe[f], m)[i] = c.pipe[f][i]
      BY <2>1, PromptsOfAppend
    <3>3. QED BY <3>1, <3>2
  <2>3. QED BY <1>1, <2>2
<1>3. \A p : Mine(c, p) => Mine(d, p)
  BY <1>1 DEF Mine
<1>4. ASSUME NEW f \in Epoch, d.child[f] # "none", s[f].pc # "dead"
      PROVE  WorkOf(d, s[f], t[f], f) /\ LinesOf(d, s[f], t[f], f)
  <2>1. WorkOf(c, s[f], t[f], f) /\ LinesOf(c, s[f], t[f], f)
    BY <1>1, <1>4 DEF TurnsAgree
  <2>2. WorkOf(d, s[f], t[f], f)
    BY <1>1, <1>2, <1>3, <2>1 DEF WorkOf
  <2>3. QED BY <1>1, <2>1, <2>2 DEF LinesOf
<1>5. QED BY <1>4 DEF TurnsAgree, d

(* A prompt is sent to the Executor that is up when none stands in between.*)
LEMMA PromptAgrees ==
  ASSUME NEW c, CommInvariant(c), NEW s, NEW t, Free(c, s, t), Absent(c, s, t),
         NEW p \in Prompt, NEW n \in BOOLEAN,
         c.live \in Epoch => c.child[c.live] = "up" /\ (s[c.live].pc # "dead" => Mine(c, p))
  PROVE  TurnsAgree(SendPrompt(c, p, n), s, t)
<1> DEFINE m == PromptMsg(p, n)
           d == SendPrompt(c, p, n)
<1>0. c \in CommType /\ m \in PipeMsg /\ m.type = "prompt" /\ m.prompt = p
  BY DEF CommInvariant, PromptMsg, PipeMsg
<1>1. CASE c.live = 0
  <2>1. d = c
    BY <1>1 DEF SendPrompt, SendLive
  <2>2. QED BY <2>1, FreeAgrees
<1>2. CASE c.live # 0
  <2>1. d = SendTo(c, c.live, m)
    BY <1>2 DEF SendPrompt, SendLive
  <2> HIDE DEF m
  <2>2. /\ d.child = c.child /\ d.after = c.after /\ d.turn = c.turn /\ d.prompt = c.prompt
        /\ d.halted = c.halted
        /\ \A f \in Epoch : d.pipe[f] = IF f = c.live THEN Append(c.pipe[f], m) ELSE c.pipe[f]
    BY <1>0, <2>1 DEF CommType, SendTo
  <2> HIDE DEF d
  <2>3. \A r : Mine(c, r) => Mine(d, r)
    BY <2>2 DEF Mine
  <2>4. ASSUME NEW f \in Epoch, c.child[f] # "none", s[f].pc # "dead"
        PROVE  WorkOf(d, s[f], t[f], f) /\ LinesOf(d, s[f], t[f], f)
    <3>0. /\ PromptsOf(c.pipe[f]) = {} /\ s[f].queued = None /\ ~Working(s[f], t[f])
          /\ c.after[f].prompt = None /\ LinesOf(c, s[f], t[f], f)
      BY <2>4 DEF Free
    <3>1. f = c.live /\ c.child[f] = "up"
      BY <2>4 DEF Absent, CommInvariant, OneLive
    <3>2. c.pipe[f] \in Seq(PipeMsg)
      BY <1>0 DEF CommType
    <3>3. /\ PromptsOf(d.pipe[f]) = {Len(c.pipe[f]) + 1}
          /\ d.pipe[f][Len(c.pipe[f]) + 1] = m
      <4>1. d.pipe[f] = Append(c.pipe[f], m)
        BY <2>2, <3>1
      <4>2. /\ PromptsOf(Append(c.pipe[f], m)) = PromptsOf(c.pipe[f]) \cup {Len(c.pipe[f]) + 1}
            /\ Append(c.pipe[f], m)[Len(c.pipe[f]) + 1] = m
        BY <1>0, <3>2, PromptsOfAppend
      <4>3. QED BY <3>0, <4>1, <4>2
    <3>4. s[f].pc \in {"idle", "finish"}
      BY <3>0, <3>1 DEF LinesOf, Working, InTurn
    <3>5. WorkOf(d, s[f], t[f], f)
      BY <1>0, <2>2, <2>3, <2>4, <3>0, <3>1, <3>3, <3>4 DEF WorkOf
    <3>6. QED BY <2>2, <3>0, <3>5 DEF LinesOf
  <2>5. QED BY <2>2, <2>4 DEF TurnsAgree, d
<1>3. QED BY <1>1, <1>2

(* A new Executor that is sent a prompt at its start.                      *)
LEMMA SpawnAgrees ==
  ASSUME NEW c, CommInvariant(c), NEW s, NEW t, Absent(c, s, t), c.live \notin Epoch,
         NEW a \in After, a.prompt # None => Mine(c, a.prompt)
  PROVE  TurnsAgree(SpawnAndHello(c, a), s, t)
<1> DEFINE d == SpawnAndHello(c, a)
           n == c.epoch + 1
<1>1. c \in CommType /\ c.epoch \in Nat /\ n > c.epoch
  BY DEF CommInvariant, CommType
<1>2. /\ d.pipe = c.pipe /\ d.halted = c.halted /\ d.turn = c.turn /\ d.prompt = c.prompt
      /\ \A f \in Epoch : /\ d.child[f] = IF f = n THEN "hello" ELSE c.child[f]
                          /\ d.after[f] = IF f = n THEN a ELSE c.after[f]
  BY <1>1 DEF CommType, SpawnAndHello
<1>3. n \in Epoch => c.child[n] = "none" /\ c.pipe[n] = <<>>
  BY <1>1 DEF CommInvariant, OneLive, PipesAreRight
<1> HIDE DEF d, n
<1>4. ASSUME NEW f \in Epoch, d.child[f] # "none", s[f].pc # "dead"
      PROVE  WorkOf(d, s[f], t[f], f) /\ LinesOf(d, s[f], t[f], f)
  <2>1. f = n
    BY <1>2, <1>4 DEF Absent, CommInvariant, OneLive
  <2>2. s[f] = NewExec /\ t[f] = <<>> /\ d.pipe[f] = <<>>
    BY <1>2, <1>3, <2>1 DEF Absent
  <2>3. d.child[f] = "hello" /\ d.after[f] = a /\ (a.prompt # None => Mine(d, a.prompt))
    BY <1>2, <2>1 DEF Mine
  <2>4. NewExec.pc = "boot" /\ NewExec.queued = None /\ "boot" \notin InTurn /\ "boot" # "finish"
    BY DEF NewExec, InTurn, HasAgent
  <2>5. PromptsOf(<<>>) = {} /\ Len(<<>>) = 0 /\ ~HasMsg(<<>>, "open_ack")
    BY EmptySeq, EmptyHas DEF PromptsOf
  <2> HIDE DEF NewExec
  <2>6. WorkOf(d, s[f], t[f], f)
    BY <2>2, <2>3, <2>4, <2>5 DEF WorkOf, Working
  <2>7. QED BY <2>2, <2>3, <2>5, <2>6 DEF LinesOf
<1>5. QED BY <1>4 DEF TurnsAgree, d

(* The same of a respawn, which does nothing once the shutdown has begun.  *)
LEMMA RespawnAgrees ==
  ASSUME NEW c, CommInvariant(c), NEW s, NEW t, Absent(c, s, t), c.live \notin Epoch,
         NEW a \in After, a.prompt # None => Mine(c, a.prompt)
  PROVE  TurnsAgree(Respawn(c, a), s, t)
<1>1. CASE c.shutting # "no"
  <2>1. \A e \in Epoch : c.child[e] = "none" \/ s[e].pc = "dead"
    BY DEF Absent, CommInvariant, OneLive
  <2>2. Respawn(c, a) = c
    BY <1>1 DEF Respawn
  <2>3. QED BY <2>1, <2>2 DEF TurnsAgree
<1>2. CASE c.shutting = "no"
  <2>1. Respawn(c, a) = SpawnAndHello(c, a)
    BY <1>2 DEF Respawn
  <2>2. QED BY <2>1, SpawnAgrees
<1>3. QED BY <1>1, <1>2

(* A prompt is submitted when none stands in between.                      *)
LEMMA SubmitAgrees ==
  ASSUME NEW c, CommInvariant(c), NEW s, NEW t, Free(c, s, t), Absent(c, s, t),
         NEW p \in Prompt, c.live \in Epoch => c.halted \/ c.child[c.live] = "up"
  PROVE  TurnsAgree(SubmitPrompt(c, p), s, t)
<1>1. CASE c.halted
  <2>1. SubmitPrompt(c, p) = c
    BY <1>1 DEF SubmitPrompt
  <2>2. QED BY <2>1, FreeAgrees
<1>2. CASE ~c.halted
  <2> DEFINE d == StartTurn(c, p)
             x == [d EXCEPT !.stopped = FALSE]
             a == [prompt |-> p, note |-> FALSE]
  <2>1. c \in CommType /\ a \in After /\ a.prompt = p
    BY DEF CommInvariant, After
  <2>2. /\ d \in CommType /\ d.epoch = c.epoch /\ d.live = c.live /\ d.child = c.child
        /\ d.after = c.after /\ d.pipe = c.pipe /\ d.shutting = c.shutting
        /\ d.halted = c.halted /\ d.stopped = c.stopped /\ d.turn = "running" /\ d.prompt = p
    BY <2>1 DEF StartTurn, CommType
  <2>3. SubmitPrompt(c, p) = IF d.stopped \/ ~LiveReady(d) THEN Respawn(x, a)
                                                           ELSE SendPrompt(d, p, FALSE)
    BY <1>2 DEF SubmitPrompt
  <2> HIDE DEF d, a
  <2>4. CommInvariant(d)
    BY <1>2, <2>2, OnlyBookkeeping DEF Moves
  <2>5. Free(d, s, t) /\ Absent(d, s, t) /\ Mine(d, p)
    BY <2>2, FreeAgrees DEF Absent, Mine
  <2>6. CASE d.stopped \/ ~LiveReady(d)
    <3>1. /\ x \in CommType /\ x.epoch = d.epoch /\ x.live = d.live /\ x.child = d.child
          /\ x.after = d.after /\ x.pipe = d.pipe /\ x.shutting = d.shutting
          /\ x.halted = d.halted /\ ~x.stopped /\ x.turn = d.turn /\ x.prompt = d.prompt
      BY <2>2 DEF CommType
    <3> HIDE DEF x
    <3>2. CommInvariant(x)
      BY <1>2, <2>2, <2>4, <3>1, OnlyBookkeeping DEF Moves
    <3>3. x.live \notin Epoch
      <4>1. 0 \notin Epoch
        BY DEF Epoch
      <4>2. CASE d.stopped
        BY <2>2, <3>1, <4>1, <4>2 DEF CommInvariant, OneLive
      <4>3. CASE ~LiveReady(d)
        BY <1>2, <2>2, <3>1, <4>1, <4>3 DEF LiveReady
      <4>4. QED BY <2>6, <4>2, <4>3
    <3>4. Absent(x, s, t) /\ Mine(x, p)
      BY <2>5, <3>1 DEF Absent, Mine
    <3>5. QED BY <2>1, <2>3, <2>6, <3>2, <3>3, <3>4, RespawnAgrees
  <2>7. CASE ~(d.stopped \/ ~LiveReady(d))
    <3>1. d.live \in Epoch => d.child[d.live] = "up"
      BY <1>2, <2>2
    <3>2. QED BY <2>3, <2>4, <2>5, <2>7, <3>1, PromptAgrees
  <2>8. QED BY <2>6, <2>7
<1>3. QED BY <1>1, <1>2

(* The end of the turn is told when none stands in between, and the line   *)
(* that waited is submitted.                                               *)
LEMMA TurnEndAgrees ==
  ASSUME NEW c, CommInvariant(c), NEW s, NEW t, Free(c, s, t), Absent(c, s, t),
         c.live \in Epoch => c.halted \/ c.child[c.live] = "up"
  PROVE  TurnsAgree(OnTurnEnd(c), s, t)
<1> DEFINE d == [c EXCEPT !.slot = None]
<1>1. c \in CommType
  BY DEF CommInvariant
<1>2. /\ d \in CommType /\ d.epoch = c.epoch /\ d.live = c.live /\ d.child = c.child
      /\ d.after = c.after /\ d.pipe = c.pipe /\ d.shutting = c.shutting
      /\ d.halted = c.halted /\ d.turn = c.turn /\ d.stopped = c.stopped
  BY <1>1 DEF CommType
<1>3. OnTurnEnd(c) = IF c.slot = None \/ c.shutting # "no" THEN d ELSE SubmitPrompt(d, c.slot)
  BY DEF OnTurnEnd
<1> HIDE DEF d
<1>4. CommInvariant(d) /\ Free(d, s, t) /\ TurnsAgree(d, s, t) /\ Absent(d, s, t)
  BY <1>2, OnlyBookkeeping, FreeAgrees DEF CommInvariant, Moves, Absent
<1>5. CASE c.slot = None \/ c.shutting # "no"
  BY <1>3, <1>4, <1>5
<1>6. CASE ~(c.slot = None \/ c.shutting # "no")
  <2>1. c.slot \in Prompt
    BY <1>1, <1>6 DEF CommType
  <2>2. QED BY <1>2, <1>3, <1>4, <1>6, <2>1, SubmitAgrees
<1>7. QED BY <1>5, <1>6

(* The restart policy, once no Executor is live.                           *)
LEMMA DecideAgrees ==
  ASSUME NEW c, CommInvariant(c), NEW s, NEW t, Absent(c, s, t), c.live = 0, ~c.stopped
  PROVE  TurnsAgree(DecideOnExit(c), s, t)
<1> DEFINE u == c.used + 1
           w == c.idleExits + 1
<1>1. c \in CommType /\ 0 \notin Epoch /\ u \in Nat /\ w \in Nat
  BY DEF CommInvariant, CommType, Epoch
<1>2. \A e \in Epoch : c.child[e] = "none" \/ s[e].pc = "dead"
  BY <1>1 DEF Absent, CommInvariant, OneLive
<1>3. CASE c.turn # "idle" /\ c.used < PerTurnMax
  <2> DEFINE d == [c EXCEPT !.used = u]
             a == [prompt |-> c.prompt, note |-> TRUE]
  <2>1. /\ d \in CommType /\ d.epoch = c.epoch /\ d.live = c.live /\ d.child = c.child
        /\ d.after = c.after /\ d.pipe = c.pipe /\ d.shutting = c.shutting
        /\ d.halted = c.halted /\ d.turn = c.turn /\ d.stopped = c.stopped /\ d.prompt = c.prompt
    <3> HIDE DEF u, w
    <3>1. QED BY <1>1 DEF CommType
  <2>2. a \in After /\ a.prompt = c.prompt
    BY <1>1 DEF CommType, After
  <2>3. DecideOnExit(c) = Respawn(d, a)
    BY <1>3 DEF DecideOnExit
  <2>4. ~c.halted
    BY <1>3 DEF CommInvariant
  <2> HIDE DEF d, a
  <2>5. CommInvariant(d)
    BY <2>1, <2>4, OnlyBookkeeping DEF Moves
  <2>6. Absent(d, s, t) /\ Mine(d, a.prompt)
    BY <1>3, <2>1, <2>2 DEF Absent, Mine
  <2>7. QED BY <1>1, <2>1, <2>2, <2>3, <2>5, <2>6, RespawnAgrees
<1>4. CASE c.turn # "idle" /\ ~(c.used < PerTurnMax)
  <2> DEFINE d == [EndTurn(c) EXCEPT !.stopped = TRUE]
  <2>1. /\ d \in CommType /\ d.epoch = c.epoch /\ d.live = c.live /\ d.child = c.child
        /\ d.after = c.after /\ d.pipe = c.pipe /\ d.shutting = c.shutting
        /\ d.halted = c.halted /\ d.turn = "idle" /\ d.stopped
    BY <1>1 DEF CommType, EndTurn
  <2>2. DecideOnExit(c) = OnTurnEnd(d)
    BY <1>4 DEF DecideOnExit
  <2> HIDE DEF d
  <2>3. CommInvariant(d)
    BY <2>1, OnlyBookkeeping DEF Moves
  <2>4. Free(d, s, t) /\ Absent(d, s, t)
    BY <1>2, <2>1 DEF Free, Absent
  <2>5. QED BY <1>1, <2>1, <2>2, <2>3, <2>4, TurnEndAgrees
<1>5. CASE c.turn = "idle"
  <2> DEFINE d == [c EXCEPT !.idleExits = w]
             x == [c EXCEPT !.idleExits = w, !.stopped = TRUE]
  <2>1. /\ d \in CommType /\ d.epoch = c.epoch /\ d.live = c.live /\ d.child = c.child
        /\ d.after = c.after /\ d.pipe = c.pipe /\ d.shutting = c.shutting
        /\ d.halted = c.halted /\ d.turn = c.turn /\ d.stopped = c.stopped
    <3> HIDE DEF u, w
    <3>1. QED BY <1>1 DEF CommType
  <2>2. x.child = c.child
    BY <1>1 DEF CommType
  <2>3. NoPrompt \in After /\ NoPrompt.prompt = None
    BY DEF NoPrompt, After
  <2>4. DecideOnExit(c) = IF c.idleExits < IdleMax THEN Respawn(d, NoPrompt) ELSE x
    BY <1>5 DEF DecideOnExit
  <2> HIDE DEF d, x
  <2>5. CommInvariant(d) /\ Absent(d, s, t)
    BY <1>5, <2>1, OnlyBookkeeping DEF Moves, Absent
  <2>6. TurnsAgree(Respawn(d, NoPrompt), s, t)
    BY <1>1, <2>1, <2>3, <2>5, RespawnAgrees
  <2>7. TurnsAgree(x, s, t)
    BY <1>2, <2>2 DEF TurnsAgree
  <2>8. QED BY <2>4, <2>6, <2>7
<1>6. QED BY <1>3, <1>4, <1>5

-----------------------------------------------------------------------------
(* The steps of the Communicator.                                          *)

Fewer(t, u) ==
  \A e \in Epoch : \A i \in 1 .. Len(u[e]) : \E j \in 1 .. Len(t[e]) : u[e][i] = t[e][j]

(* Reading a pipe leaves fewer messages.                                   *)
LEMMA ReadFewer ==
  ASSUME TypeOK,
         \/ UNCHANGED toComm
         \/ \E e \in Epoch : toComm[e] # <<>> /\ toComm' = [toComm EXCEPT ![e] = Tail(@)]
         \/ \E e \in Epoch : toComm' = [toComm EXCEPT ![e] = <<>>]
  PROVE  Fewer(toComm, toComm')
<1>1. CASE UNCHANGED toComm
  BY <1>1 DEF Fewer
<1>2. ASSUME NEW e \in Epoch, toComm[e] # <<>>, toComm' = [toComm EXCEPT ![e] = Tail(@)]
      PROVE  Fewer(toComm, toComm')
  <2> DEFINE q == toComm[e]
  <2>1. q \in Seq(ToCommMsg)
    BY DEF TypeOK
  <2>2. toComm'[e] = Tail(q) /\ \A f \in Epoch : f # e => toComm'[f] = toComm[f]
    BY <1>2 DEF TypeOK
  <2>3. Len(Tail(q)) \in Nat /\ Len(q) \in Nat /\ Len(q) = Len(Tail(q)) + 1
        /\ \A i \in 1 .. Len(Tail(q)) : Tail(q)[i] = q[i + 1]
    BY <1>2, <2>1
  <2>4. \A i \in 1 .. Len(Tail(q)) : i + 1 \in 1 .. Len(q)
    BY <2>3
  <2>5. \A i \in 1 .. Len(Tail(q)) : \E j \in 1 .. Len(q) : Tail(q)[i] = q[j]
    BY <2>3, <2>4
  <2> HIDE DEF q
  <2>6. \A i \in 1 .. Len(toComm'[e]) : \E j \in 1 .. Len(toComm[e]) : toComm'[e][i] = toComm[e][j]
    BY <2>2, <2>5 DEF q
  <2>7. QED BY <2>2, <2>6 DEF Fewer
<1>3. ASSUME NEW e \in Epoch, toComm' = [toComm EXCEPT ![e] = <<>>] PROVE Fewer(toComm, toComm')
  <2>1. toComm'[e] = <<>> /\ \A f \in Epoch : f # e => toComm'[f] = toComm[f]
    BY <1>3 DEF TypeOK
  <2>2. \A i : i \notin 1 .. Len(<<>>)
    BY EmptySeq
  <2>3. QED BY <2>1, <2>2 DEF Fewer
<1>4. QED BY <1>1, <1>2, <1>3

(* With fewer messages what agreed agrees.                                 *)
LEMMA FewerAgree ==
  ASSUME NEW c, NEW s, NEW t, NEW u, TurnsAgree(c, s, t), Fewer(t, u)
  PROVE  TurnsAgree(c, s, u)
<1> SUFFICES ASSUME NEW e \in Epoch, c.child[e] # "none", s[e].pc # "dead"
             PROVE  WorkOf(c, s[e], u[e], e) /\ LinesOf(c, s[e], u[e], e)
  BY DEF TurnsAgree
<1>1. WorkOf(c, s[e], t[e], e) /\ LinesOf(c, s[e], t[e], e)
  BY DEF TurnsAgree
<1>2. /\ EndSaid(u[e]) => EndSaid(t[e])
      /\ HasMsg(u[e], "open_ack") => HasMsg(t[e], "open_ack")
  BY DEF Fewer, EndSaid, HasMsg
<1>3. Working(s[e], u[e]) => Working(s[e], t[e])
  BY <1>2 DEF Working
<1>4. WorkOf(c, s[e], u[e], e)
  BY <1>1, <1>3 DEF WorkOf
<1>5. \A i \in 1 .. Len(u[e]) : IsEnd(u[e][i]) => u[e][i].wait /\ s[e].pc = "finish"
  BY <1>1 DEF LinesOf, Fewer
<1>6. QED BY <1>1, <1>2, <1>4, <1>5 DEF LinesOf

(* A signal to the live Executor.                                          *)
LEMMA LiveSignalAgrees ==
  ASSUME NEW c \in CommType, NEW s, NEW t, TurnsAgree(c, s, t), NEW m \in PipeMsg,
         m.type # "prompt"
  PROVE  TurnsAgree(SendLive(c, m), s, t)
<1>1. CASE c.live = 0
  BY <1>1 DEF SendLive
<1>2. CASE c.live # 0
  <2>1. SendLive(c, m) = SendTo(c, c.live, m)
    BY <1>2 DEF SendLive
  <2>2. QED BY <2>1, SignalAgrees
<1>3. QED BY <1>1, <1>2

(* The user at the console and the clock.                                  *)
LEMMA UserAgrees ==
  ASSUME TypeOK, OneInv, WorkInv, NoStartFaults, User \/ IdleWindowPasses
  PROVE  WorkInv'
<1>1. comm \in CommType /\ CommInvariant(comm) /\ 0 \notin Epoch
  BY DEF OneInv, CommInvariant, Epoch
<1>2. UNCHANGED <<exec, toComm>>
  BY DEF User, TypePrompt, TypeAnswer, Cancel, Halt, Shutdown, IdleWindowPasses
<1>3. TurnsAgree(comm, exec, toComm) /\ Absent(comm, exec, toComm)
  BY OneAbsent DEF WorkInv, OneInv
<1> SUFFICES TurnsAgree(comm', exec, toComm)
  BY <1>2 DEF WorkInv
<1>4. ASSUME NEW p \in Prompt, TypePrompt(p) PROVE TurnsAgree(comm', exec, toComm)
  <2>1. CASE comm.turn # "idle"
    <3>1. comm' = [comm EXCEPT !.slot = p]
      BY <1>4, <2>1 DEF TypePrompt
    <3>2. /\ comm'.child = comm.child /\ comm'.after = comm.after /\ comm'.pipe = comm.pipe
          /\ comm'.halted = comm.halted /\ comm'.turn = comm.turn /\ comm'.prompt = comm.prompt
      BY <1>1, <3>1 DEF CommType
    <3>3. QED BY <1>3, <3>2, TurnStays DEF Mine
  <2>2. CASE comm.turn = "idle"
    <3>1. comm' = SubmitPrompt(comm, p) /\ ~Starting
      BY <1>4, <2>2 DEF TypePrompt, NoStartFaults
    <3>2. comm.live \in Epoch => comm.child[comm.live] = "up"
      BY <1>1, <3>1 DEF CommInvariant, CommType, OneLive, Starting
    <3>3. CASE comm.halted
      BY <1>3, <3>1, <3>3 DEF SubmitPrompt
    <3>4. CASE ~comm.halted
      <4>1. Free(comm, exec, toComm)
        BY <1>3, <2>2, <3>4, IdleIsFree
      <4>2. QED BY <1>1, <1>3, <3>1, <3>2, <4>1, SubmitAgrees
    <3>5. QED BY <3>3, <3>4
  <2>3. QED BY <2>1, <2>2
<1>5. CASE TypeAnswer
  <2> DEFINE m == AnswerMsg(comm.ask)
             d == SendLive(comm, m)
  <2>1. m \in PipeMsg /\ m.type = "answer"
    BY <1>1 DEF AnswerMsg, PipeMsg, CommType
  <2>2. comm' = [Answered(d) EXCEPT !.ask = None]
    BY <1>5 DEF TypeAnswer
  <2> HIDE DEF m
  <2>3. TurnsAgree(d, exec, toComm)
    BY <1>1, <1>3, <2>1, LiveSignalAgrees
  <2>4. Moves(comm, d)
    BY <1>1, <2>1, SendLiveMoves
  <2>5. d \in CommType
    BY <2>4 DEF Moves, CommInvariant
  <2> HIDE DEF d
  <2>6. /\ comm'.child = d.child /\ comm'.after = d.after /\ comm'.pipe = d.pipe
        /\ comm'.halted = d.halted /\ (d.turn # "idle" => comm'.turn # "idle")
        /\ comm'.prompt = d.prompt
    BY <2>2, <2>5 DEF CommType, Answered
  <2>7. \A p : Mine(d, p) => Mine(comm', p)
    BY <2>6 DEF Mine
  <2>8. QED BY <2>3, <2>6, <2>7, TurnStays
<1>6. CASE Cancel \/ Halt
  <2>1. PICK k \in {"cancel", "halt"} : comm' = SendLive(comm, Signal(k))
    BY <1>6 DEF Cancel, Halt
  <2>2. Signal(k) \in PipeMsg /\ Signal(k).type # "prompt"
    BY DEF Signal, PipeMsg
  <2>3. QED BY <1>1, <1>3, <2>1, <2>2, LiveSignalAgrees
<1>7. CASE Shutdown
  <2> DEFINE m == Signal("shutdown")
             d == SendLive(comm, m)
  <2>1. m \in PipeMsg /\ m.type # "prompt"
    BY DEF Signal, PipeMsg
  <2>2. comm' = [d EXCEPT !.shutting = "stopping"]
    BY <1>7 DEF Shutdown
  <2>3. d \in CommType
    <3>1. CASE comm.live = 0
      BY <1>1, <3>1 DEF SendLive
    <3>2. CASE comm.live # 0
      <4>1. \A e \in Epoch : Append(comm.pipe[e], m) \in Seq(PipeMsg)
        BY <1>1, <2>1 DEF CommType
      <4> HIDE DEF m
      <4>2. QED BY <1>1, <3>2, <4>1 DEF CommType, SendLive, SendTo
    <3>3. QED BY <3>1, <3>2
  <2> HIDE DEF m
  <2>4. TurnsAgree(d, exec, toComm)
    BY <1>1, <1>3, <2>1, LiveSignalAgrees
  <2> HIDE DEF d
  <2>5. /\ comm'.child = d.child /\ comm'.after = d.after /\ comm'.pipe = d.pipe
        /\ comm'.halted = d.halted /\ comm'.turn = d.turn /\ comm'.prompt = d.prompt
    BY <2>2, <2>3 DEF CommType
  <2>6. QED BY <2>4, <2>5, TurnStays DEF Mine
<1>8. CASE IdleWindowPasses
  <2>1. comm' = [comm EXCEPT !.idleExits = @ - 1]
    BY <1>8 DEF IdleWindowPasses
  <2>2. /\ comm'.child = comm.child /\ comm'.after = comm.after /\ comm'.pipe = comm.pipe
        /\ comm'.halted = comm.halted /\ comm'.turn = comm.turn /\ comm'.prompt = comm.prompt
    BY <1>1, <2>1 DEF CommType
  <2>3. QED BY <1>3, <2>2, TurnStays DEF Mine
<1>9. QED BY <1>4, <1>5, <1>6, <1>7, <1>8 DEF User

(* The hello and the acknowledgement of session_open.                      *)
LEMMA StartAgrees ==
  ASSUME TypeOK, OneInv, WorkInv, NEW e \in Epoch, RecvHello(e) \/ RecvOpenAck(e)
  PROVE  WorkInv'
<1>1. comm \in CommType /\ CommInvariant(comm) /\ e \in Nat
  BY DEF OneInv, CommInvariant, Epoch
<1>2. UNCHANGED exec /\ Fewer(toComm, toComm')
  BY ReadFewer DEF RecvHello, RecvOpenAck, CommReceives
<1>3. TurnsAgree(comm, exec, toComm) /\ TurnsAgree(comm, exec, toComm')
  BY <1>2, FewerAgree DEF WorkInv
<1> SUFFICES TurnsAgree(comm', exec, toComm')
  BY <1>2 DEF WorkInv
<1>4. CASE RecvHello(e) /\ comm.child[e] = "hello"
  <2> DEFINE d == [comm EXCEPT !.child[e] = "open"]
             m == Signal("session_open")
  <2>1. /\ d \in CommType
        /\ d.after = comm.after /\ d.pipe = comm.pipe
        /\ d.halted = comm.halted /\ d.turn = comm.turn /\ d.prompt = comm.prompt
        /\ \A f \in Epoch : d.child[f] = IF f = e THEN "open" ELSE comm.child[f]
    BY <1>1 DEF CommType
  <2>2. comm' = SendTo(d, e, m)
    BY <1>4 DEF RecvHello
  <2>3. m \in PipeMsg /\ m.type # "prompt"
    BY DEF Signal, PipeMsg
  <2> HIDE DEF d, m
  <2>4. TurnsAgree(d, exec, toComm')
    <3> SUFFICES ASSUME NEW f \in Epoch, d.child[f] # "none", exec[f].pc # "dead"
                 PROVE  WorkOf(d, exec[f], toComm'[f], f) /\ LinesOf(d, exec[f], toComm'[f], f)
      BY DEF TurnsAgree
    <3>1. comm.child[f] # "none"
      BY <1>4, <2>1
    <3>2. WorkOf(comm, exec[f], toComm'[f], f) /\ LinesOf(comm, exec[f], toComm'[f], f)
      BY <1>3, <3>1 DEF TurnsAgree
    <3>3. \A p : Mine(comm, p) => Mine(d, p)
      BY <2>1 DEF Mine
    <3>4. WorkOf(d, exec[f], toComm'[f], f)
      BY <1>4, <2>1, <3>2, <3>3 DEF WorkOf
    <3>5. QED BY <2>1, <3>2, <3>4 DEF LinesOf
  <2>5. QED BY <2>1, <2>2, <2>3, <2>4, SignalAgrees
<1>5. CASE RecvOpenAck(e) /\ comm.child[e] = "open"
  <2> DEFINE d == [comm EXCEPT !.child[e] = "up", !.after[e] = NoPrompt]
             a == comm.after[e]
  <2>1. /\ d \in CommType /\ d.child = [comm.child EXCEPT ![e] = "up"]
        /\ d.after = [comm.after EXCEPT ![e] = NoPrompt]
        /\ d.epoch = comm.epoch /\ d.live = comm.live
        /\ d.pipe = comm.pipe /\ d.shutting = comm.shutting /\ d.halted = comm.halted
        /\ d.turn = comm.turn /\ d.stopped = comm.stopped /\ d.prompt = comm.prompt
    BY <1>1 DEF CommType, NoPrompt, After
  <2>2. comm' = AfterOpen(d, a) /\ d.child[e] = "up" /\ d.after[e].prompt = None /\ a \in After
        /\ \A f \in Epoch : f # e => d.child[f] = comm.child[f]
    BY <1>1, <1>5 DEF RecvOpenAck, CommType, NoPrompt
  <2>3. comm.live = e
    BY <1>5 DEF OneInv, CommInvariant, OneLive
  <2> HIDE DEF d
  <2>4. CommInvariant(d)
    BY <1>1, <1>5, <2>1, StageMoves DEF Moves
  <2>5. Absent(d, exec, toComm')
    <3>1. Absent(comm, exec, toComm)
      BY OneAbsent DEF OneInv
    <3>2. \A f \in Epoch : f # e => toComm'[f] = toComm[f]
      BY <1>5 DEF RecvOpenAck, CommReceives, TypeOK
    <3>3. QED BY <2>2, <3>1, <3>2 DEF Absent
  <2>6. exec[e].pc # "dead" =>
          /\ WorkOf(comm, exec[e], toComm'[e], e) /\ LinesOf(comm, exec[e], toComm'[e], e)
          /\ exec[e].pc = "idle"
    <3> HAVE exec[e].pc # "dead"
    <3>1. HasMsg(toComm[e], "open_ack")
      <4>1. toComm[e] \in Seq(ToCommMsg) /\ toComm[e] # <<>> /\ Head(toComm[e]).type = "open_ack"
        BY <1>5 DEF RecvOpenAck, CommReceives, TypeOK
      <4>2. QED BY <4>1, HeadHas
    <3>2. exec[e].pc \in HasAgent
      BY <1>3, <1>5, <3>1 DEF TurnsAgree, LinesOf
    <3>3. exec[e].pc \notin InTurn
      BY <1>5 DEF OneInv, ProcessesAreRight, ExecIsRight
    <3>4. QED BY <1>3, <1>5, <3>2, <3>3 DEF TurnsAgree, InTurn
  <2>7. Free(d, exec, toComm')
    <3> SUFFICES ASSUME NEW f \in Epoch, d.child[f] # "none", exec[f].pc # "dead"
                 PROVE  /\ PromptsOf(d.pipe[f]) = {} /\ exec[f].queued = None
                        /\ ~Working(exec[f], toComm'[f])
                        /\ d.after[f].prompt = None /\ LinesOf(d, exec[f], toComm'[f], f)
      BY DEF Free
    <3>1. f = e
      BY <2>1, <2>3, <2>4, <2>5 DEF CommInvariant, OneLive, Absent
    <3>2. ~HasMsg(comm.pipe[e], "prompt")
      BY <1>1, <1>5 DEF CommInvariant, PipesAreRight
    <3>3. PromptsOf(d.pipe[e]) = {}
      BY <2>1, <3>2 DEF PromptsOf, HasMsg
    <3>4. exec[e].queued = None /\ ~Working(exec[e], toComm'[e])
      BY <2>6, <3>1 DEF WorkOf, Working, InTurn
    <3>5. LinesOf(d, exec[e], toComm'[e], e)
      BY <2>6, <3>1 DEF LinesOf, HasAgent
    <3>6. QED BY <2>2, <3>1, <3>3, <3>4, <3>5
  <2>8. CASE a.prompt = None
    <3>1. comm' = d
      BY <2>2, <2>8 DEF AfterOpen
    <3>2. QED BY <2>7, <3>1, FreeAgrees
  <2>9. CASE a.prompt # None
    <3> DEFINE x == IF a.note /\ d.turn # "idle" THEN [d EXCEPT !.turn = "running"] ELSE d
    <3>1. /\ x \in CommType /\ x.epoch = d.epoch /\ x.live = d.live /\ x.child = d.child
          /\ x.after = d.after /\ x.pipe = d.pipe /\ x.shutting = d.shutting
          /\ x.halted = d.halted /\ x.stopped = d.stopped /\ x.prompt = d.prompt
          /\ (d.turn = "idle" <=> x.turn = "idle")
      BY <2>1 DEF CommType
    <3>2. comm' = SendPrompt(x, a.prompt, a.note)
      BY <2>2, <2>9 DEF AfterOpen
    <3>3. a.prompt \in Prompt /\ a.note \in BOOLEAN
      BY <2>2, <2>9 DEF After
    <3> HIDE DEF x
    <3>4. CommInvariant(x)
      BY <2>4, <3>1, OnlyBookkeeping DEF Moves, CommInvariant
    <3>5. Free(x, exec, toComm') /\ Absent(x, exec, toComm')
      BY <2>5, <2>7, <3>1, FreeAgrees DEF Absent
    <3>6. exec[e].pc # "dead" => Mine(x, a.prompt)
      <4> HAVE exec[e].pc # "dead"
      <4>1. Mine(comm, a.prompt)
        BY <2>6, <2>9 DEF WorkOf
      <4>2. QED BY <2>1, <3>1, <4>1 DEF Mine
    <3>7. x.live = e /\ x.child[e] = "up"
      BY <2>1, <2>2, <2>3, <3>1
    <3> HIDE DEF a
    <3>8. QED BY <3>2, <3>3, <3>4, <3>5, <3>6, <3>7, PromptAgrees
  <2>10. QED BY <2>8, <2>9
<1>6. CASE UNCHANGED comm
  BY <1>3, <1>6
<1>7. QED BY <1>4, <1>5, <1>6 DEF RecvHello, RecvOpenAck

(* Events and questions.  The end of a turn leaves the Executor free: it   *)
(* was the only end on its way, and nothing was queued behind it.          *)
LEMMA EventAgrees ==
  ASSUME TypeOK, OneWait, OneInv, WorkInv, NEW e \in Epoch,
         RecvEvent(e) \/ AppendFails(e) \/ RecvAsk(e)
  PROVE  WorkInv'
<1>1. comm \in CommType /\ CommInvariant(comm)
  BY DEF OneInv, CommInvariant
<1>2. UNCHANGED exec /\ Fewer(toComm, toComm')
  BY ReadFewer DEF RecvEvent, AppendFails, RecvAsk, CommReceives
<1>3. TurnsAgree(comm, exec, toComm) /\ TurnsAgree(comm, exec, toComm')
  BY <1>2, FewerAgree DEF WorkInv
<1>4. /\ toComm[e] # <<>> /\ comm.child[e] # "gone" /\ toComm[e] \in Seq(ToCommMsg)
      /\ toComm' = [toComm EXCEPT ![e] = Tail(@)]
  BY DEF RecvEvent, AppendFails, RecvAsk, CommReceives, TypeOK
<1>5. e = comm.live /\ comm.child[e] \in {"hello", "open", "up"}
  BY <1>4, SpeakerIsLive
<1>6. Absent(comm, exec, toComm) /\ Absent(comm, exec, toComm')
  BY <1>4, <1>5, OneAbsent DEF OneInv, Absent, TypeOK
<1> SUFFICES TurnsAgree(comm', exec, toComm')
  BY <1>2 DEF WorkInv
<1>7. CASE UNCHANGED comm
  BY <1>3, <1>7
<1>8. CASE RecvEvent(e) /\ Head(toComm[e]).line.kind = "turn_finished"
  <2> DEFINE d == EndTurn(comm)
             q == toComm[e]
  <2>1. IsEnd(Head(q)) /\ comm' = OnTurnEnd(d)
    BY <1>8 DEF RecvEvent, CommReceives, IsEnd
  <2>2. /\ 1 \in 1 .. Len(q) /\ q[1] = Head(q) /\ DOMAIN q = 1 .. Len(q)
        /\ Len(Tail(q)) \in Nat /\ Len(q) = Len(Tail(q)) + 1
        /\ \A i \in 1 .. Len(Tail(q)) : Tail(q)[i] = q[i + 1] /\ i + 1 \in 1 .. Len(q) /\ i + 1 # 1
    <3>1. q \in Seq(ToCommMsg) /\ q # <<>>
      BY <1>4
    <3>2. /\ 1 \in 1 .. Len(q) /\ q[1] = Head(q) /\ DOMAIN q = 1 .. Len(q)
          /\ Len(Tail(q)) \in Nat /\ Len(q) \in Nat /\ Len(q) = Len(Tail(q)) + 1
          /\ \A i \in 1 .. Len(Tail(q)) : Tail(q)[i] = q[i + 1]
      BY <3>1
    <3>3. QED BY <3>2
  <2>3. EndSaid(q)
    BY <2>1, <2>2 DEF EndSaid, IsEnd
  <2>4. comm.child[e] = "up"
    BY <1>5, <2>3 DEF OneInv, ProcessesAreRight, ExecIsRight
  <2>5. toComm'[e] = Tail(q)
    BY <1>4 DEF TypeOK
  <2>6. exec[e].pc # "dead" =>
          /\ PromptsOf(comm.pipe[e]) = {} /\ exec[e].queued = None
          /\ ~Working(exec[e], toComm'[e]) /\ comm.after[e].prompt = None
    <3> HAVE exec[e].pc # "dead"
    <3>1. WorkOf(comm, exec[e], q, e) /\ LinesOf(comm, exec[e], q, e)
      BY <1>3, <1>5 DEF TurnsAgree
    <3>2. exec[e].pc = "finish"
      BY <2>1, <2>2, <3>1 DEF LinesOf
    <3>3. Working(exec[e], q)
      BY <2>3, <3>2 DEF Working, InTurn, HasAgent
    <3>4. \A i \in 1 .. Len(q) : IsEnd(q[i]) => Waits(q[i])
      BY <3>1 DEF LinesOf, IsEnd, Waits
    <3>5. \A i, j \in 1 .. Len(q) : IsEnd(q[i]) /\ IsEnd(q[j]) => i = j
      <4>1. \A i \in DOMAIN q : Waits(q[i]) => \A j \in DOMAIN q : Waits(q[j]) => i = j
        BY DEF OneWait
      <4>2. QED BY <2>2, <3>4, <4>1
    <3>6. ~EndSaid(Tail(q))
      <4>1. \A i \in 1 .. Len(Tail(q)) : ~IsEnd(Tail(q)[i])
        BY <2>1, <2>2, <3>5
      <4>2. QED BY <4>1 DEF EndSaid, IsEnd
    <3>7. QED BY <2>4, <2>5, <3>1, <3>2, <3>3, <3>6 DEF WorkOf, Working
  <2>7. Free(comm, exec, toComm')
    <3> SUFFICES ASSUME NEW f \in Epoch, comm.child[f] # "none", exec[f].pc # "dead"
                 PROVE  /\ PromptsOf(comm.pipe[f]) = {} /\ exec[f].queued = None
                        /\ ~Working(exec[f], toComm'[f])
                        /\ comm.after[f].prompt = None /\ LinesOf(comm, exec[f], toComm'[f], f)
      BY DEF Free
    <3>1. f = e
      BY <1>1, <1>5, <1>6 DEF CommInvariant, OneLive, Absent
    <3>2. LinesOf(comm, exec[f], toComm'[f], f)
      BY <1>3 DEF TurnsAgree
    <3>3. QED BY <2>6, <3>1, <3>2
  <2>8. /\ d \in CommType /\ d.epoch = comm.epoch /\ d.live = comm.live
        /\ d.child = comm.child /\ d.after = comm.after /\ d.pipe = comm.pipe
        /\ d.shutting = comm.shutting /\ d.halted = comm.halted /\ d.turn = "idle"
        /\ d.stopped = comm.stopped
    BY <1>1 DEF EndTurn, CommType
  <2> HIDE DEF d
  <2>9. CommInvariant(d)
    BY <1>1, <2>8, OnlyBookkeeping DEF Moves
  <2>10. Free(d, exec, toComm') /\ Absent(d, exec, toComm')
    BY <1>6, <2>7, <2>8, FreeAgrees DEF Absent
  <2>11. QED BY <1>5, <2>1, <2>4, <2>8, <2>9, <2>10, TurnEndAgrees
<1>9. CASE RecvAsk(e)
  <2> DEFINE k == Head(toComm[e]).call
  <2>1. comm' = [WaitForAnswer(comm) EXCEPT !.ask = k]
    BY <1>9 DEF RecvAsk
  <2> HIDE DEF k
  <2>2. /\ comm'.child = comm.child /\ comm'.after = comm.after /\ comm'.pipe = comm.pipe
        /\ comm'.halted = comm.halted /\ (comm.turn # "idle" => comm'.turn # "idle")
        /\ comm'.prompt = comm.prompt
    BY <1>1, <2>1 DEF CommType, WaitForAnswer
  <2>3. \A p : Mine(comm, p) => Mine(comm', p)
    BY <2>2 DEF Mine
  <2>4. QED BY <1>3, <2>2, <2>3, TurnStays
<1>10. QED BY <1>7, <1>8, <1>9 DEF RecvEvent, AppendFails

(* A halt belongs to every turn.                                           *)
LEMMA HaltedAgrees ==
  ASSUME TypeOK, OneInv, WorkInv, NEW e \in Epoch, RecvHalted(e)
  PROVE  WorkInv'
<1>1. comm \in CommType
  BY DEF OneInv, CommInvariant
<1>2. UNCHANGED exec /\ Fewer(toComm, toComm')
  BY ReadFewer DEF RecvHalted, CommReceives
<1>3. TurnsAgree(comm, exec, toComm')
  BY <1>2, FewerAgree DEF WorkInv
<1> DEFINE c == EndTurn([comm EXCEPT !.halted = TRUE])
           d == [c EXCEPT !.slot = None]
<1>4. comm.live = e => comm' = OnTurnEnd(c)
  BY DEF RecvHalted
<1>5. c \in CommType /\ c.child = comm.child /\ c.after = comm.after /\ c.pipe = comm.pipe /\ c.halted
  BY <1>1 DEF CommType, EndTurn
<1> HIDE DEF c
<1>6. d.child = c.child /\ d.after = c.after /\ d.pipe = c.pipe /\ d.halted
  BY <1>5 DEF CommType
<1>7. OnTurnEnd(c) = d
  <2>1. OnTurnEnd(c) = IF c.slot = None \/ c.shutting # "no" THEN d ELSE SubmitPrompt(d, c.slot)
    BY DEF OnTurnEnd
  <2> HIDE DEF d
  <2>2. SubmitPrompt(d, c.slot) = d
    BY <1>6 DEF SubmitPrompt
  <2>3. QED BY <2>1, <2>2
<1> HIDE DEF d
<1>8. CASE comm.live = e
  <2>1. \A p : Mine(d, p)
    BY <1>6 DEF Mine
  <2>2. TurnsAgree(d, exec, toComm')
    BY <1>3, <1>5, <1>6, <2>1, TurnStays
  <2>3. QED BY <1>2, <1>4, <1>7, <1>8, <2>2 DEF WorkInv
<1>9. CASE comm.live # e
  <2>1. comm' = comm
    BY <1>9 DEF RecvHalted
  <2>2. QED BY <1>2, <1>3, <2>1 DEF WorkInv
<1>10. QED BY <1>8, <1>9

(* The exit of an Executor is noticed: none is left.                       *)
LEMMA ChildExitAgrees ==
  ASSUME TypeOK, OneInv, WorkInv, NEW e \in Epoch, OnChildExit(e)
  PROVE  WorkInv'
<1>1. comm \in CommType /\ CommInvariant(comm)
  BY DEF OneInv, CommInvariant
<1>2. UNCHANGED exec /\ exec[e].pc = "dead" /\ comm.child[e] # "gone"
  BY DEF OnChildExit
<1>3. e = comm.live /\ comm.child[e] \in {"hello", "open", "up"}
  BY <1>2, SpeakerIsLive
<1> DEFINE c == [comm EXCEPT !.child[e] = "gone", !.pipe[e] = <<>>,
                             !.after[e] = NoPrompt, !.live = IF @ = e THEN 0 ELSE @]
<1>4. /\ c \in CommType /\ c.epoch = comm.epoch /\ c.live = 0
      /\ c.shutting = comm.shutting /\ c.halted = comm.halted
      /\ c.turn = comm.turn /\ c.stopped = comm.stopped
  BY <1>1, <1>3, EmptySeq DEF CommType, NoPrompt, After
<1>5. /\ comm.child[e] \in {"hello", "open"} =>
           comm' = RespawnFailed(IF c.shutting # "no" THEN c ELSE DecideOnExit(c))
      /\ comm.child[e] \notin {"hello", "open"} =>
           comm' = IF c.shutting # "no" THEN c ELSE DecideOnExit(c)
  BY DEF OnChildExit
<1>6. \A f \in Epoch :
        /\ f # e => c.child[f] = comm.child[f] /\ c.pipe[f] = comm.pipe[f] /\ c.after[f] = comm.after[f]
        /\ f = e => c.child[f] = "gone" /\ c.pipe[f] = <<>> /\ c.after[f].prompt = None
  BY <1>1 DEF CommType, NoPrompt
<1> HIDE DEF c
<1>7. ~comm.stopped /\ 0 \notin Epoch /\ e <= comm.epoch
  BY <1>1, <1>3 DEF CommInvariant, OneLive, Epoch
<1>8. CommInvariant(c)
  <2>1. OneLive(c)
    <3>1. \A f \in Epoch : c.child[f] \in {"none", "gone"}
      BY <1>1, <1>3, <1>6 DEF CommInvariant, OneLive
    <3>2. \A f \in Epoch : f > c.epoch => c.child[f] = "none"
      BY <1>1, <1>4, <1>6, <1>7 DEF CommInvariant, OneLive, CommType, Epoch
    <3>3. QED BY <1>1, <1>4, <1>7, <3>1, <3>2 DEF OneLive, CommType
  <2>2. PipesAreRight(c)
    BY <1>1, <1>4, <1>6, EmptyHas DEF CommInvariant, PipesAreRight
  <2>3. QED BY <1>1, <1>4, <2>1, <2>2 DEF CommInvariant
<1>9. Absent(c, exec, toComm')
  <2>1. Absent(comm, exec, toComm)
    BY OneAbsent DEF OneInv
  <2>2. \A f \in Epoch : f # e => toComm'[f] = toComm[f]
    BY DEF OnChildExit, TypeOK
  <2>3. QED BY <1>2, <1>6, <2>1, <2>2 DEF Absent
<1>10. comm.child[e] \in {"hello", "open"} => comm.shutting # "no"
  BY <1>2 DEF OneInv, ProcessesAreRight, ExecIsRight
<1>11. CASE c.shutting # "no"
  <2>1. comm' = c
    BY <1>5, <1>11 DEF RespawnFailed
  <2>2. \A f \in Epoch : c.child[f] = "none" \/ exec[f].pc = "dead"
    BY <1>4, <1>7, <1>8, <1>9 DEF Absent, CommInvariant, OneLive
  <2>3. QED BY <1>2, <2>1, <2>2 DEF WorkInv, TurnsAgree
<1>12. CASE c.shutting = "no"
  <2>1. comm' = DecideOnExit(c)
    BY <1>4, <1>5, <1>10, <1>12
  <2>2. TurnsAgree(DecideOnExit(c), exec, toComm')
    BY <1>4, <1>7, <1>8, <1>9, DecideAgrees
  <2>3. QED BY <1>2, <2>1, <2>2 DEF WorkInv
<1>13. QED BY <1>11, <1>12

(* The shutdown is over.                                                   *)
LEMMA ShutdownAgrees ==
  ASSUME TypeOK, OneInv, WorkInv, ShutdownDone
  PROVE  WorkInv'
<1>1. comm \in CommType /\ CommInvariant(comm)
  BY DEF OneInv, CommInvariant
<1>2. comm'.child = comm.child /\ UNCHANGED toComm
  BY <1>1 DEF ShutdownDone, CommType
<1>3. DeadExec.pc = "dead"
  BY DEF DeadExec, NewExec
<1>4. \A e \in Epoch : comm'.child[e] = "none" \/ exec'[e].pc = "dead"
  <2>1. ASSUME NEW e \in Epoch, comm.child[e] # "none" PROVE exec'[e].pc = "dead"
    <3>1. exec'[e] = IF e = comm.live THEN DeadExec ELSE exec[e]
      BY DEF ShutdownDone
    <3>2. e # comm.live => exec[e].pc = "dead"
      BY <1>1, <2>1, OneAbsent DEF OneInv, CommInvariant, OneLive, Absent
    <3>3. QED BY <1>3, <3>1, <3>2
  <2>2. QED BY <1>2, <2>1
<1>5. QED BY <1>4 DEF WorkInv, TurnsAgree

-----------------------------------------------------------------------------
(* The steps of an Executor.                                               *)

(* Its pipe from the Communicator is as it was, or one message shorter.    *)
Reads(e) ==
  \/ UNCHANGED comm
  \/ \E r \in Seq(PipeMsg) :
       /\ comm' = [comm EXCEPT !.pipe[e] = r]
       /\ \A i \in PromptsOf(r) : \E k \in PromptsOf(comm.pipe[e]) : r[i] = comm.pipe[e][k]
       /\ (\A i, j \in PromptsOf(comm.pipe[e]) : i = j) => \A i, j \in PromptsOf(r) : i = j

(* Taking a message is such a step; a prompt that is taken stood there     *)
(* alone and leaves none.                                                  *)
LEMMA TakeReads ==
  ASSUME OneInv, NEW e \in Epoch, NEW m, Take(e, m)
  PROVE  /\ Reads(e)
         /\ m.type = "prompt" => \E k \in PromptsOf(comm.pipe[e]) : comm.pipe[e][k] = m
         /\ m.type = "prompt" /\ (\A i, j \in PromptsOf(comm.pipe[e]) : i = j) =>
              \E r \in Seq(PipeMsg) : comm' = [comm EXCEPT !.pipe[e] = r] /\ PromptsOf(r) = {}
<1> DEFINE q == comm.pipe[e]
<1>1. q \in Seq(PipeMsg) /\ DOMAIN q = 1 .. Len(q) /\ Len(q) \in Nat
  BY DEF OneInv, CommInvariant, CommType
<1>2. PICK i \in 1 .. Len(q) :
        /\ q[i] = m
        /\ comm' = [comm EXCEPT !.pipe[e] = SubSeq(q, 1, i - 1) \o SubSeq(q, i + 1, Len(q))]
  BY <1>1 DEF Take
<1> DEFINE r == SubSeq(q, 1, i - 1) \o SubSeq(q, i + 1, Len(q))
<1>3. /\ r \in Seq(PipeMsg) /\ Len(r) = Len(q) - 1
      /\ \A k \in 1 .. Len(q) - 1 : r[k] = IF k < i THEN q[k] ELSE q[k + 1]
  BY <1>1, CutAt
<1>4. comm' = [comm EXCEPT !.pipe[e] = r]
  BY <1>2
<1> HIDE DEF q, r
<1> DEFINE at(k) == IF k < i THEN k ELSE k + 1
<1>5. \A k \in PromptsOf(r) : at(k) \in PromptsOf(q) /\ r[k] = q[at(k)] /\ at(k) # i
  BY <1>1, <1>3 DEF PromptsOf
<1>6. \A k, l \in PromptsOf(r) : at(k) = at(l) => k = l
  BY <1>1, <1>3 DEF PromptsOf
<1>7. m.type = "prompt" => i \in PromptsOf(q)
  BY <1>2 DEF PromptsOf
<1> HIDE DEF at
<1>8. Reads(e)
  BY <1>3, <1>4, <1>5, <1>6 DEF Reads, q
<1>9. m.type = "prompt" /\ (\A k, l \in PromptsOf(q) : k = l) => PromptsOf(r) = {}
  BY <1>5, <1>7
<1>10. QED BY <1>2, <1>3, <1>4, <1>7, <1>8, <1>9 DEF q

(* What reading leaves as it was.                                          *)
LEMMA ReadsKeep ==
  ASSUME OneInv, NEW e \in Epoch,
         UNCHANGED comm \/ \E r \in Seq(PipeMsg) : comm' = [comm EXCEPT !.pipe[e] = r]
  PROVE  /\ comm'.child = comm.child /\ comm'.after = comm.after
         /\ \A p : Mine(comm, p) <=> Mine(comm', p)
         /\ \A f \in Epoch : f # e => comm'.pipe[f] = comm.pipe[f]
<1>1. comm \in CommType
  BY DEF OneInv, CommInvariant
<1>2. /\ comm'.child = comm.child /\ comm'.after = comm.after
      /\ comm'.turn = comm.turn /\ comm'.prompt = comm.prompt /\ comm'.halted = comm.halted
      /\ \A f \in Epoch : f # e => comm'.pipe[f] = comm.pipe[f]
  BY <1>1 DEF CommType
<1>3. QED BY <1>2 DEF Mine

(* The other Executors are as they were.                                   *)
LEMMA OneAgrees ==
  ASSUME TypeOK, OneInv, WorkInv, NEW e \in Epoch, NEW x, NEW q,
         UNCHANGED comm \/ \E r \in Seq(PipeMsg) : comm' = [comm EXCEPT !.pipe[e] = r],
         exec' = [exec EXCEPT ![e] = x], toComm' = [toComm EXCEPT ![e] = q],
         x.pc # "dead" => WorkOf(comm', x, q, e) /\ LinesOf(comm', x, q, e)
  PROVE  WorkInv'
<1>1. /\ comm'.child = comm.child /\ comm'.after = comm.after
      /\ \A p : Mine(comm, p) <=> Mine(comm', p)
      /\ \A f \in Epoch : f # e => comm'.pipe[f] = comm.pipe[f]
  BY ReadsKeep
<1>2. exec'[e] = x /\ toComm'[e] = q
      /\ \A f \in Epoch : f # e => exec'[f] = exec[f] /\ toComm'[f] = toComm[f]
  BY DEF TypeOK
<1>3. ASSUME NEW f \in Epoch, f # e, comm'.child[f] # "none", exec'[f].pc # "dead"
      PROVE  WorkOf(comm', exec'[f], toComm'[f], f) /\ LinesOf(comm', exec'[f], toComm'[f], f)
  <2>1. WorkOf(comm, exec[f], toComm[f], f) /\ LinesOf(comm, exec[f], toComm[f], f)
    BY <1>1, <1>2, <1>3 DEF WorkInv, TurnsAgree
  <2>2. WorkOf(comm', exec[f], toComm[f], f)
    BY <1>1, <1>3, <2>1 DEF WorkOf
  <2>3. QED BY <1>1, <1>2, <1>3, <2>1, <2>2 DEF LinesOf
<1>4. QED BY <1>2, <1>3 DEF WorkInv, TurnsAgree

(* An Executor goes on without a new prompt.                               *)
LEMMA GoesOnAgrees ==
  ASSUME TypeOK, OneInv, WorkInv, NEW e \in Epoch, Alive(e), Reads(e), NEW x, NEW q,
         exec' = [exec EXCEPT ![e] = x], toComm' = [toComm EXCEPT ![e] = q],
         x.queued = exec[e].queued,
         Working(x, q) => Working(exec[e], toComm[e]) /\ x.prompt = exec[e].prompt,
         exec[e].pc \in {"idle", "finish"} /\ ~Working(exec[e], toComm[e]) => x.pc \in {"idle", "finish"},
         exec[e].queued # None => x.pc = exec[e].pc,
         LinesOf(comm, x, q, e)
  PROVE  WorkInv'
<1>1. /\ comm'.child = comm.child /\ comm'.after = comm.after
      /\ \A p : Mine(comm, p) <=> Mine(comm', p)
      /\ UNCHANGED comm \/ \E r \in Seq(PipeMsg) : comm' = [comm EXCEPT !.pipe[e] = r]
  BY ReadsKeep DEF Reads
<1>2. WorkOf(comm, exec[e], toComm[e], e)
  BY DEF WorkInv, TurnsAgree, Alive
<1>3. \A i \in PromptsOf(comm'.pipe[e]) :
        /\ \E k \in PromptsOf(comm.pipe[e]) : comm'.pipe[e][i] = comm.pipe[e][k]
        /\ \A j \in PromptsOf(comm'.pipe[e]) : i = j
  <2>1. CASE UNCHANGED comm
    BY <1>2, <2>1 DEF WorkOf
  <2>2. ASSUME NEW r \in Seq(PipeMsg), comm' = [comm EXCEPT !.pipe[e] = r],
               \A i \in PromptsOf(r) : \E k \in PromptsOf(comm.pipe[e]) : r[i] = comm.pipe[e][k],
               (\A i, j \in PromptsOf(comm.pipe[e]) : i = j) => \A i, j \in PromptsOf(r) : i = j
        PROVE  \A i \in PromptsOf(comm'.pipe[e]) :
                 /\ \E k \in PromptsOf(comm.pipe[e]) : comm'.pipe[e][i] = comm.pipe[e][k]
                 /\ \A j \in PromptsOf(comm'.pipe[e]) : i = j
    <3>1. comm'.pipe[e] = r
      BY <2>2 DEF OneInv, CommInvariant, CommType
    <3>2. \A i, j \in PromptsOf(comm.pipe[e]) : i = j
      BY <1>2 DEF WorkOf
    <3>3. QED BY <2>2, <3>1, <3>2
  <2>3. QED BY <2>1, <2>2 DEF Reads
<1>4. WorkOf(comm', x, q, e)
  <2>1. \A i, j \in PromptsOf(comm'.pipe[e]) : i = j /\ Mine(comm', comm'.pipe[e][i].prompt)
    BY <1>1, <1>2, <1>3 DEF WorkOf
  <2>2. PromptsOf(comm'.pipe[e]) # {} =>
          x.pc \in {"idle", "finish"} /\ ~Working(x, q) /\ x.queued = None
    BY <1>2, <1>3 DEF WorkOf
  <2>3. x.queued # None => x.pc = "finish" /\ ~Working(x, q) /\ Mine(comm', x.queued)
    BY <1>1, <1>2 DEF WorkOf
  <2>4. Working(x, q) => Mine(comm', x.prompt)
    BY <1>1, <1>2 DEF WorkOf
  <2>5. comm'.after[e].prompt # None =>
          comm'.child[e] \in {"hello", "open"} /\ Mine(comm', comm'.after[e].prompt)
    BY <1>1, <1>2 DEF WorkOf
  <2>6. QED BY <2>1, <2>2, <2>3, <2>4, <2>5 DEF WorkOf
<1>5. LinesOf(comm', x, q, e)
  BY <1>1 DEF LinesOf
<1>6. QED BY <1>1, <1>4, <1>5, OneAgrees

(* It ends.                                                                *)
LEMMA EndAgrees ==
  ASSUME TypeOK, OneInv, WorkInv, NEW e \in Epoch, UNCHANGED comm \/ Reads(e),
         exec' = [exec EXCEPT ![e] = DeadExec], UNCHANGED toComm
  PROVE  WorkInv'
<1> DEFINE x == DeadExec
           q == toComm[e]
<1>1. x.pc = "dead"
  BY DEF DeadExec, NewExec
<1>2. exec' = [exec EXCEPT ![e] = x] /\ toComm' = [toComm EXCEPT ![e] = q]
  BY DEF TypeOK
<1>3. UNCHANGED comm \/ \E r \in Seq(PipeMsg) : comm' = [comm EXCEPT !.pipe[e] = r]
  BY DEF Reads
<1> HIDE DEF x
<1>4. QED BY <1>1, <1>2, <1>3, OneAgrees

(* What is said at the end of a pipe.                                      *)
LEMMA SaidLines ==
  ASSUME TypeOK, NEW c, NEW e \in Epoch, NEW y, NEW x, NEW m, NEW q,
         LinesOf(c, y, toComm[e], e),
         q = toComm[e] \/ q = Append(toComm[e], m),
         m.type # "open_ack", IsEnd(m) => m.wait /\ x.pc = "finish",
         EndSaid(toComm[e]) => x.pc = "finish",
         y.pc \in HasAgent => x.pc \in HasAgent
  PROVE  /\ LinesOf(c, x, q, e)
         /\ ~IsEnd(m) /\ EndSaid(q) => EndSaid(toComm[e])
<1>1. toComm[e] \in Seq(ToCommMsg)
  BY DEF TypeOK
<1> DEFINE t == toComm[e]
<1>2. \A i \in 1 .. Len(q) : (i \in 1 .. Len(t) /\ q[i] = t[i]) \/ q[i] = m
  <2>1. CASE q = t
    BY <2>1
  <2>2. CASE q = Append(t, m)
    <3>1. t \in Seq(ToCommMsg \cup {m}) /\ m \in ToCommMsg \cup {m}
      BY <1>1, SeqMonotonic
    <3>2. /\ Len(t) \in Nat /\ Len(Append(t, m)) = Len(t) + 1
          /\ Append(t, m)[Len(t) + 1] = m
          /\ \A i \in 1 .. Len(t) : Append(t, m)[i] = t[i]
      BY <3>1, AppendFacts, AppendProperties
    <3>3. \A i \in 1 .. Len(t) + 1 : i \in 1 .. Len(t) \/ i = Len(t) + 1
      BY <3>2
    <3>4. QED BY <2>2, <3>2, <3>3
  <2>3. QED BY <2>1, <2>2
<1>3. \A i \in 1 .. Len(t) : IsEnd(t[i]) => EndSaid(t)
  BY DEF EndSaid, IsEnd
<1>4. \A i \in 1 .. Len(q) : IsEnd(q[i]) => q[i].wait /\ x.pc = "finish"
  BY <1>2, <1>3 DEF LinesOf
<1>5. HasMsg(q, "open_ack") => HasMsg(t, "open_ack")
  BY <1>2 DEF HasMsg
<1>6. ~IsEnd(m) /\ EndSaid(q) => EndSaid(t)
  BY <1>2 DEF EndSaid, IsEnd
<1>7. QED BY <1>4, <1>5, <1>6 DEF LinesOf

(* An Executor goes on and says m or nothing.                              *)
LEMMA SayAgrees ==
  ASSUME TypeOK, OneInv, WorkInv, NEW e \in Epoch, Alive(e), Reads(e), NEW x, NEW m,
         exec' = [exec EXCEPT ![e] = x], UNCHANGED toComm \/ Say(e, m),
         x.queued = exec[e].queued,
         x.pc \in InTurn =>
           /\ x.prompt = exec[e].prompt
           /\ exec[e].pc \in InTurn \ {"finish"} \/ (x.pc = exec[e].pc /\ ~IsEnd(m)),
         exec[e].pc = "idle" => x.pc = "idle",
         exec[e].pc = "finish" =>
           x.pc = "finish" \/ (x.pc = "idle" /\ x.queued = None /\ ~EndSaid(toComm[e])),
         exec[e].pc \in HasAgent => x.pc \in HasAgent,
         m.type # "open_ack", IsEnd(m) => m.wait /\ x.pc = "finish"
  PROVE  WorkInv'
<1> DEFINE q == IF UNCHANGED toComm THEN toComm[e] ELSE Append(toComm[e], m)
<1>1. toComm' = [toComm EXCEPT ![e] = q] /\ (q = toComm[e] \/ q = Append(toComm[e], m))
  BY DEF TypeOK, Say
<1> HIDE DEF q
<1>2. WorkOf(comm, exec[e], toComm[e], e) /\ LinesOf(comm, exec[e], toComm[e], e)
  BY DEF WorkInv, TurnsAgree, Alive
<1>3. EndSaid(toComm[e]) => x.pc = "finish"
  BY <1>2 DEF LinesOf, EndSaid, IsEnd
<1>4. LinesOf(comm, x, q, e) /\ (~IsEnd(m) /\ EndSaid(q) => EndSaid(toComm[e]))
  BY <1>1, <1>2, <1>3, SaidLines
<1>5. Working(x, q) => Working(exec[e], toComm[e]) /\ x.prompt = exec[e].prompt
  BY <1>4 DEF Working
<1>6. exec[e].pc \in {"idle", "finish"} => x.pc \in {"idle", "finish"}
  OBVIOUS
<1>7. exec[e].queued # None => x.pc = exec[e].pc
  BY <1>2 DEF WorkOf
<1>8. QED BY <1>1, <1>4, <1>5, <1>6, <1>7, GoesOnAgrees

(* It begins a turn with a prompt of the open turn.                        *)
LEMMA BeginAgrees ==
  ASSUME TypeOK, OneInv, WorkInv, NEW e \in Epoch, Alive(e), NEW p \in Prompt,
         NEW y \in ExecType, BeginTurn(e, p, y), Mine(comm, p),
         ~EndSaid(toComm[e]), exec[e].pc \in HasAgent,
         \/ UNCHANGED comm /\ PromptsOf(comm.pipe[e]) = {}
         \/ \E r \in Seq(PipeMsg) : comm' = [comm EXCEPT !.pipe[e] = r] /\ PromptsOf(r) = {}
  PROVE  WorkInv'
<1> DEFINE x == [y EXCEPT !.pc = "user", !.prompt = p, !.queued = None, !.abort = FALSE]
           m == EventMsg(Line("user_message", p, None), TRUE)
           q == Append(toComm[e], m)
<1>1. x.pc = "user" /\ x.prompt = p /\ x.queued = None
  BY DEF ExecType
<1>2. m.type = "event" /\ ~IsEnd(m)
  BY DEF EventMsg, Line, IsEnd
<1>3. exec' = [exec EXCEPT ![e] = x] /\ toComm' = [toComm EXCEPT ![e] = q]
  BY DEF BeginTurn, Say, TypeOK
<1>4. WorkOf(comm, exec[e], toComm[e], e) /\ LinesOf(comm, exec[e], toComm[e], e)
  BY DEF WorkInv, TurnsAgree, Alive
<1>5. /\ comm'.child = comm.child /\ comm'.after = comm.after
      /\ \A r : Mine(comm, r) <=> Mine(comm', r)
      /\ UNCHANGED comm \/ \E r \in Seq(PipeMsg) : comm' = [comm EXCEPT !.pipe[e] = r]
  BY ReadsKeep
<1>6. PromptsOf(comm'.pipe[e]) = {}
  <2>1. ASSUME NEW r \in Seq(PipeMsg), comm' = [comm EXCEPT !.pipe[e] = r], PromptsOf(r) = {}
        PROVE  PromptsOf(comm'.pipe[e]) = {}
    <3>1. comm'.pipe[e] = r
      BY <2>1 DEF OneInv, CommInvariant, CommType
    <3>2. QED BY <2>1, <3>1
  <2>2. QED BY <2>1
<1> HIDE DEF x, m
<1>7. q = toComm[e] \/ q = Append(toComm[e], m)
  OBVIOUS
<1> HIDE DEF q
<1>8. LinesOf(comm, x, q, e)
  <2>1. x.pc \in HasAgent
    BY <1>1 DEF HasAgent
  <2>2. QED BY <1>2, <1>4, <1>7, <2>1, SaidLines
<1>9. LinesOf(comm', x, q, e)
  BY <1>5, <1>8 DEF LinesOf
<1>10. WorkOf(comm', x, q, e)
  BY <1>1, <1>4, <1>5, <1>6 DEF WorkOf
<1>11. QED BY <1>3, <1>5, <1>9, <1>10, OneAgrees

(* The session opens.                                                      *)
LEMMA OpenedAgrees ==
  ASSUME TypeOK, OneInv, OneInv', WorkInv, NEW e \in Epoch, SessionOpened(e)
  PROVE  WorkInv'
<1> DEFINE x == [exec[e] EXCEPT !.pc = "idle"]
           q == toComm'[e]
<1>1. UNCHANGED comm /\ Alive(e) /\ exec[e].pc = "opening" /\ exec[e] \in ExecType
  BY DEF SessionOpened, TypeOK
<1>2. exec' = [exec EXCEPT ![e] = x] /\ x.pc = "idle" /\ x.queued = exec[e].queued
  BY <1>1 DEF SessionOpened, ExecType
<1>3. toComm' = [toComm EXCEPT ![e] = q]
  BY DEF SessionOpened, TypeOK
<1>4. WorkOf(comm, exec[e], toComm[e], e) /\ LinesOf(comm, exec[e], toComm[e], e)
  BY <1>1 DEF WorkInv, TurnsAgree, Alive
<1>5. comm.child[e] \in {"hello", "open"}
  <2>1. comm.child[e] # "up"
    BY <1>1, <1>4 DEF LinesOf, HasAgent
  <2>2. comm.child[e] \notin {"none", "gone", "late"}
    BY <1>1 DEF Alive, OneInv, CommInvariant, OneLive, ProcessesAreRight, ExecIsRight
  <2>3. comm \in CommType
    BY DEF OneInv, CommInvariant
  <2>4. QED BY <2>1, <2>2, <2>3 DEF CommType
<1>6. ~EndSaid(q)
  BY <1>1, <1>5 DEF OneInv, ProcessesAreRight, ExecIsRight
<1>7. Reads(e)
  BY <1>1 DEF Reads
<1> HIDE DEF x, q
<1>8. ~Working(x, q) /\ x.pc \in HasAgent
  BY <1>2 DEF Working, InTurn, HasAgent
<1>9. LinesOf(comm, x, q, e)
  BY <1>6, <1>8 DEF LinesOf, EndSaid, IsEnd
<1>10. exec[e].queued = None
  BY <1>1, <1>4 DEF WorkOf
<1>11. QED BY <1>1, <1>2, <1>3, <1>7, <1>8, <1>9, <1>10, GoesOnAgrees

(* The Executor takes a message; a prompt it never drops.                  *)
LEMMA ReceivingAgrees ==
  ASSUME TypeOK, OneInv, WorkInv, NEW e \in Epoch,
         \/ RecvSessionOpen(e) \/ RecvPrompt(e) \/ RecvCancel(e)
         \/ RecvHalt(e) \/ RecvShutdown(e) \/ RecvAnswer(e)
  PROVE  WorkInv' /\ UNCHANGED env
<1>0. /\ exec[e] \in ExecType /\ exec \in [Epoch -> ExecType] /\ toComm \in [Epoch -> Seq(ToCommMsg)]
      /\ Alive(e) /\ exec[e].pc # "dead"
  BY DEF TypeOK, Alive, RecvSessionOpen, RecvPrompt, RecvCancel, RecvHalt, RecvShutdown,
         RecvAnswer, TakeSignal
<1>1. WorkOf(comm, exec[e], toComm[e], e) /\ LinesOf(comm, exec[e], toComm[e], e)
  BY <1>0 DEF WorkInv, TurnsAgree, Alive
<1>2. ASSUME NEW k, TakeSignal(e, k) PROVE Reads(e)
  BY <1>2, TakeReads DEF TakeSignal
<1> DEFINE h == Signal("halted")
<1>3. h.type = "halted" /\ ~IsEnd(h)
  BY DEF Signal, IsEnd
<1>4. CASE RecvSessionOpen(e)
  <2> DEFINE x == IF exec[e].pc = "fresh" THEN [exec[e] EXCEPT !.pc = "opening"] ELSE exec[e]
  <2>1. exec' = [exec EXCEPT ![e] = x] /\ UNCHANGED toComm /\ Reads(e) /\ UNCHANGED env
    BY <1>0, <1>2, <1>4 DEF RecvSessionOpen
  <2>2. /\ x.queued = exec[e].queued /\ x.prompt = exec[e].prompt
        /\ x.pc = exec[e].pc \/ (exec[e].pc = "fresh" /\ x.pc = "opening")
    BY <1>0 DEF ExecType
  <2> HIDE DEF x, h
  <2>3. /\ x.pc \in InTurn => x.pc = exec[e].pc
        /\ exec[e].pc \in HasAgent => x.pc = exec[e].pc
    BY <2>2 DEF InTurn, HasAgent
  <2>4. "idle" \in HasAgent /\ "finish" \in HasAgent
    BY DEF HasAgent
  <2>5. QED BY <1>0, <1>3, <2>1, <2>2, <2>3, <2>4, SayAgrees
<1>5. CASE RecvPrompt(e)
  <2>1. PICK p \in Prompt, note \in BOOLEAN :
          /\ Take(e, PromptMsg(p, note))
          /\ \/ exec[e].pc = "idle" /\ BeginTurn(e, p, exec[e]) /\ UNCHANGED env
             \/ /\ exec[e].pc = "finish" /\ exec[e].queued = None
                /\ exec' = [exec EXCEPT ![e].queued = p] /\ UNCHANGED <<toComm, acked, env>>
             \/ \/ exec[e].pc \notin HasAgent
                \/ exec[e].pc \in InTurn \ {"finish"}
                \/ exec[e].pc = "finish" /\ exec[e].queued # None
    BY <1>5 DEF RecvPrompt
  <2>2. PromptMsg(p, note).type = "prompt" /\ PromptMsg(p, note).prompt = p
    BY DEF PromptMsg
  <2>3. \A i, j \in PromptsOf(comm.pipe[e]) : i = j
    BY <1>1 DEF WorkOf
  <2>4. PICK k \in PromptsOf(comm.pipe[e]) : comm.pipe[e][k].prompt = p
    BY <2>1, <2>2, TakeReads
  <2>5. PICK r \in Seq(PipeMsg) : comm' = [comm EXCEPT !.pipe[e] = r] /\ PromptsOf(r) = {}
    BY <2>1, <2>2, <2>3, TakeReads
  <2>6. /\ Mine(comm, p) /\ exec[e].pc \in {"idle", "finish"}
        /\ ~Working(exec[e], toComm[e]) /\ exec[e].queued = None
    BY <1>1, <2>4 DEF WorkOf
  <2>7. ~EndSaid(toComm[e]) /\ exec[e].pc \in HasAgent
    BY <1>1, <2>6 DEF Working, LinesOf, EndSaid, IsEnd, InTurn, HasAgent
  <2>8. CASE exec[e].pc = "idle" /\ BeginTurn(e, p, exec[e]) /\ UNCHANGED env
    BY <1>0, <2>5, <2>6, <2>7, <2>8, BeginAgrees
  <2>9. CASE /\ exec[e].pc = "finish" /\ exec[e].queued = None
             /\ exec' = [exec EXCEPT ![e].queued = p] /\ UNCHANGED <<toComm, acked, env>>
    <3> DEFINE x == [exec[e] EXCEPT !.queued = p]
               q == toComm[e]
    <3>1. exec' = [exec EXCEPT ![e] = x] /\ toComm' = [toComm EXCEPT ![e] = q] /\ UNCHANGED env
      BY <1>0, <2>9
    <3>2. x.pc = "finish" /\ x.queued = p /\ x.prompt = exec[e].prompt
      BY <1>0, <2>9 DEF ExecType
    <3> HIDE DEF x
    <3>3. /\ comm'.child = comm.child /\ comm'.after = comm.after
          /\ \A o : Mine(comm, o) <=> Mine(comm', o)
      BY <2>5, ReadsKeep
    <3>4. PromptsOf(comm'.pipe[e]) = {}
      BY <2>5 DEF OneInv, CommInvariant, CommType
    <3>5. ~Working(x, q)
      BY <2>7, <3>2 DEF Working
    <3>6. WorkOf(comm', x, q, e)
      BY <1>1, <2>6, <3>2, <3>3, <3>4, <3>5 DEF WorkOf
    <3>7. LinesOf(comm', x, q, e)
      BY <1>1, <2>7, <2>9, <3>2, <3>3 DEF LinesOf
    <3>8. QED BY <2>5, <3>1, <3>6, <3>7, OneAgrees
  <2>10. QED BY <2>1, <2>6, <2>7, <2>8, <2>9 DEF InTurn
<1>6. CASE RecvCancel(e)
  <2> DEFINE x == Aborted(exec[e])
  <2>1. exec' = [exec EXCEPT ![e] = x] /\ UNCHANGED toComm /\ Reads(e) /\ UNCHANGED env
    BY <1>0, <1>2, <1>6 DEF RecvCancel
  <2>2. x.pc = exec[e].pc /\ x.queued = exec[e].queued /\ x.prompt = exec[e].prompt
    BY <1>0 DEF ExecType, Aborted
  <2> HIDE DEF x, h
  <2>3. QED BY <1>0, <1>3, <2>1, <2>2, SayAgrees
<1>7. CASE RecvHalt(e)
  <2> DEFINE x == IF exec[e].pc \in HasAgent THEN [Aborted(exec[e]) EXCEPT !.halted = TRUE]
                                             ELSE exec[e]
  <2>1. /\ exec' = [exec EXCEPT ![e] = x] /\ (UNCHANGED toComm \/ Say(e, h))
        /\ Reads(e) /\ UNCHANGED env
    BY <1>0, <1>2, <1>7 DEF RecvHalt
  <2>2. x.pc = exec[e].pc /\ x.queued = exec[e].queued /\ x.prompt = exec[e].prompt
    BY <1>0 DEF ExecType, Aborted
  <2> HIDE DEF x, h
  <2>3. QED BY <1>0, <1>3, <2>1, <2>2, SayAgrees
<1>8. CASE RecvShutdown(e)
  BY <1>2, <1>8, EndAgrees DEF RecvShutdown
<1>9. CASE RecvAnswer(e)
  <2>1. PICK c \in Call :
          /\ Take(e, AnswerMsg(c))
          /\ IF exec[e].pc = "ask" /\ exec[e].call = c
               THEN /\ exec' = [exec EXCEPT ![e].pc = "model", ![e].call = None]
                    /\ Say(e, EventMsg(Line("tool_call_finished", None, c), FALSE))
               ELSE UNCHANGED <<exec, toComm>>
    BY <1>9 DEF RecvAnswer
  <2>2. Reads(e) /\ UNCHANGED env
    BY <1>9, <2>1, TakeReads DEF RecvAnswer
  <2>3. CASE exec[e].pc = "ask" /\ exec[e].call = c
    <3> DEFINE x == [exec[e] EXCEPT !.pc = "model", !.call = None]
               m == EventMsg(Line("tool_call_finished", None, c), FALSE)
    <3>1. exec' = [exec EXCEPT ![e] = x] /\ Say(e, m)
      BY <1>0, <2>1, <2>3
    <3>2. x.pc = "model" /\ x.queued = exec[e].queued /\ x.prompt = exec[e].prompt
      BY <1>0 DEF ExecType
    <3>3. m.type = "event" /\ ~IsEnd(m) /\ "ask" \in InTurn \ {"finish"} /\ "model" \in HasAgent
      BY DEF EventMsg, Line, IsEnd, InTurn, HasAgent
    <3> HIDE DEF x, m
    <3>4. QED BY <1>0, <2>2, <2>3, <3>1, <3>2, <3>3, SayAgrees
  <2>4. CASE ~(exec[e].pc = "ask" /\ exec[e].call = c)
    <3> DEFINE x == exec[e]
    <3>1. exec' = [exec EXCEPT ![e] = x] /\ UNCHANGED toComm
      BY <1>0, <2>1, <2>4
    <3> HIDE DEF h
    <3>2. QED BY <1>0, <1>3, <2>2, <3>1, SayAgrees
  <2>5. QED BY <2>3, <2>4
<1>10. QED BY <1>4, <1>5, <1>6, <1>7, <1>8, <1>9

(* The Executor goes on by itself.  When the end of its turn is            *)
(* acknowledged it is not on its way any more.                             *)
LEMMA ActingAgrees ==
  ASSUME TypeOK, OneWait, OneInv, WorkInv, NEW e \in Epoch,
         \/ Hello(e) \/ UserAcked(e) \/ ModelTool(e) \/ GateRefuses(e) \/ Dispatch(e)
         \/ ToolDone(e) \/ Finish(e) \/ ProviderError(e) \/ FinishAcked(e)
         \/ AckTimeout(e) \/ Disconnect(e)
  PROVE  WorkInv' /\ env'.lost = env.lost
<1>0. /\ exec[e] \in ExecType /\ exec \in [Epoch -> ExecType] /\ Alive(e) /\ UNCHANGED comm
      /\ Reads(e)
  BY DEF TypeOK, AckedIn, Hello, UserAcked, ModelTool, GateRefuses, Dispatch, ToolDone, Finish,
         ProviderError, FinishAcked, AckTimeout, Disconnect, BeginTurn, Reads
<1>1. env'.lost = env.lost
  <2>1. env \in EnvType
    BY DEF TypeOK
  <2>2. QED
    BY <2>1 DEF EnvType, Hello, UserAcked, ModelTool, GateRefuses, Dispatch, ToolDone, Finish,
                ProviderError, FinishAcked, AckTimeout, Disconnect
<1>2. WorkOf(comm, exec[e], toComm[e], e) /\ LinesOf(comm, exec[e], toComm[e], e)
  BY <1>0 DEF WorkInv, TurnsAgree, Alive
<1>3. {"idle", "user", "model", "request", "tool", "ask", "finish"} \subseteq HasAgent
      /\ "idle" \notin InTurn /\ "fresh" \notin InTurn /\ "boot" \notin HasAgent
      /\ {"user", "model", "request", "tool", "ask"} \subseteq InTurn \ {"finish"}
  BY DEF InTurn, HasAgent
<1> DEFINE done == EventMsg(Line("tool_call_finished", None, exec[e].call), FALSE)
           back == [exec[e] EXCEPT !.pc = "model", !.call = None]
<1>4. /\ back.pc = "model" /\ back.queued = exec[e].queued /\ back.prompt = exec[e].prompt
      /\ done.type = "event" /\ ~IsEnd(done)
  BY <1>0 DEF ExecType, EventMsg, Line, IsEnd
<1> HIDE DEF done, back
<1>5. CASE Hello(e)
  <2> DEFINE x == [exec[e] EXCEPT !.pc = "fresh"]
             m == Signal("hello")
  <2>1. exec' = [exec EXCEPT ![e] = x] /\ Say(e, m) /\ exec[e].pc = "boot"
    BY <1>5 DEF Hello
  <2>2. /\ x.pc = "fresh" /\ x.queued = exec[e].queued /\ m.type = "hello" /\ ~IsEnd(m)
    BY <1>0 DEF ExecType, Signal, IsEnd
  <2> HIDE DEF x, m
  <2>3. QED BY <1>0, <1>1, <1>3, <2>1, <2>2, SayAgrees
<1>6. CASE UserAcked(e)
  <2> DEFINE x == [exec[e] EXCEPT !.pc = "model"]
  <2>1. exec' = [exec EXCEPT ![e] = x] /\ UNCHANGED toComm /\ exec[e].pc = "user"
    BY <1>6 DEF UserAcked, AckedIn
  <2>2. x.pc = "model" /\ x.queued = exec[e].queued /\ x.prompt = exec[e].prompt
    BY <1>0 DEF ExecType
  <2> HIDE DEF x
  <2>3. QED BY <1>0, <1>1, <1>3, <1>4, <2>1, <2>2, SayAgrees
<1>7. CASE ModelTool(e)
  <2> DEFINE c == env.calls + 1
             x == [exec[e] EXCEPT !.pc = "request", !.call = c]
             m == EventMsg(Line("tool_call_requested", None, c), TRUE)
  <2>1. exec' = [exec EXCEPT ![e] = x] /\ Say(e, m) /\ exec[e].pc = "model"
    BY <1>7 DEF ModelTool
  <2>2. /\ x.pc = "request" /\ x.queued = exec[e].queued /\ x.prompt = exec[e].prompt
        /\ m.type = "event" /\ ~IsEnd(m)
    BY <1>0 DEF ExecType, EventMsg, Line, IsEnd
  <2> HIDE DEF x, m
  <2>3. QED BY <1>0, <1>1, <1>3, <2>1, <2>2, SayAgrees
<1>8. CASE GateRefuses(e) \/ ToolDone(e)
  <2>1. /\ exec' = [exec EXCEPT ![e] = back] /\ Say(e, done)
        /\ exec[e].pc \in {"request", "tool", "ask"}
    BY <1>0, <1>8 DEF GateRefuses, ToolDone, AckedIn, back, done
  <2>2. QED BY <1>0, <1>1, <1>3, <1>4, <2>1, SayAgrees
<1>9. CASE Dispatch(e)
  <2>1. exec[e].pc = "request"
    BY <1>9 DEF Dispatch, AckedIn
  <2>2. CASE exec' = [exec EXCEPT ![e].pc = "tool"] /\ UNCHANGED toComm
    <3> DEFINE x == [exec[e] EXCEPT !.pc = "tool"]
    <3>1. /\ exec' = [exec EXCEPT ![e] = x] /\ x.pc = "tool"
          /\ x.queued = exec[e].queued /\ x.prompt = exec[e].prompt
      BY <1>0, <2>2 DEF ExecType
    <3> HIDE DEF x
    <3>2. QED BY <1>0, <1>1, <1>3, <1>4, <2>1, <2>2, <3>1, SayAgrees
  <2>3. CASE exec' = [exec EXCEPT ![e].pc = "ask"] /\ Say(e, AskMsg(exec[e].call))
    <3> DEFINE x == [exec[e] EXCEPT !.pc = "ask"]
               m == AskMsg(exec[e].call)
    <3>1. /\ exec' = [exec EXCEPT ![e] = x] /\ x.pc = "ask"
          /\ x.queued = exec[e].queued /\ x.prompt = exec[e].prompt
      BY <1>0, <2>3 DEF ExecType
    <3>2. m.type = "ask_user" /\ Say(e, m) /\ ~IsEnd(m)
      BY <2>3 DEF AskMsg, IsEnd
    <3> HIDE DEF x, m
    <3>3. QED BY <1>0, <1>1, <1>3, <2>1, <3>1, <3>2, SayAgrees
  <2>4. QED BY <1>9, <2>2, <2>3 DEF Dispatch
<1>10. CASE Finish(e)
  <2> DEFINE x == [exec[e] EXCEPT !.pc = "finish"]
             m == EventMsg(Line("turn_finished", exec[e].prompt, None), TRUE)
  <2>1. exec' = [exec EXCEPT ![e] = x] /\ Say(e, m) /\ exec[e].pc = "model"
    BY <1>10 DEF Finish
  <2>2. /\ x.pc = "finish" /\ x.queued = exec[e].queued /\ x.prompt = exec[e].prompt
        /\ m.type = "event" /\ m.wait
    BY <1>0 DEF ExecType, EventMsg
  <2> HIDE DEF x, m
  <2>3. QED BY <1>0, <1>1, <1>3, <2>1, <2>2, SayAgrees
<1>11. CASE ProviderError(e)
  <2> DEFINE x == [exec[e] EXCEPT !.pc = "idle", !.prompt = None]
             m == EventMsg(Line("provider_error", exec[e].prompt, None), FALSE)
  <2>1. exec' = [exec EXCEPT ![e] = x] /\ Say(e, m) /\ exec[e].pc = "model"
    BY <1>0, <1>11 DEF ProviderError
  <2>2. /\ x.pc = "idle" /\ x.queued = exec[e].queued /\ m.type = "event" /\ ~IsEnd(m)
    BY <1>0 DEF ExecType, EventMsg, Line, IsEnd
  <2> HIDE DEF x, m
  <2>3. QED BY <1>0, <1>1, <1>3, <2>1, <2>2, SayAgrees
<1>12. CASE FinishAcked(e)
  <2> DEFINE x == [exec[e] EXCEPT !.pc = "idle", !.prompt = None, !.abort = FALSE]
  <2>1. exec[e].pc = "finish" /\ acked[e] /\ exec[e].pc # "dead"
    BY <1>12 DEF FinishAcked, AckedIn
  <2>2. ~EndSaid(toComm[e])
    <3>1. \A i \in DOMAIN toComm[e] : ~Waits(toComm[e][i])
      BY <2>1 DEF OneWait
    <3>2. DOMAIN toComm[e] = 1 .. Len(toComm[e])
      BY DEF TypeOK
    <3>3. QED BY <1>2, <3>1, <3>2 DEF LinesOf, EndSaid, IsEnd, Waits
  <2>3. x \in ExecType /\ x.pc = "idle" /\ x.queued = exec[e].queued /\ x.queued \in Prompt \cup {None}
    BY <1>0 DEF ExecType, PC, HasAgent
  <2>4. IF x.queued # None THEN BeginTurn(e, x.queued, x)
                           ELSE exec' = [exec EXCEPT ![e] = x] /\ UNCHANGED toComm
    BY <1>12 DEF FinishAcked
  <2> HIDE DEF x
  <2>5. CASE x.queued # None
    <3>1. x.queued \in Prompt
      BY <2>3, <2>5
    <3>2. Mine(comm, x.queued) /\ PromptsOf(comm.pipe[e]) = {}
      BY <1>2, <2>3, <2>5 DEF WorkOf
    <3>3. QED BY <1>0, <1>1, <1>3, <2>1, <2>2, <2>3, <2>4, <2>5, <3>1, <3>2, BeginAgrees
  <2>6. CASE x.queued = None
    BY <1>0, <1>1, <1>3, <1>4, <2>1, <2>2, <2>3, <2>4, <2>6, SayAgrees
  <2>7. QED BY <2>5, <2>6
<1>13. CASE AckTimeout(e) \/ Disconnect(e)
  BY <1>0, <1>1, <1>13, EndAgrees DEF AckTimeout, Disconnect
<1>14. QED
  BY <1>5, <1>6, <1>7, <1>8, <1>9, <1>10, <1>11, <1>12, <1>13

-----------------------------------------------------------------------------
(* No prompt is lost and no turn runs that is over.                        *)

NoneLost == env.lost = {}

(* At the start no one works.                                              *)
LEMMA WorkInit == Init => WorkInv
<1> SUFFICES ASSUME Init, NEW e \in Epoch, comm.child[e] # "none"
             PROVE  WorkOf(comm, exec[e], toComm[e], e) /\ LinesOf(comm, exec[e], toComm[e], e)
  BY DEF WorkInv, TurnsAgree
<1>1. /\ comm.pipe[e] = <<>> /\ comm.after[e].prompt = None /\ toComm[e] = <<>>
      /\ exec[e].pc = "idle" /\ exec[e].queued = None
  BY DEF Init, NoPrompt, NewExec
<1>2. PromptsOf(<<>>) = {} /\ ~Working(exec[e], <<>>) /\ "idle" \in HasAgent
      /\ \A i : i \notin 1 .. Len(<<>>)
  BY <1>1, EmptySeq DEF PromptsOf, Working, InTurn, HasAgent
<1>3. QED BY <1>1, <1>2 DEF WorkOf, LinesOf

(* Every step keeps the agreement and drops no prompt.                     *)
LEMMA WorkStep ==
  NoStartFaults /\ TypeOK /\ OneWait /\ OneInv /\ OneInv' /\ WorkInv /\ [Next]_vars
    => WorkInv' /\ (NoneLost => NoneLost')
<1> SUFFICES ASSUME NoStartFaults, TypeOK, OneWait, OneInv, OneInv', WorkInv, [Next]_vars
             PROVE  WorkInv' /\ env'.lost = env.lost
  BY DEF NoneLost
<1>0. env \in EnvType
  BY DEF TypeOK
<1>1. CASE UNCHANGED vars
  <2>1. comm' = comm /\ exec' = exec /\ toComm' = toComm /\ env' = env
    BY <1>1 DEF vars
  <2>2. QED BY <2>1 DEF WorkInv
<1>2. CASE User \/ IdleWindowPasses
  <2>1. env'.lost = env.lost
    BY <1>0, <1>2 DEF User, TypePrompt, TypeAnswer, Cancel, Halt, Shutdown, IdleWindowPasses, EnvType
  <2>2. QED BY <1>2, <2>1, UserAgrees
<1>3. CASE ShutdownDone
  BY <1>3, ShutdownAgrees DEF ShutdownDone
<1>4. ASSUME NEW e \in Epoch, CommStep(e) PROVE WorkInv' /\ env'.lost = env.lost
  <2>1. env'.lost = env.lost
    BY <1>0, <1>4 DEF CommStep, RecvHello, RecvOpenAck, RecvEvent, AppendFails, RecvAsk,
                      RecvHalted, OnChildExit, EnvType
  <2>2. QED BY <1>4, <2>1, StartAgrees, EventAgrees, HaltedAgrees, ChildExitAgrees DEF CommStep
<1>5. ASSUME NEW e \in Epoch, ExecStep(e) PROVE WorkInv' /\ env'.lost = env.lost
  <2>1. CASE SessionOpened(e)
    BY <2>1, OpenedAgrees DEF SessionOpened
  <2>2. QED BY <1>5, <2>1, ReceivingAgrees, ActingAgrees DEF ExecStep
<1>6. ASSUME NEW e \in Epoch, HelloTimeout(e) \/ OpenTimeout(e) PROVE FALSE
  BY <1>6 DEF HelloTimeout, OpenTimeout, NoStartFaults
<1>7. ASSUME NEW e \in Epoch, Exit(e) PROVE WorkInv' /\ env'.lost = env.lost
  BY <1>0, <1>7, EndAgrees DEF Exit, EnvType
<1>8. QED BY <1>1, <1>2, <1>3, <1>4, <1>5, <1>6, <1>7 DEF Next

(* Whatever an Executor works on, has queued or is sent is the prompt of   *)
(* the turn that the Communicator has open, unless the run is halted.      *)
THEOREM TurnsAreAgreed ==
  ASSUME NoStartFaults
  PROVE  Spec => [](WorkInv /\ NoneLost)
<1>1. Init => NoneLost
  BY DEF Init, NoneLost
<1>2. /\ TypeOK /\ OneWait /\ OneInv /\ OneInv' /\ WorkInv /\ NoneLost /\ [Next]_vars
        => (WorkInv /\ NoneLost)'
  BY WorkStep
<1>3. QED BY <1>1, <1>2, WorkInit, TypeCorrect, AckIsForItsLine, ExecutorsAreRight, PTL DEF Spec

(* No Executor drops a prompt it was sent, through crashes, restarts,      *)
(* cancels, queued lines and late acknowledgements.                        *)
THEOREM PromptsArrive ==
  ASSUME NoStartFaults
  PROVE  Spec => []NoPromptLost
<1>1. NoneLost => NoPromptLost
  BY DEF NoneLost, NoPromptLost
<1>2. QED BY <1>1, TurnsAreAgreed, PTL

(* No Executor works on a turn that the frontend believes is over.         *)
THEOREM TurnsAreKnown ==
  ASSUME NoStartFaults
  PROVE  Spec => []NoGhostTurn
<1>1. TypeOK /\ WorkInv => NoGhostTurn
  <2> SUFFICES ASSUME TypeOK, WorkInv, NEW e \in Epoch, Alive(e), ~comm.halted,
                      exec[e].pc \in InTurn, exec[e].pc = "finish" => TurnEndSent(e)
               PROVE  comm.turn # "idle" /\ comm.prompt = exec[e].prompt
    BY DEF NoGhostTurn
  <2>1. DOMAIN toComm[e] = 1 .. Len(toComm[e])
    BY DEF TypeOK
  <2>2. Working(exec[e], toComm[e])
    BY <2>1 DEF Working, TurnEndSent, EndSaid
  <2>3. QED BY <2>2 DEF WorkInv, TurnsAgree, WorkOf, Alive, Mine
<1>2. QED BY <1>1, TurnsAreAgreed, TypeCorrect, PTL

-----------------------------------------------------------------------------
(* A call is closed once, as long as no fault hits a start.                *)

InCall == {"request", "tool", "ask"}
Closes(m) == m.type = "event" /\ m.line.kind = "tool_call_finished"
Asks(m)   == m.type = "event" /\ m.line.kind = "tool_call_requested"
Closed(s) == CallsIn(s, "tool_call_finished")
Calls(s)  == CallsIn(s, "tool_call_requested") \cup Closed(s)

(* The finish lines on their way close calls that are open in the store,   *)
(* each a call of its own; the call that the Executor x works on is not    *)
(* among them and is open too; n is the number of calls that were made.    *)
(* Before its session is open an Executor closes nothing.                  *)
ClosesOf(x, q, s, n) ==
  /\ \A i \in 1 .. Len(q) :
       /\ Asks(q[i]) => q[i].line.call \in 1 .. n
       /\ Closes(q[i]) =>
            /\ q[i].line.call \in 1 .. n /\ q[i].line.call \notin Closed(s)
            /\ x.pc \in HasAgent \cup {"dead"}
            /\ x.pc \in InCall => q[i].line.call # x.call
            /\ \A j \in 1 .. Len(q) : Closes(q[j]) /\ q[j].line.call = q[i].line.call => i = j
  /\ x.pc \in InCall => x.call \in 1 .. n /\ x.call \notin Closed(s)

CloseInv ==
  /\ ClosedOnce
  /\ Calls(store) \subseteq 1 .. env.calls
  /\ \A e \in Epoch : e = comm.live => ClosesOf(exec[e], toComm[e], store, env.calls)

(* An Executor that is not yet there closes nothing.                       *)
LEMMA NoneCloses ==
  ASSUME NEW s, NEW n
  PROVE  ClosesOf(NewExec, <<>>, s, n)
BY EmptySeq DEF ClosesOf, NewExec, InCall

(* The handlers of the Communicator make a later Executor the live one, or *)
(* none.                                                                   *)
Later(c, d) == d.epoch >= c.epoch /\ (d.live \in {c.live, 0} \/ d.live > c.epoch)

(* A message changes neither.                                              *)
LEMMA SendLater ==
  ASSUME NEW c \in CommType, NEW m
  PROVE  Later(c, SendLive(c, m))
<1>1. c.epoch \in Nat
  BY DEF CommType
<1>2. SendLive(c, m).epoch = c.epoch /\ SendLive(c, m).live = c.live
  BY DEF CommType, SendLive, SendTo
<1>3. QED BY <1>1, <1>2 DEF Later

(* A respawn makes the next epoch live.                                    *)
LEMMA RespawnLater ==
  ASSUME NEW c \in CommType, NEW a
  PROVE  Later(c, Respawn(c, a))
<1>1. c.epoch \in Nat
  BY DEF CommType
<1>2. CASE c.shutting # "no"
  BY <1>1, <1>2 DEF Respawn, Later
<1>3. CASE c.shutting = "no"
  <2>1. Respawn(c, a).epoch = c.epoch + 1 /\ Respawn(c, a).live = c.epoch + 1
    BY <1>3 DEF CommType, Respawn, SpawnAndHello
  <2>2. QED BY <1>1, <2>1 DEF Later
<1>4. QED BY <1>2, <1>3

(* So does a prompt, if it respawns at all.                                *)
LEMMA SubmitLater ==
  ASSUME NEW c \in CommType, NEW p \in Prompt
  PROVE  Later(c, SubmitPrompt(c, p))
<1> DEFINE d == StartTurn(c, p)
           x == [d EXCEPT !.stopped = FALSE]
<1>1. d \in CommType /\ d.epoch = c.epoch /\ d.live = c.live
  BY DEF CommType, StartTurn
<1>2. x \in CommType /\ x.epoch = c.epoch /\ x.live = c.live
  BY <1>1 DEF CommType
<1>3. \/ SubmitPrompt(c, p) = c
      \/ SubmitPrompt(c, p) = Respawn(x, [prompt |-> p, note |-> FALSE])
      \/ SubmitPrompt(c, p) = SendLive(d, PromptMsg(p, FALSE))
  BY DEF SubmitPrompt, SendPrompt
<1> HIDE DEF d, x
<1>4. Later(x, Respawn(x, [prompt |-> p, note |-> FALSE])) /\ Later(d, SendLive(d, PromptMsg(p, FALSE)))
  BY <1>1, <1>2, RespawnLater, SendLater
<1>5. c.epoch \in Nat
  BY DEF CommType
<1>6. CASE SubmitPrompt(c, p) = c
  BY <1>5, <1>6 DEF Later
<1>7. CASE SubmitPrompt(c, p) = Respawn(x, [prompt |-> p, note |-> FALSE])
  BY <1>2, <1>4, <1>7 DEF Later
<1>8. CASE SubmitPrompt(c, p) = SendLive(d, PromptMsg(p, FALSE))
  BY <1>1, <1>4, <1>8 DEF Later
<1>9. QED BY <1>3, <1>6, <1>7, <1>8

(* And the end of a turn.                                                  *)
LEMMA TurnEndLater ==
  ASSUME NEW c \in CommType
  PROVE  Later(c, OnTurnEnd(c)) /\ Later(c, OnTurnEnd(EndTurn(c)))
<1>1. ASSUME NEW x \in CommType PROVE Later(x, OnTurnEnd(x))
  <2> DEFINE d == [x EXCEPT !.slot = None]
  <2>1. d \in CommType /\ d.epoch = x.epoch /\ d.live = x.live /\ x.epoch \in Nat
    BY DEF CommType
  <2>2. OnTurnEnd(x) = IF x.slot = None \/ x.shutting # "no" THEN d ELSE SubmitPrompt(d, x.slot)
    BY DEF OnTurnEnd
  <2> HIDE DEF d
  <2>3. x.slot # None => x.slot \in Prompt
    BY DEF CommType
  <2>4. x.slot # None => Later(d, SubmitPrompt(d, x.slot))
    BY <2>1, <2>3, SubmitLater
  <2>5. QED BY <2>1, <2>2, <2>4 DEF Later
<1>2. EndTurn(c) \in CommType /\ EndTurn(c).epoch = c.epoch /\ EndTurn(c).live = c.live
  BY DEF CommType, EndTurn
<1>3. Later(EndTurn(c), OnTurnEnd(EndTurn(c)))
  BY <1>1, <1>2
<1>4. QED BY <1>1, <1>2, <1>3 DEF Later

(* And the restart rule.                                                   *)
LEMMA DecideLater ==
  ASSUME NEW c \in CommType
  PROVE  Later(c, DecideOnExit(c))
<1> DEFINE n == c.used + 1
           k == c.idleExits + 1
           u == [c EXCEPT !.used = n]
           w == [c EXCEPT !.idleExits = k]
           v == [EndTurn(c) EXCEPT !.stopped = TRUE]
           y == [c EXCEPT !.idleExits = k, !.stopped = TRUE]
<1>1. n \in Nat /\ k \in Nat
  BY DEF CommType
<1>2. \/ DecideOnExit(c) = Respawn(u, [prompt |-> c.prompt, note |-> TRUE])
      \/ DecideOnExit(c) = OnTurnEnd(v)
      \/ DecideOnExit(c) = Respawn(w, NoPrompt)
      \/ DecideOnExit(c) = y
  BY DEF DecideOnExit
<1> HIDE DEF n, k
<1>3. /\ u \in CommType /\ u.epoch = c.epoch /\ u.live = c.live
      /\ w \in CommType /\ w.epoch = c.epoch /\ w.live = c.live
      /\ y.epoch = c.epoch /\ y.live = c.live /\ c.epoch \in Nat
  BY <1>1 DEF CommType
<1>4. v \in CommType /\ v.epoch = c.epoch /\ v.live = c.live
  BY DEF CommType, EndTurn
<1> HIDE DEF u, v, w, y
<1>5. Later(u, Respawn(u, [prompt |-> c.prompt, note |-> TRUE])) /\ Later(w, Respawn(w, NoPrompt))
      /\ Later(v, OnTurnEnd(v))
  BY <1>3, <1>4, RespawnLater, TurnEndLater
<1>6. QED BY <1>3, <1>4, <1>2, <1>5 DEF Later

-----------------------------------------------------------------------------
(* The kinds of steps, by what becomes of the lines.                       *)

(* r is q without its first messages, or empty.                            *)
Rest(r, q) == \E k \in Nat : \A i \in 1 .. Len(r) : i + k \in 1 .. Len(q) /\ r[i] = q[i + k]

(* Reading a pipe leaves the rest of it.                                   *)
LEMMA ReadRest ==
  ASSUME TypeOK,
         \/ UNCHANGED toComm
         \/ \E e \in Epoch : toComm[e] # <<>> /\ toComm' = [toComm EXCEPT ![e] = Tail(@)]
         \/ \E e \in Epoch : toComm' = [toComm EXCEPT ![e] = <<>>]
  PROVE  \A f \in Epoch : Rest(toComm'[f], toComm[f])
<1> SUFFICES ASSUME NEW f \in Epoch PROVE Rest(toComm'[f], toComm[f])
  OBVIOUS
<1> DEFINE q == toComm[f]
<1>1. q \in Seq(ToCommMsg) /\ Len(q) \in Nat
  BY DEF TypeOK
<1>2. toComm'[f] = q \/ (q # <<>> /\ toComm'[f] = Tail(q)) \/ toComm'[f] = <<>>
  BY DEF TypeOK
<1>3. CASE toComm'[f] = q
  <2>1. \A i \in 1 .. Len(q) : i + 0 \in 1 .. Len(q) /\ q[i] = q[i + 0]
    BY <1>1
  <2>2. QED BY <1>3, <2>1 DEF Rest
<1>4. CASE q # <<>> /\ toComm'[f] = Tail(q)
  <2> DEFINE r == Tail(q)
  <2>1. Len(r) \in Nat /\ Len(q) = Len(r) + 1 /\ \A i \in 1 .. Len(r) : r[i] = q[i + 1]
    BY <1>1, <1>4
  <2> HIDE DEF r, q
  <2>2. \A i \in 1 .. Len(r) : i + 1 \in 1 .. Len(q) /\ r[i] = q[i + 1]
    BY <2>1
  <2>3. Rest(r, q)
    BY <2>2 DEF Rest
  <2>4. QED BY <1>4, <2>3 DEF r, q
<1>5. CASE toComm'[f] = <<>>
  <2>1. \A i : i \notin 1 .. Len(<<>>)
    BY EmptySeq
  <2>2. QED BY <1>5, <2>1 DEF Rest
<1>6. QED BY <1>2, <1>3, <1>4, <1>5

(* What an Executor with the rest of its pipe closes: it may have been     *)
(* stopped or have gone on, but to no new call.                            *)
LEMMA RestCloses ==
  ASSUME NEW x, NEW q, NEW s, NEW n, ClosesOf(x, q, s, n),
         NEW y, NEW r, Rest(r, q),
         y.pc \in InCall => x.pc \in InCall /\ y.call = x.call,
         x.pc \in HasAgent \cup {"dead"} => y.pc \in HasAgent \cup {"dead"}
  PROVE  ClosesOf(y, r, s, n)
<1>1. PICK k \in Nat : \A i \in 1 .. Len(r) : i + k \in 1 .. Len(q) /\ r[i] = q[i + k]
  BY DEF Rest
<1>2. ASSUME NEW i \in 1 .. Len(r)
      PROVE  /\ Asks(r[i]) => r[i].line.call \in 1 .. n
             /\ Closes(r[i]) =>
                  /\ r[i].line.call \in 1 .. n /\ r[i].line.call \notin Closed(s)
                  /\ y.pc \in HasAgent \cup {"dead"}
                  /\ y.pc \in InCall => r[i].line.call # y.call
  <2>1. i + k \in 1 .. Len(q) /\ r[i] = q[i + k]
    BY <1>1
  <2>2. QED BY <2>1 DEF ClosesOf
<1>3. ASSUME NEW i \in 1 .. Len(r), NEW j \in 1 .. Len(r), Closes(r[i]), Closes(r[j]),
             r[j].line.call = r[i].line.call
      PROVE  i = j
  <2>1. i + k \in 1 .. Len(q) /\ r[i] = q[i + k] /\ j + k \in 1 .. Len(q) /\ r[j] = q[j + k]
    BY <1>1
  <2>2. i + k = j + k
    BY <1>3, <2>1 DEF ClosesOf
  <2>3. i \in Int /\ j \in Int /\ k \in Int
    OBVIOUS
  <2>4. QED BY <2>2, <2>3
<1>4. y.pc \in InCall => y.call \in 1 .. n /\ y.call \notin Closed(s)
  BY DEF ClosesOf
<1>5. QED BY <1>2, <1>3, <1>4 DEF ClosesOf

(* A later live Executor is a new one.                                     *)
LEMMA LaterIsNew ==
  ASSUME OneInv, Later(comm, comm'), NEW e \in Epoch, e = comm'.live
  PROVE  e = comm.live \/ (exec[e] = NewExec /\ toComm[e] = <<>>)
<1>1. CASE e > comm.epoch
  BY <1>1 DEF OneInv, CommInvariant, OneLive, ProcessesAreRight, ExecIsRight
<1>2. CASE e \in {comm.live, 0}
  BY <1>2 DEF Epoch
<1>3. QED BY <1>1, <1>2 DEF Later

(* Nothing is said and nothing stored.                                     *)
LEMMA SilentCloses ==
  ASSUME OneInv, CloseInv, Later(comm, comm'), UNCHANGED store, env'.calls = env.calls,
         \A f \in Epoch :
           /\ Rest(toComm'[f], toComm[f])
           /\ exec'[f].pc \in InCall => exec[f].pc \in InCall /\ exec'[f].call = exec[f].call
           /\ exec[f].pc \in HasAgent \cup {"dead"} => exec'[f].pc \in HasAgent \cup {"dead"}
  PROVE  CloseInv'
<1>1. ASSUME NEW e \in Epoch, e = comm'.live
      PROVE  ClosesOf(exec'[e], toComm'[e], store, env.calls)
  <2>1. ClosesOf(exec[e], toComm[e], store, env.calls)
    BY <1>1, LaterIsNew, NoneCloses DEF CloseInv
  <2>2. QED BY <2>1, RestCloses
<1>2. ClosedOnce' /\ Calls(store') \subseteq 1 .. env'.calls
  BY DEF CloseInv, ClosedOnce
<1>3. QED BY <1>1, <1>2 DEF CloseInv

(* The Communicator reads a line and stores it.                            *)
LEMMA StoredCloses ==
  ASSUME TypeOK, OneInv, CloseInv, Later(comm, comm'), NEW e \in Epoch,
         comm.child[e] # "gone", toComm[e] # <<>>,
         toComm' = [toComm EXCEPT ![e] = Tail(@)], UNCHANGED <<exec, env>>,
         NEW l \in LineType, store' = Append(store, l),
         l.kind \in {"tool_call_requested", "tool_call_finished"} =>
           Head(toComm[e]).type = "event" /\ Head(toComm[e]).line = l
  PROVE  CloseInv'
<1> DEFINE q == toComm[e]
           r == Tail(q)
           n == env.calls
           x == exec[e]
<1>1. e = comm.live
  BY SpeakerIsLive
<1>2. ClosesOf(x, q, store, n) /\ Calls(store) \subseteq 1 .. n /\ ClosedOnce
  BY <1>1 DEF CloseInv
<1>3. /\ q \in Seq(ToCommMsg) /\ Len(q) \in Nat /\ 1 \in 1 .. Len(q) /\ Head(q) = q[1]
      /\ Len(r) \in Nat /\ \A i \in 1 .. Len(r) : i + 1 \in 1 .. Len(q) /\ i + 1 # 1 /\ r[i] = q[i + 1]
  <2>1. q \in Seq(ToCommMsg) /\ q # <<>>
    BY DEF TypeOK
  <2>2. Len(q) \in Nat /\ Len(r) \in Nat /\ Len(q) = Len(r) + 1 /\ Head(q) = q[1]
        /\ \A i \in 1 .. Len(r) : r[i] = q[i + 1]
    BY <2>1
  <2> HIDE DEF q, r
  <2>3. QED BY <2>1, <2>2
<1>4. toComm'[e] = r /\ \A f \in Epoch : f # e => toComm'[f] = toComm[f]
  BY DEF TypeOK
<1>5. store \in Seq(LineType)
  BY DEF TypeOK
<1>6. /\ Closed(store') = Closed(store) \cup (IF l.kind = "tool_call_finished" THEN {l.call} ELSE {})
      /\ CallsIn(store', "tool_call_requested")
           = CallsIn(store, "tool_call_requested") \cup (IF l.kind = "tool_call_requested" THEN {l.call} ELSE {})
  BY <1>5, CallsOfAppend DEF Closed
<1> HIDE DEF q, r, n, x
<1>7. /\ l.kind = "tool_call_requested" => l.call \in 1 .. n
      /\ l.kind = "tool_call_finished" =>
           /\ l.call \in 1 .. n /\ l.call \notin Closed(store) /\ x.pc \in HasAgent \cup {"dead"}
           /\ x.pc \in InCall => x.call # l.call
           /\ \A i \in 1 .. Len(r) : Closes(r[i]) => r[i].line.call # l.call
  <2>1. l.kind = "tool_call_requested" => Asks(q[1]) /\ q[1].line = l
    BY <1>3 DEF Asks, q
  <2>2. l.kind = "tool_call_finished" => Closes(q[1]) /\ q[1].line = l
    BY <1>3 DEF Closes, q
  <2>3. \A i \in 1 .. Len(r) : Closes(r[i]) /\ Closes(q[1]) => r[i].line.call # q[1].line.call
    BY <1>2, <1>3 DEF ClosesOf
  <2>4. QED BY <1>2, <1>3, <2>1, <2>2, <2>3 DEF ClosesOf
<1>8. Calls(store') \subseteq 1 .. n
  BY <1>2, <1>6, <1>7 DEF Calls
<1>9. ClosesOf(x, r, store', n)
  <2>1. Rest(r, q)
    BY <1>3 DEF Rest
  <2>2. ClosesOf(x, r, store, n)
    BY <1>2, <2>1, RestCloses
  <2>3. CASE l.kind # "tool_call_finished"
    BY <1>6, <2>2, <2>3 DEF ClosesOf
  <2>4. CASE l.kind = "tool_call_finished"
    BY <1>6, <1>7, <2>2, <2>4 DEF ClosesOf
  <2>5. QED BY <2>3, <2>4
<1>10. ClosedOnce'
  <2>1. /\ Len(store) \in Nat /\ DOMAIN store = 1 .. Len(store)
        /\ DOMAIN store' = 1 .. Len(store) + 1 /\ store'[Len(store) + 1] = l
        /\ \A i \in 1 .. Len(store) : store'[i] = store[i]
    BY <1>5, AppendFacts
  <2>2. \A i \in 1 .. Len(store) : store[i].kind = "tool_call_finished" => store[i].call \in Closed(store)
    BY <2>1 DEF Closed, CallsIn
  <2>3. \A i \in 1 .. Len(store) : store[i].kind = "tool_call_finished" /\ l.kind = "tool_call_finished" =>
          store[i].call # l.call
    BY <1>7, <2>2
  <2>4. \A i \in DOMAIN store' : i \in 1 .. Len(store) \/ i = Len(store) + 1
    BY <2>1
  <2>5. QED BY <1>2, <2>1, <2>3, <2>4 DEF ClosedOnce
<1>11. ASSUME NEW f \in Epoch, f = comm'.live
       PROVE  ClosesOf(exec'[f], toComm'[f], store', env'.calls)
  <2>1. CASE f = e
    BY <1>4, <1>9, <2>1 DEF x, n
  <2>2. CASE f # e
    <3>1. exec[f] = NewExec /\ toComm[f] = <<>>
      BY <1>1, <1>11, <2>2, LaterIsNew
    <3>2. exec'[f] = NewExec /\ toComm'[f] = <<>>
      BY <1>4, <2>2, <3>1
    <3>3. QED BY <3>2, NoneCloses
  <2>3. QED BY <2>1, <2>2
<1>12. QED BY <1>8, <1>10, <1>11 DEF CloseInv, n

(* An Executor that lives is the live one.                                 *)
LEMMA AliveIsLive ==
  ASSUME OneInv, NEW e \in Epoch, Alive(e)
  PROVE  e = comm.live
BY DEF Alive, OneInv, CommInvariant, OneLive, ProcessesAreRight, ExecIsRight

(* An Executor adds a line or none: it closes the call it works on and     *)
(* leaves it, goes on with it, or begins the next.                         *)
LEMMA SayCloses ==
  ASSUME TypeOK, OneInv, CloseInv, NEW e \in Epoch, Alive(e), comm'.live = comm.live,
         NEW x, NEW m, exec' = [exec EXCEPT ![e] = x],
         UNCHANGED toComm \/ Say(e, m), UNCHANGED store,
         NEW k \in {0, 1}, env'.calls = env.calls + k,
         Asks(m) => m.line.call \in 1 .. env'.calls,
         Closes(m) => /\ exec[e].pc \in InCall /\ m.line.call = exec[e].call
                      /\ x.pc \in HasAgent \ InCall,
         x.pc \in InCall => \/ exec[e].pc \in InCall /\ x.call = exec[e].call
                            \/ k = 1 /\ x.call = env'.calls,
         exec[e].pc \in HasAgent => x.pc \in HasAgent \cup {"dead"}
  PROVE  CloseInv'
<1> DEFINE q == toComm[e]
           r == toComm'[e]
           n == env.calls
           l == env'.calls
<1>1. e = comm.live /\ exec[e].pc # "dead"
  BY AliveIsLive DEF Alive
<1>2. ClosesOf(exec[e], q, store, n) /\ Calls(store) \subseteq 1 .. n /\ ClosedOnce
  BY <1>1 DEF CloseInv
<1>3. n \in Nat /\ l = n + k /\ 1 .. n \subseteq 1 .. l /\ (k = 1 => l \in 1 .. l /\ l \notin 1 .. n)
  BY DEF TypeOK, EnvType
<1>4. exec'[e] = x /\ (r = q \/ r = Append(q, m)) /\ \A f \in Epoch : f # e => exec'[f] = exec[f] /\ toComm'[f] = toComm[f]
  BY DEF TypeOK, Say
<1>5. q \in Seq(ToCommMsg \cup {m}) /\ m \in ToCommMsg \cup {m}
  <2>1. q \in Seq(ToCommMsg)
    BY DEF TypeOK
  <2> HIDE DEF q
  <2>2. QED BY <2>1, SeqMonotonic
<1> HIDE DEF q, r, n, l
<1>6. /\ \A i \in 1 .. Len(r) : (i \in 1 .. Len(q) /\ r[i] = q[i]) \/ (i = Len(q) + 1 /\ r[i] = m)
  <2>1. CASE r = q
    BY <2>1
  <2>2. CASE r = Append(q, m)
    <3>1. /\ Len(q) \in Nat /\ Len(r) = Len(q) + 1 /\ r[Len(q) + 1] = m
          /\ \A i \in 1 .. Len(q) : r[i] = q[i]
      BY <1>5, <2>2, AppendFacts, AppendProperties
    <3>2. QED BY <3>1
  <2>3. QED BY <1>4, <2>1, <2>2
<1>7. \A i \in 1 .. Len(q) : Closes(q[i]) => q[i].line.call \in 1 .. n
  BY <1>2 DEF ClosesOf
<1>8. x.pc \in InCall => /\ x.call \in 1 .. l /\ x.call \notin Closed(store)
                         /\ \A i \in 1 .. Len(q) : Closes(q[i]) => q[i].line.call # x.call
  <2>1. CASE exec[e].pc \in InCall /\ x.call = exec[e].call
    BY <1>2, <1>3, <2>1 DEF ClosesOf
  <2>2. CASE k = 1 /\ x.call = l
    BY <1>2, <1>3, <1>7, <2>2 DEF Calls
  <2>3. QED BY <2>1, <2>2 DEF l
<1>9. ClosesOf(x, r, store, l)
  <2>1. ASSUME NEW i \in 1 .. Len(r), Asks(r[i]) PROVE r[i].line.call \in 1 .. l
    BY <1>2, <1>3, <1>6, <2>1 DEF ClosesOf, l
  <2>2. ASSUME NEW i \in 1 .. Len(r), Closes(r[i])
        PROVE  /\ r[i].line.call \in 1 .. l /\ r[i].line.call \notin Closed(store)
               /\ x.pc \in HasAgent \cup {"dead"}
               /\ x.pc \in InCall => r[i].line.call # x.call
    <3>1. CASE i \in 1 .. Len(q) /\ r[i] = q[i]
      <4>1. /\ r[i].line.call \in 1 .. n /\ r[i].line.call \notin Closed(store)
            /\ exec[e].pc \in HasAgent \cup {"dead"}
        BY <1>2, <2>2, <3>1 DEF ClosesOf
      <4>2. QED BY <1>1, <1>3, <1>8, <2>2, <3>1, <4>1
    <3>2. CASE r[i] = m
      BY <1>2, <1>3, <2>2, <3>2 DEF ClosesOf
    <3>3. QED BY <1>6, <3>1, <3>2
  <2>3. ASSUME NEW i \in 1 .. Len(r), NEW j \in 1 .. Len(r), Closes(r[i]), Closes(r[j]),
               r[j].line.call = r[i].line.call
        PROVE  i = j
    <3>1. \A u \in 1 .. Len(q) : Closes(q[u]) /\ Closes(m) => q[u].line.call # m.line.call
      BY <1>2 DEF ClosesOf
    <3>2. CASE i \in 1 .. Len(q) /\ r[i] = q[i] /\ j \in 1 .. Len(q) /\ r[j] = q[j]
      BY <1>2, <2>3, <3>2 DEF ClosesOf
    <3>3. QED BY <1>6, <2>3, <3>1, <3>2
  <2>4. QED BY <1>8, <2>1, <2>2, <2>3 DEF ClosesOf
<1>10. ASSUME NEW f \in Epoch, f = comm'.live
       PROVE  ClosesOf(exec'[f], toComm'[f], store, env'.calls)
  BY <1>1, <1>4, <1>9, <1>10 DEF r, l
<1>11. ClosedOnce' /\ Calls(store') \subseteq 1 .. env'.calls
  BY <1>2, <1>3 DEF ClosedOnce, l
<1>12. QED BY <1>10, <1>11 DEF CloseInv

(* The session opens: the calls that the store shows open are closed, each *)
(* once, and nothing that closes one of them was on its way.               *)
LEMMA OpenedCloses ==
  ASSUME TypeOK, OneInv, CloseInv, NEW e \in Epoch, SessionOpened(e)
  PROVE  CloseInv'
<1> DEFINE n == env.calls
           O == OpenCalls(store)
           M == {EventMsg(Line("tool_call_finished", None, c), FALSE) : c \in O}
<1>1. PICK order \in [1 .. Cardinality(O) -> O] :
        /\ \A i, j \in DOMAIN order : i < j => order[i] < order[j]
        /\ toComm' = [toComm EXCEPT ![e] = @
             \o [i \in DOMAIN order |-> EventMsg(Line("tool_call_finished", None, order[i]), FALSE)]
             \o <<Signal("open_ack")>>]
  BY DEF SessionOpened
<1> DEFINE f == [i \in DOMAIN order |-> EventMsg(Line("tool_call_finished", None, order[i]), FALSE)]
           a == <<Signal("open_ack")>>
           q == toComm[e]
           r == (q \o f) \o a
           x == [exec[e] EXCEPT !.pc = "idle"]
<1>2. /\ e = comm.live /\ exec[e].pc = "opening" /\ UNCHANGED <<comm, store, env>>
      /\ exec' = [exec EXCEPT ![e] = x] /\ exec'[e] = x /\ x.pc = "idle"
  <2>1. exec \in [Epoch -> ExecType] /\ exec[e] \in ExecType
    BY DEF TypeOK
  <2>2. QED BY <2>1, AliveIsLive DEF SessionOpened, ExecType
<1>3. ClosesOf(exec[e], q, store, n) /\ Calls(store) \subseteq 1 .. n /\ ClosedOnce
  BY <1>2 DEF CloseInv
<1>4. O \subseteq 1 .. n /\ \A c \in O : c \notin Closed(store)
  BY <1>3 DEF OpenCalls, Calls, Closed
<1>5. Cardinality(O) \in Nat
  BY OpenCallsAreFinite, FS_CardinalityType
<1>6. \A i, j \in DOMAIN order : order[i] = order[j] => i = j
  <2>1. \A i \in DOMAIN order : i \in Nat /\ order[i] \in Nat
    BY <1>4, <1>5
  <2>2. \A i, j \in DOMAIN order : i < j \/ j < i \/ i = j
    BY <2>1
  <2>3. QED BY <1>1, <2>1, <2>2
<1>7. /\ \A i \in DOMAIN order : /\ f[i].type = "event" /\ f[i].line.kind = "tool_call_finished"
                                 /\ f[i].line.call = order[i] /\ order[i] \in O
      /\ DOMAIN order = 1 .. Cardinality(O)
  BY DEF EventMsg, Line
<1>8. f \in Seq(M) /\ Len(f) = Cardinality(O)
  <2>1. f \in [1 .. Cardinality(O) -> M]
    OBVIOUS
  <2> HIDE DEF f, M, O
  <2>2. QED BY <1>5, <2>1, FunctionIsSeq, LenProperties
<1>9. a \in Seq({Signal("open_ack")}) /\ Len(a) = 1 /\ a[1].type = "open_ack"
  BY DEF Signal
<1>10. q \in Seq(ToCommMsg) /\ toComm'[e] = r
  BY <1>1 DEF TypeOK
<1> DEFINE S == (ToCommMsg \cup M) \cup {Signal("open_ack")}
<1>11. q \in Seq(S) /\ f \in Seq(S) /\ a \in Seq(S)
  <2> HIDE DEF q, f, a, M
  <2>1. QED BY <1>8, <1>9, <1>10, SeqMonotonic
<1> HIDE DEF n, O, M, f, a, q, S, x
<1>12. /\ Len(q) \in Nat /\ Len(f) \in Nat /\ Len(r) = Len(q) + Len(f) + 1
       /\ \A i \in 1 .. Len(r) :
            \/ i \in 1 .. Len(q) /\ r[i] = q[i]
            \/ i - Len(q) \in 1 .. Len(f) /\ r[i] = f[i - Len(q)]
            \/ r[i] = a[1]
  <2>1. /\ q \o f \in Seq(S) /\ Len(q \o f) = Len(q) + Len(f) /\ Len(q) \in Nat /\ Len(f) \in Nat
        /\ \A i \in 1 .. Len(q) + Len(f) : (q \o f)[i] = IF i <= Len(q) THEN q[i] ELSE f[i - Len(q)]
    BY <1>11, ConcatProperties, LenProperties
  <2> DEFINE p == q \o f
  <2>2. p \in Seq(S) /\ Len(p) = Len(q) + Len(f)
    BY <2>1
  <2> HIDE DEF p
  <2>3. /\ Len(p \o a) = Len(p) + 1
        /\ \A i \in 1 .. Len(p) + 1 : (p \o a)[i] = IF i <= Len(p) THEN p[i] ELSE a[i - Len(p)]
    <3>1. /\ Len(p \o a) = Len(p) + Len(a)
          /\ \A i \in 1 .. Len(p) + Len(a) :
               (p \o a)[i] = IF i <= Len(p) THEN p[i] ELSE a[i - Len(p)]
      BY <1>11, <2>2, ConcatProperties
    <3>2. QED BY <1>9, <3>1
  <2>4. r = p \o a
    BY DEF p
  <2> HIDE DEF r
  <2>5. \A i \in 1 .. Len(r) : i <= Len(p) \/ i - Len(p) = 1
    BY <2>1, <2>2, <2>3, <2>4
  <2>6. \A i \in 1 .. Len(p) :
          \/ i \in 1 .. Len(q) /\ p[i] = q[i]
          \/ i - Len(q) \in 1 .. Len(f) /\ p[i] = f[i - Len(q)]
    BY <2>1, <2>2 DEF p
  <2>7. \A i \in 1 .. Len(r) : (i \in 1 .. Len(p) /\ r[i] = p[i]) \/ r[i] = a[1]
    BY <2>1, <2>2, <2>3, <2>4, <2>5
  <2>8. QED BY <2>1, <2>2, <2>3, <2>4, <2>6, <2>7
<1> HIDE DEF r
<1>13. \A i \in 1 .. Len(q) : ~Closes(q[i]) /\ (Asks(q[i]) => q[i].line.call \in 1 .. n)
  BY <1>2, <1>3 DEF ClosesOf, HasAgent
<1>14. ~Closes(a[1]) /\ ~Asks(a[1])
  BY <1>9 DEF Closes, Asks
<1>15. \A i \in 1 .. Len(f) : ~Asks(f[i]) /\ f[i].line.call = order[i] /\ order[i] \in O
  BY <1>7, <1>8 DEF Asks
<1>16. \A i \in 1 .. Len(r) :
         /\ Asks(r[i]) => r[i].line.call \in 1 .. n
         /\ Closes(r[i]) => i - Len(q) \in 1 .. Len(f) /\ r[i].line.call = order[i - Len(q)]
  BY <1>12, <1>13, <1>14, <1>15
<1>17. \A i, j \in 1 .. Len(r) : Closes(r[i]) /\ Closes(r[j]) /\ r[j].line.call = r[i].line.call => i = j
  <2> SUFFICES ASSUME NEW i \in 1 .. Len(r), NEW j \in 1 .. Len(r), Closes(r[i]), Closes(r[j]),
                      r[j].line.call = r[i].line.call
               PROVE  i = j
    OBVIOUS
  <2>1. i - Len(q) = j - Len(q)
    BY <1>6, <1>7, <1>8, <1>16
  <2>2. QED BY <1>12, <2>1
<1>18. x.pc \notin InCall /\ x.pc \in HasAgent
  BY <1>2 DEF InCall, HasAgent
<1>19. ClosesOf(x, r, store, n)
  BY <1>4, <1>15, <1>16, <1>17, <1>18 DEF ClosesOf
<1>20. ASSUME NEW g \in Epoch, g = comm'.live
       PROVE  ClosesOf(exec'[g], toComm'[g], store, env'.calls)
  BY <1>2, <1>10, <1>19, <1>20 DEF n
<1>21. ClosedOnce' /\ Calls(store') \subseteq 1 .. env'.calls
  BY <1>2, <1>3 DEF ClosedOnce, n
<1>22. QED BY <1>2, <1>20, <1>21 DEF CloseInv

-----------------------------------------------------------------------------
(* The steps.                                                              *)

(* The user, the clock and the end of a shutdown.                          *)
LEMMA UserCloses ==
  ASSUME TypeOK, OneInv, CloseInv, User \/ IdleWindowPasses \/ ShutdownDone
  PROVE  CloseInv'
<1>1. comm \in CommType /\ comm.epoch \in Nat
  BY DEF OneInv, CommInvariant, CommType
<1>2. UNCHANGED <<toComm, store>> /\ env'.calls = env.calls
  BY DEF User, TypePrompt, TypeAnswer, Cancel, Halt, Shutdown, IdleWindowPasses, ShutdownDone, TypeOK, EnvType
<1>3. \A f \in Epoch :
        /\ exec'[f].pc \in InCall => exec[f].pc \in InCall /\ exec'[f].call = exec[f].call
        /\ exec[f].pc \in HasAgent \cup {"dead"} => exec'[f].pc \in HasAgent \cup {"dead"}
  <2>1. CASE UNCHANGED exec
    BY <2>1
  <2>2. CASE ShutdownDone
    BY <2>2 DEF ShutdownDone, DeadExec, NewExec, InCall
  <2>3. QED BY <2>1, <2>2 DEF User, TypePrompt, TypeAnswer, Cancel, Halt, Shutdown, IdleWindowPasses
<1>4. Later(comm, comm')
  <2>1. ASSUME NEW p \in Prompt, TypePrompt(p) PROVE Later(comm, comm')
    <3>1. CASE comm.turn # "idle"
      <4>1. comm' = [comm EXCEPT !.slot = p]
        BY <2>1, <3>1 DEF TypePrompt
      <4>2. QED BY <1>1, <4>1 DEF Later, CommType
    <3>2. CASE comm.turn = "idle"
      BY <1>1, <2>1, <3>2, SubmitLater DEF TypePrompt
    <3>3. QED BY <3>1, <3>2
  <2>2. ASSUME TypeAnswer PROVE Later(comm, comm')
    <3> DEFINE d == SendLive(comm, AnswerMsg(comm.ask))
               x == Answered(d)
    <3>1. Later(comm, d)
      BY <1>1, SendLater
    <3>2. d.epoch = comm.epoch /\ d.live = comm.live /\ x.epoch = d.epoch /\ x.live = d.live
          /\ [x EXCEPT !.ask = None].epoch = d.epoch /\ [x EXCEPT !.ask = None].live = d.live
      BY <1>1 DEF CommType, SendLive, SendTo, Answered
    <3>3. comm' = [x EXCEPT !.ask = None]
      BY <2>2 DEF TypeAnswer
    <3>4. QED BY <3>1, <3>2, <3>3 DEF Later
  <2>3. ASSUME Cancel \/ Halt PROVE Later(comm, comm')
    BY <1>1, <2>3, SendLater DEF Cancel, Halt
  <2>4. ASSUME Shutdown PROVE Later(comm, comm')
    <3> DEFINE d == SendLive(comm, Signal("shutdown"))
    <3>1. d.epoch = comm.epoch /\ d.live = comm.live
          /\ [d EXCEPT !.shutting = "stopping"].epoch = d.epoch
          /\ [d EXCEPT !.shutting = "stopping"].live = d.live
      BY <1>1 DEF CommType, SendLive, SendTo
    <3>2. comm' = [d EXCEPT !.shutting = "stopping"]
      BY <2>4 DEF Shutdown
    <3>3. QED BY <1>1, <3>1, <3>2 DEF Later
  <2>5. ASSUME IdleWindowPasses PROVE Later(comm, comm')
    <3>1. comm'.epoch = comm.epoch /\ comm'.live = comm.live
      BY <1>1, <2>5 DEF CommType, IdleWindowPasses
    <3>2. QED BY <1>1, <3>1 DEF Later
  <2>6. ASSUME ShutdownDone PROVE Later(comm, comm')
    <3>1. comm'.epoch = comm.epoch /\ comm'.live = comm.live
      BY <1>1, <2>6 DEF CommType, ShutdownDone
    <3>2. QED BY <1>1, <3>1 DEF Later
  <2>7. QED BY <2>1, <2>2, <2>3, <2>4, <2>5, <2>6 DEF User
<1>5. QED BY <1>2, <1>3, <1>4, ReadRest, SilentCloses

(* The Communicator receives a message that is no line, or loses a line.   *)
LEMMA HeardCloses ==
  ASSUME TypeOK, OneInv, CloseInv, NEW e \in Epoch,
         RecvHello(e) \/ RecvOpenAck(e) \/ AppendFails(e) \/ RecvAsk(e)
  PROVE  CloseInv'
<1>1. comm \in CommType /\ comm.epoch \in Nat
  BY DEF OneInv, CommInvariant, CommType
<1>2. /\ UNCHANGED <<exec, store>> /\ env'.calls = env.calls
      /\ toComm[e] # <<>> /\ toComm' = [toComm EXCEPT ![e] = Tail(@)]
  BY DEF RecvHello, RecvOpenAck, AppendFails, RecvAsk, CommReceives, TypeOK, EnvType
<1>3. Later(comm, comm)
  BY <1>1 DEF Later
<1>4. Later(comm, comm')
  <2>1. CASE RecvHello(e)
    <3> DEFINE d == [comm EXCEPT !.child[e] = "open"]
    <3>1. SendTo(d, e, Signal("session_open")).epoch = comm.epoch
          /\ SendTo(d, e, Signal("session_open")).live = comm.live
      BY <1>1 DEF CommType, SendTo
    <3>2. comm' = comm \/ comm' = SendTo(d, e, Signal("session_open"))
      BY <2>1 DEF RecvHello
    <3>3. QED BY <1>3, <3>1, <3>2 DEF Later
  <2>2. CASE RecvOpenAck(e)
    <3> DEFINE d == [comm EXCEPT !.child[e] = "up", !.after[e] = NoPrompt]
               a == comm.after[e]
               x == IF a.note /\ d.turn # "idle" THEN [d EXCEPT !.turn = "running"] ELSE d
    <3>1. d \in CommType /\ d.epoch = comm.epoch /\ d.live = comm.live
      BY <1>1 DEF CommType, NoPrompt, After
    <3>2. comm' = comm \/ comm' = AfterOpen(d, a)
      BY <2>2 DEF RecvOpenAck
    <3>3. AfterOpen(d, a) = d \/ AfterOpen(d, a) = SendLive(x, PromptMsg(a.prompt, a.note))
      BY DEF AfterOpen, SendPrompt
    <3> HIDE DEF d, a
    <3>4. x \in CommType /\ x.epoch = d.epoch /\ x.live = d.live
      BY <3>1 DEF CommType
    <3> HIDE DEF x
    <3>5. Later(x, SendLive(x, PromptMsg(a.prompt, a.note)))
      BY <3>4, SendLater
    <3>6. CASE comm' = comm
      BY <1>3, <3>6
    <3>7. CASE comm' = d
      BY <1>1, <3>1, <3>7 DEF Later
    <3>8. CASE comm' = SendLive(x, PromptMsg(a.prompt, a.note))
      BY <3>1, <3>4, <3>5, <3>8 DEF Later
    <3>9. QED BY <3>2, <3>3, <3>6, <3>7, <3>8
  <2>3. CASE AppendFails(e)
    BY <1>3, <2>3 DEF AppendFails, CommReceives, Later
  <2>4. CASE RecvAsk(e)
    <3>1. [WaitForAnswer(comm) EXCEPT !.ask = Head(toComm[e]).call].epoch = comm.epoch
          /\ [WaitForAnswer(comm) EXCEPT !.ask = Head(toComm[e]).call].live = comm.live
      BY <1>1 DEF CommType, WaitForAnswer
    <3>2. QED BY <1>3, <2>4, <3>1 DEF RecvAsk, Later
  <2>5. QED BY <2>1, <2>2, <2>3, <2>4
<1>5. QED BY <1>2, <1>4, ReadRest, SilentCloses

(* It receives a line.                                                     *)
LEMMA EventCloses ==
  ASSUME TypeOK, OneInv, CloseInv, NEW e \in Epoch, RecvEvent(e) \/ RecvHalted(e)
  PROVE  CloseInv'
<1>1. comm \in CommType /\ comm.epoch \in Nat
  BY DEF OneInv, CommInvariant, CommType
<1>2. /\ UNCHANGED <<exec, env>> /\ comm.child[e] # "gone"
      /\ toComm[e] # <<>> /\ toComm' = [toComm EXCEPT ![e] = Tail(@)]
  BY DEF RecvEvent, RecvHalted, CommReceives
<1>3. CASE RecvEvent(e)
  <2> DEFINE l == Head(toComm[e]).line
  <2>1. Head(toComm[e]).type = "event" /\ store' = Append(store, l)
        /\ (comm' = comm \/ comm' = OnTurnEnd(EndTurn(comm)))
    BY <1>3 DEF RecvEvent, CommReceives
  <2>2. l \in LineType
    <3>1. toComm[e] \in Seq(ToCommMsg)
      BY DEF TypeOK
    <3>2. Head(toComm[e]) \in ToCommMsg
      BY <1>2, <3>1, TailFacts
    <3>3. QED BY <2>1, <3>2 DEF ToCommMsg
  <2>3. Later(comm, comm')
    BY <1>1, <2>1, TurnEndLater DEF Later
  <2> HIDE DEF l
  <2>4. l = Head(toComm[e]).line
    BY DEF l
  <2>5. QED BY <1>2, <2>1, <2>2, <2>3, <2>4, StoredCloses
<1>4. CASE RecvHalted(e)
  <2> DEFINE l == Line("halted", None, None)
             d == [comm EXCEPT !.halted = TRUE]
  <2>1. store' = Append(store, l) /\ (comm' = comm \/ comm' = OnTurnEnd(EndTurn(d)))
    BY <1>4 DEF RecvHalted
  <2>2. l \in LineType /\ l.kind = "halted"
    BY DEF Line, LineType, LineKind
  <2>3. d \in CommType /\ d.epoch = comm.epoch /\ d.live = comm.live
    BY <1>1 DEF CommType
  <2> HIDE DEF l, d
  <2>4. Later(d, OnTurnEnd(EndTurn(d)))
    BY <2>3, TurnEndLater
  <2>5. Later(comm, comm')
    BY <1>1, <2>1, <2>3, <2>4 DEF Later
  <2>6. QED BY <1>2, <2>1, <2>2, <2>5, StoredCloses
<1>5. QED BY <1>3, <1>4

(* It notices an exit: what the child wrote and nobody read is discarded.  *)
LEMMA ChildExitCloses ==
  ASSUME TypeOK, OneInv, CloseInv, NEW e \in Epoch, OnChildExit(e)
  PROVE  CloseInv'
<1>1. comm \in CommType /\ comm.epoch \in Nat
  BY DEF OneInv, CommInvariant, CommType
<1>2. /\ UNCHANGED <<exec, store, env>> /\ toComm' = [toComm EXCEPT ![e] = <<>>]
      /\ exec[e].pc = "dead" /\ comm.child[e] # "gone"
  BY DEF OnChildExit
<1>3. e = comm.live
  BY <1>2, SpeakerIsLive
<1> DEFINE c == [comm EXCEPT !.child[e] = "gone", !.pipe[e] = <<>>,
                             !.after[e] = NoPrompt, !.live = IF @ = e THEN 0 ELSE @]
<1>4. c \in CommType /\ c.epoch = comm.epoch /\ c.live = 0 /\ c.shutting = comm.shutting
  BY <1>1, <1>3, EmptySeq DEF CommType, NoPrompt, After
<1>5. comm' = c \/ comm' = DecideOnExit(c)
  <2>1. comm.child[e] \in {"hello", "open"} => comm.shutting # "no"
    BY <1>2 DEF OneInv, ProcessesAreRight, ExecIsRight
  <2>2. /\ comm.child[e] \in {"hello", "open"} =>
             comm' = RespawnFailed(IF c.shutting # "no" THEN c ELSE DecideOnExit(c))
        /\ comm.child[e] \notin {"hello", "open"} =>
             comm' = IF c.shutting # "no" THEN c ELSE DecideOnExit(c)
    BY DEF OnChildExit
  <2> HIDE DEF c
  <2>3. QED BY <1>4, <2>1, <2>2 DEF RespawnFailed
<1> HIDE DEF c
<1>6. Later(c, DecideOnExit(c))
  BY <1>4, DecideLater
<1>7. Later(comm, comm')
  BY <1>1, <1>4, <1>5, <1>6 DEF Later
<1>8. QED BY <1>2, <1>7, ReadRest, SilentCloses

(* An Executor takes a message, begins a turn or ends, and closes nothing. *)
LEMMA ReceivingCloses ==
  ASSUME TypeOK, OneInv, CloseInv, NEW e \in Epoch,
         \/ RecvSessionOpen(e) \/ RecvPrompt(e) \/ RecvCancel(e)
         \/ RecvHalt(e) \/ RecvShutdown(e) \/ RecvAnswer(e)
  PROVE  CloseInv'
<1>0. /\ exec[e] \in ExecType /\ exec \in [Epoch -> ExecType]
      /\ env.calls \in Nat /\ Alive(e) /\ UNCHANGED store
  <2>1. exec[e] \in ExecType /\ exec \in [Epoch -> ExecType] /\ env.calls \in Nat
    BY DEF TypeOK, EnvType
  <2>2. Alive(e) /\ UNCHANGED store
    BY DEF RecvSessionOpen, RecvPrompt, RecvCancel, RecvHalt, RecvShutdown, RecvAnswer, TakeSignal
  <2>3. QED BY <2>1, <2>2
<1>1. ASSUME NEW m, Take(e, m) PROVE comm'.live = comm.live
  BY <1>1 DEF Take, OneInv, CommInvariant, CommType
<1>2. comm'.live = comm.live
  BY <1>1 DEF RecvSessionOpen, RecvPrompt, RecvCancel, RecvHalt, RecvShutdown, RecvAnswer, TakeSignal
<1>3. env'.calls = env.calls + 0
  <2>1. env' = env \/ \E p : Lose(p)
    BY DEF RecvSessionOpen, RecvPrompt, RecvCancel, RecvHalt, RecvShutdown, RecvAnswer
  <2>2. env'.calls = env.calls
    BY <2>1 DEF Lose, TypeOK, EnvType
  <2>3. QED BY <1>0, <2>2
<1> DEFINE h == Signal("halted")
<1>4. ~Closes(h) /\ ~Asks(h)
  BY DEF Signal, Closes, Asks
<1>5. CASE RecvSessionOpen(e)
  <2> DEFINE x == IF exec[e].pc = "fresh" THEN [exec[e] EXCEPT !.pc = "opening"] ELSE exec[e]
  <2>1. exec' = [exec EXCEPT ![e] = x] /\ UNCHANGED toComm
    BY <1>0, <1>5 DEF RecvSessionOpen
  <2>2. /\ x.call = exec[e].call
        /\ x.pc = exec[e].pc \/ (exec[e].pc = "fresh" /\ x.pc = "opening")
    BY <1>0 DEF ExecType
  <2> HIDE DEF x, h
  <2>3. QED BY <1>0, <1>2, <1>3, <1>4, <2>1, <2>2, SayCloses DEF InCall, HasAgent
<1>6. CASE RecvPrompt(e)
  <2>1. PICK p \in Prompt, note \in BOOLEAN :
          \/ exec[e].pc = "idle" /\ BeginTurn(e, p, exec[e])
          \/ exec[e].pc = "finish" /\ exec' = [exec EXCEPT ![e].queued = p] /\ UNCHANGED toComm
          \/ UNCHANGED <<exec, toComm>>
    BY <1>6 DEF RecvPrompt
  <2>2. CASE exec[e].pc = "idle" /\ BeginTurn(e, p, exec[e])
    <3> DEFINE x == [exec[e] EXCEPT !.pc = "user", !.prompt = p, !.queued = None, !.abort = FALSE]
               m == EventMsg(Line("user_message", p, None), TRUE)
    <3>1. exec' = [exec EXCEPT ![e] = x] /\ Say(e, m) /\ x.pc = "user"
      BY <1>0, <2>2 DEF BeginTurn, ExecType
    <3>2. ~Closes(m) /\ ~Asks(m)
      BY DEF EventMsg, Line, Closes, Asks
    <3> HIDE DEF x, m
    <3>3. QED BY <1>0, <1>2, <1>3, <3>1, <3>2, SayCloses DEF InCall, HasAgent
  <2>3. CASE exec[e].pc = "finish" /\ exec' = [exec EXCEPT ![e].queued = p] /\ UNCHANGED toComm
    <3> DEFINE x == [exec[e] EXCEPT !.queued = p]
    <3>1. exec' = [exec EXCEPT ![e] = x] /\ x.pc = exec[e].pc /\ x.call = exec[e].call
      BY <1>0, <2>3 DEF ExecType
    <3> HIDE DEF x, h
    <3>2. QED BY <1>0, <1>2, <1>3, <1>4, <2>3, <3>1, SayCloses
  <2>4. CASE UNCHANGED <<exec, toComm>>
    <3>1. exec' = [exec EXCEPT ![e] = exec[e]]
      BY <1>0, <2>4
    <3> HIDE DEF h
    <3>2. QED BY <1>0, <1>2, <1>3, <1>4, <2>4, <3>1, SayCloses
  <2>5. QED BY <2>1, <2>2, <2>3, <2>4
<1>7. CASE RecvCancel(e) \/ RecvHalt(e)
  <2>1. PICK x : /\ exec' = [exec EXCEPT ![e] = x] /\ (UNCHANGED toComm \/ Say(e, h))
                 /\ x.pc = exec[e].pc /\ x.call = exec[e].call
    <3> DEFINE y == Aborted(exec[e])
               z == [y EXCEPT !.halted = TRUE]
    <3>1. /\ y.pc = exec[e].pc /\ y.call = exec[e].call /\ z.pc = exec[e].pc /\ z.call = exec[e].call
          /\ exec = [exec EXCEPT ![e] = exec[e]]
      BY <1>0 DEF ExecType, Aborted
    <3>2. \/ exec' = [exec EXCEPT ![e] = y] /\ UNCHANGED toComm
          \/ exec' = [exec EXCEPT ![e] = z] /\ Say(e, h)
          \/ exec' = [exec EXCEPT ![e] = exec[e]] /\ UNCHANGED toComm
      BY <1>7, <3>1 DEF RecvCancel, RecvHalt
    <3> HIDE DEF y, z, h
    <3>3. QED BY <3>1, <3>2
  <2> HIDE DEF h
  <2>2. QED BY <1>0, <1>2, <1>3, <1>4, <2>1, SayCloses
<1>8. CASE RecvShutdown(e)
  <2>1. exec' = [exec EXCEPT ![e] = DeadExec] /\ UNCHANGED toComm /\ DeadExec.pc = "dead"
    BY <1>8 DEF RecvShutdown, DeadExec, NewExec
  <2> HIDE DEF h
  <2>2. QED BY <1>0, <1>2, <1>3, <1>4, <2>1, SayCloses DEF InCall
<1>9. CASE RecvAnswer(e)
  <2>1. PICK c \in Call :
          \/ /\ exec[e].pc = "ask" /\ exec[e].call = c
             /\ exec' = [exec EXCEPT ![e].pc = "model", ![e].call = None]
             /\ Say(e, EventMsg(Line("tool_call_finished", None, c), FALSE))
          \/ UNCHANGED <<exec, toComm>>
    BY <1>9 DEF RecvAnswer
  <2>2. CASE UNCHANGED <<exec, toComm>>
    <3>1. exec' = [exec EXCEPT ![e] = exec[e]]
      BY <1>0, <2>2
    <3> HIDE DEF h
    <3>2. QED BY <1>0, <1>2, <1>3, <1>4, <2>2, <3>1, SayCloses
  <2>3. CASE ~UNCHANGED <<exec, toComm>>
    <3> DEFINE x == [exec[e] EXCEPT !.pc = "model", !.call = None]
               m == EventMsg(Line("tool_call_finished", None, c), FALSE)
    <3>1. exec' = [exec EXCEPT ![e] = x] /\ Say(e, m) /\ x.pc = "model" /\ exec[e].pc = "ask" /\ exec[e].call = c
      BY <1>0, <2>1, <2>3 DEF ExecType
    <3>2. m.line.call = c /\ ~Asks(m)
      BY DEF EventMsg, Line, Asks
    <3> HIDE DEF x, m
    <3>3. QED BY <1>0, <1>2, <1>3, <3>1, <3>2, SayCloses DEF InCall, HasAgent
  <2>4. QED BY <2>2, <2>3
<1>10. QED BY <1>5, <1>6, <1>7, <1>8, <1>9

(* It goes on with its turn: the next call gets a number of its own, and a *)
(* call is left as soon as its finish line is written.                     *)
LEMMA ActingCloses ==
  ASSUME TypeOK, OneInv, CloseInv, NEW e \in Epoch,
         \/ Hello(e) \/ UserAcked(e) \/ ModelTool(e) \/ GateRefuses(e) \/ Dispatch(e)
         \/ ToolDone(e) \/ Finish(e) \/ ProviderError(e) \/ FinishAcked(e)
         \/ AckTimeout(e) \/ Disconnect(e) \/ Exit(e)
  PROVE  CloseInv'
<1>0. /\ exec[e] \in ExecType /\ exec \in [Epoch -> ExecType]
      /\ env.calls \in Nat /\ Alive(e) /\ UNCHANGED <<store, comm>>
  <2>1. exec[e] \in ExecType /\ exec \in [Epoch -> ExecType] /\ env.calls \in Nat
    BY DEF TypeOK, EnvType
  <2>2. Alive(e) /\ UNCHANGED <<store, comm>>
    BY DEF Hello, UserAcked, ModelTool, GateRefuses, Dispatch, ToolDone,
           Finish, ProviderError, FinishAcked, AckTimeout, Disconnect, Exit, AckedIn
  <2>3. QED BY <2>1, <2>2
<1>1. /\ ModelTool(e) => env'.calls = env.calls + 1 /\ env'.calls \in 1 .. env'.calls
      /\ ~ModelTool(e) => env'.calls = env.calls + 0
  <2>1. env \in EnvType
    BY DEF TypeOK
  <2>2. CASE ModelTool(e)
    <3>1. env'.calls = env.calls + 1
      BY <2>1, <2>2 DEF EnvType, ModelTool
    <3>2. QED BY <1>0, <2>2, <3>1
  <2>3. CASE ~ModelTool(e)
    <3>1. \/ env' = env
          \/ env' = [env EXCEPT !.ran = @ \cup {exec[e].call}]
          \/ env' = [env EXCEPT !.exits = @ + 1]
      BY <2>3 DEF Hello, UserAcked, GateRefuses, Dispatch, ToolDone,
                  Finish, ProviderError, FinishAcked, AckTimeout, Disconnect, Exit
    <3>2. env'.calls = env.calls
      BY <2>1, <3>1 DEF EnvType
    <3>3. QED BY <1>0, <2>3, <3>2
  <2>4. QED BY <2>2, <2>3
<1> DEFINE h == Signal("hello")
<1>2. ~Closes(h) /\ ~Asks(h)
  BY DEF Signal, Closes, Asks
<1> HIDE DEF h
<1>3. ASSUME NEW x, NEW m, exec' = [exec EXCEPT ![e] = x], UNCHANGED toComm \/ Say(e, m),
             ~Closes(m), ~Asks(m), env'.calls = env.calls + 0, x.pc \notin InCall,
             exec[e].pc \in HasAgent => x.pc \in HasAgent \cup {"dead"}
      PROVE  CloseInv'
  BY <1>0, <1>3, SayCloses
<1>4. CASE Hello(e)
  <2> DEFINE x == [exec[e] EXCEPT !.pc = "fresh"]
  <2>1. exec' = [exec EXCEPT ![e] = x] /\ Say(e, h) /\ x.pc = "fresh" /\ exec[e].pc = "boot" /\ ~ModelTool(e)
    BY <1>0, <1>4 DEF Hello, ExecType, h, ModelTool
  <2> HIDE DEF x
  <2>2. x.pc \notin InCall /\ exec[e].pc \notin HasAgent
    BY <2>1 DEF InCall, HasAgent
  <2>3. QED BY <1>1, <1>2, <1>3, <2>1, <2>2
<1>5. CASE UserAcked(e)
  <2> DEFINE x == [exec[e] EXCEPT !.pc = "model"]
  <2>1. exec' = [exec EXCEPT ![e] = x] /\ UNCHANGED toComm /\ x.pc = "model" /\ ~ModelTool(e)
    BY <1>0, <1>5 DEF UserAcked, AckedIn, ExecType, ModelTool
  <2> HIDE DEF x
  <2>2. x.pc \notin InCall /\ x.pc \in HasAgent
    BY <2>1 DEF InCall, HasAgent
  <2>3. QED BY <1>1, <1>2, <1>3, <2>1, <2>2
<1>6. CASE ModelTool(e)
  <2> DEFINE n == env.calls + 1
             x == [exec[e] EXCEPT !.pc = "request", !.call = n]
             m == EventMsg(Line("tool_call_requested", None, n), TRUE)
  <2>1. exec' = [exec EXCEPT ![e] = x] /\ Say(e, m) /\ x.pc = "request" /\ x.call = n
    BY <1>0, <1>6 DEF ModelTool, ExecType
  <2>2. ~Closes(m) /\ m.line.call = n
    BY DEF EventMsg, Line, Closes
  <2>3. n = env'.calls
    BY <1>1, <1>6
  <2> HIDE DEF x, m, n
  <2>4. x.pc \in HasAgent
    BY <2>1 DEF HasAgent
  <2>5. QED BY <1>0, <1>1, <1>6, <2>1, <2>2, <2>3, <2>4, SayCloses DEF n
<1>7. CASE GateRefuses(e) \/ ToolDone(e)
  <2> DEFINE x == [exec[e] EXCEPT !.pc = "model", !.call = None]
             m == EventMsg(Line("tool_call_finished", None, exec[e].call), FALSE)
  <2>1. exec' = [exec EXCEPT ![e] = x] /\ Say(e, m) /\ x.pc = "model" /\ exec[e].pc \in InCall
    BY <1>0, <1>7 DEF GateRefuses, ToolDone, AckedIn, ExecType, InCall
  <2>2. m.line.call = exec[e].call /\ ~Asks(m)
    BY DEF EventMsg, Line, Asks
  <2>3. env'.calls = env.calls + 0
    BY <1>1, <1>7 DEF GateRefuses, ToolDone, ModelTool, AckedIn
  <2> HIDE DEF x, m
  <2>4. x.pc \in HasAgent \ InCall
    BY <2>1 DEF InCall, HasAgent
  <2>5. QED BY <1>0, <2>1, <2>2, <2>3, <2>4, SayCloses
<1>8. CASE Dispatch(e)
  <2> DEFINE m == AskMsg(exec[e].call)
  <2>1. PICK k \in {"tool", "ask"} : exec' = [exec EXCEPT ![e].pc = k] /\ (UNCHANGED toComm \/ Say(e, m))
    BY <1>8 DEF Dispatch
  <2> DEFINE x == [exec[e] EXCEPT !.pc = k]
  <2>2. exec' = [exec EXCEPT ![e] = x] /\ x.pc = k /\ x.call = exec[e].call /\ exec[e].pc = "request"
    BY <1>0, <1>8, <2>1 DEF Dispatch, AckedIn, ExecType
  <2>3. ~Closes(m) /\ ~Asks(m)
    BY DEF AskMsg, Closes, Asks
  <2>4. env'.calls = env.calls + 0
    BY <1>1, <1>8 DEF Dispatch, AckedIn, ModelTool
  <2> HIDE DEF x, m
  <2>5. exec[e].pc \in InCall /\ x.pc \in HasAgent
    BY <2>2 DEF InCall, HasAgent
  <2>6. QED BY <1>0, <2>1, <2>2, <2>3, <2>4, <2>5, SayCloses
<1>9. CASE Finish(e)
  <2> DEFINE x == [exec[e] EXCEPT !.pc = "finish"]
             m == EventMsg(Line("turn_finished", exec[e].prompt, None), TRUE)
  <2>1. exec' = [exec EXCEPT ![e] = x] /\ Say(e, m) /\ x.pc = "finish"
    BY <1>0, <1>9 DEF Finish, ExecType
  <2>2. ~Closes(m) /\ ~Asks(m)
    BY DEF EventMsg, Line, Closes, Asks
  <2>3. env'.calls = env.calls + 0
    BY <1>0, <1>9 DEF Finish
  <2> HIDE DEF x, m
  <2>4. x.pc \notin InCall /\ x.pc \in HasAgent
    BY <2>1 DEF InCall, HasAgent
  <2>5. QED BY <1>3, <2>1, <2>2, <2>3, <2>4
<1>10. CASE ProviderError(e)
  <2> DEFINE x == [exec[e] EXCEPT !.pc = "idle", !.prompt = None]
             m == EventMsg(Line("provider_error", exec[e].prompt, None), FALSE)
  <2>1. exec' = [exec EXCEPT ![e] = x] /\ Say(e, m) /\ x.pc = "idle"
    BY <1>0, <1>10 DEF ProviderError, ExecType
  <2>2. ~Closes(m) /\ ~Asks(m)
    BY DEF EventMsg, Line, Closes, Asks
  <2>3. env'.calls = env.calls + 0
    BY <1>0, <1>10 DEF ProviderError
  <2> HIDE DEF x, m
  <2>4. x.pc \notin InCall /\ x.pc \in HasAgent
    BY <2>1 DEF InCall, HasAgent
  <2>5. QED BY <1>3, <2>1, <2>2, <2>3, <2>4
<1>11. CASE FinishAcked(e)
  <2> DEFINE y == [exec[e] EXCEPT !.pc = "idle", !.prompt = None, !.abort = FALSE]
             x == [y EXCEPT !.pc = "user", !.prompt = y.queued, !.queued = None, !.abort = FALSE]
             m == EventMsg(Line("user_message", y.queued, None), TRUE)
  <2>1. \/ exec' = [exec EXCEPT ![e] = y] /\ UNCHANGED toComm
        \/ exec' = [exec EXCEPT ![e] = x] /\ Say(e, m)
    BY <1>11 DEF FinishAcked, BeginTurn
  <2>2. y.pc = "idle" /\ x.pc = "user"
    BY <1>0 DEF ExecType
  <2>3. ~Closes(m) /\ ~Asks(m)
    BY DEF EventMsg, Line, Closes, Asks
  <2>4. env'.calls = env.calls + 0
    BY <1>0, <1>11 DEF FinishAcked
  <2> HIDE DEF x, y, m
  <2>5. y.pc \notin InCall /\ y.pc \in HasAgent /\ x.pc \notin InCall /\ x.pc \in HasAgent
    BY <2>2 DEF InCall, HasAgent
  <2>6. QED BY <1>2, <1>3, <2>1, <2>3, <2>4, <2>5
<1>12. CASE AckTimeout(e) \/ Disconnect(e) \/ Exit(e)
  <2>1. exec' = [exec EXCEPT ![e] = DeadExec] /\ UNCHANGED toComm /\ DeadExec.pc = "dead"
    BY <1>12 DEF AckTimeout, Disconnect, Exit, DeadExec, NewExec
  <2>2. env'.calls = env.calls + 0
    BY <1>0, <1>12 DEF AckTimeout, Disconnect, Exit, TypeOK, EnvType
  <2>3. DeadExec.pc \notin InCall
    BY <2>1 DEF InCall
  <2> HIDE DEF DeadExec
  <2>4. QED BY <1>2, <1>3, <2>1, <2>2, <2>3
<1>13. QED BY <1>4, <1>5, <1>6, <1>7, <1>8, <1>9, <1>10, <1>11, <1>12

-----------------------------------------------------------------------------
(* Nothing is closed at the start.                                         *)
LEMMA CloseInit == Init => CloseInv
<1> SUFFICES ASSUME Init PROVE CloseInv
  OBVIOUS
<1>1. ClosedOnce /\ Calls(store) \subseteq 1 .. env.calls
  BY CallsOfEmpty DEF Init, ClosedOnce, Calls, Closed
<1>2. ASSUME NEW e \in Epoch PROVE ClosesOf(exec[e], toComm[e], store, env.calls)
  BY <1>2, EmptySeq DEF Init, ClosesOf, NewExec, InCall
<1>3. QED BY <1>1, <1>2 DEF CloseInv

(* Every step keeps it so.                                                 *)
LEMMA CloseStep ==
  NoStartFaults /\ TypeOK /\ OneInv /\ CloseInv /\ [Next]_vars => CloseInv'
<1> SUFFICES ASSUME NoStartFaults, TypeOK, OneInv, CloseInv, [Next]_vars PROVE CloseInv'
  OBVIOUS
<1>1. CASE UNCHANGED vars
  BY <1>1 DEF vars, CloseInv, ClosedOnce
<1>2. CASE User \/ IdleWindowPasses \/ ShutdownDone
  BY <1>2, UserCloses
<1>3. ASSUME NEW e \in Epoch, CommStep(e) PROVE CloseInv'
  BY <1>3, HeardCloses, EventCloses, ChildExitCloses DEF CommStep
<1>4. ASSUME NEW e \in Epoch, ExecStep(e) \/ Exit(e) PROVE CloseInv'
  BY <1>4, OpenedCloses, ReceivingCloses, ActingCloses DEF ExecStep
<1>5. ASSUME NEW e \in Epoch, HelloTimeout(e) \/ OpenTimeout(e) PROVE CloseInv'
  BY <1>5 DEF HelloTimeout, OpenTimeout, NoStartFaults
<1>6. QED BY <1>1, <1>2, <1>3, <1>4, <1>5 DEF Next

(* The store closes no call twice: neither the tool nor a refusal nor the  *)
(* restart rule of a later Executor closes what was closed (agent.ts and   *)
(* runtime.ts, session_open).                                              *)
THEOREM CallsAreClosedOnce ==
  ASSUME NoStartFaults
  PROVE  Spec => []ClosedOnce
<1>1. TypeOK /\ OneInv /\ CloseInv /\ [Next]_vars => CloseInv'
  BY CloseStep
<1>2. CloseInv => ClosedOnce
  BY DEF CloseInv
<1>3. QED BY <1>1, <1>2, CloseInit, TypeCorrect, ExecutorsAreRight, PTL DEF Spec

=============================================================================
