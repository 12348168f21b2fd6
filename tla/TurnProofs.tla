----------------------------- MODULE TurnProofs -----------------------------
(***************************************************************************)
(* Proofs about an Executor's turn (AgentTurn), alone and under the eyes   *)
(* of the stall watchdog (SupervisedTurn): the results in the conversation *)
(* follow their calls, injects are heard in their turn, no child process   *)
(* is forgotten, a cancel sticks, and the watchdog spares who looks well.  *)
(***************************************************************************)
EXTENDS SupervisedTurn, SequenceTheorems, FiniteSetTheorems, NaturalsInduction, WellFoundedInduction, TLAPS

(***************************************************************************)
(* Natural numbers.                                                        *)
(***************************************************************************)

\* Among some natural numbers there is a least one.
LEMMA LeastNatural ==
  ASSUME NEW T, T \subseteq Nat, T # {} PROVE \E n \in T : \A m \in T : n <= m
<1> DEFINE R == {ss \in Nat \X Nat : ss[1] < ss[2]}
<1>1. IsWellFoundedOn(R, Nat)
  BY NatLessThanWellFounded DEF OpToRel
<1> HIDE DEF R
<1>2. PICK x \in T : \A y \in T : ~(<<y, x>> \in R)
  BY <1>1, WFMin
<1>3. ASSUME NEW m \in T, m < x PROVE FALSE
  <2>1. <<m, x>> \in R
    BY <1>3 DEF R
  <2>2. QED BY <1>2, <2>1
<1>4. \A m \in T : x <= m
  BY <1>3
<1>5. QED BY <1>4

\* Induction: a set that holds 0 and the successors of its numbers holds all.
LEMMA NaturalInduction ==
  ASSUME NEW S, 0 \in S, \A n \in Nat : n \in S => n + 1 \in S PROVE Nat \subseteq S
<1> SUFFICES ASSUME Nat \ S # {} PROVE FALSE
  OBVIOUS
<1>1. PICK n \in Nat \ S : \A m \in Nat \ S : n <= m
  BY LeastNatural
<1>2. n # 0 /\ n - 1 \in Nat /\ n - 1 \in S
  BY <1>1
<1>3. QED BY <1>1, <1>2

\* Min of natural numbers is one of them, and the least.
LEMMA MinIsLeast ==
  ASSUME NEW T, T \subseteq Nat, T # {} PROVE Min(T) \in T /\ \A m \in T : Min(T) <= m
<1>1. \E n \in T : \A m \in T : n <= m
  BY LeastNatural
<1>2. QED BY <1>1 DEF Min

(***************************************************************************)
(* The conversation.                                                       *)
(***************************************************************************)

Roles == {"user", "assistant", "tool", "unknown"}
Messages == [role : Roles, ref : Nat, calls : SUBSET Nat]

\* A call that a result at the end of the conversation would answer.
IsOpen(ms, c) ==
  \E j \in 1..Len(ms) :
    /\ ms[j].role = "assistant" /\ c \in ms[j].calls
    /\ \A k \in (j + 1)..Len(ms) : ms[k].role = "tool" /\ ms[k].ref # c

\* ResultsHaveTheirCall, of any conversation.
Grounded(ms) ==
  \A i \in 1..Len(ms) : ms[i].role = "tool" =>
    \E j \in 1..(i - 1) :
      /\ ms[j].role = "assistant" /\ ms[i].ref \in ms[j].calls
      /\ \A k \in (j + 1)..(i - 1) : ms[k].role = "tool" /\ ms[k].ref # ms[i].ref

\* The function that Without reads its result from.
Leaves(left, ms, positions, last) ==
  left = [n \in 0..last |->
            IF n = 0 THEN <<>> ELSE IF n \in positions THEN left[n - 1] ELSE Append(left[n - 1], ms[n])]

\* That function exists.
LEMMA LeavesExists ==
  ASSUME NEW ms, NEW positions PROVE \A n \in Nat : \E left : Leaves(left, ms, positions, n)
<1> DEFINE S == {n \in Nat : \E left : Leaves(left, ms, positions, n)}
<1>1. 0 \in S
  <2> DEFINE f == [n \in 0..0 |-> <<>>]
  <2>1. Leaves(f, ms, positions, 0)
    BY DEF Leaves
  <2>2. QED BY <2>1
<1>2. ASSUME NEW n \in Nat, n \in S PROVE n + 1 \in S
  <2>1. PICK f : Leaves(f, ms, positions, n)
    BY <1>2
  <2> DEFINE x == IF n + 1 \in positions THEN f[n] ELSE Append(f[n], ms[n + 1])
             g == [k \in 0..(n + 1) |-> IF k = n + 1 THEN x ELSE f[k]]
  <2>2. \A k \in 0..n : g[k] = f[k]
    OBVIOUS
  <2>3. g[n + 1] = x
    OBVIOUS
  <2>4. \A k \in 0..n : f[k] = IF k = 0 THEN <<>> ELSE IF k \in positions THEN f[k - 1] ELSE Append(f[k - 1], ms[k])
    BY <2>1 DEF Leaves
  <2>5. x = IF n + 1 \in positions THEN g[n] ELSE Append(g[n], ms[n + 1])
    BY <2>2
  <2>6. g = [k \in 0..(n + 1) |-> g[k]]
    OBVIOUS
  <2> HIDE DEF x, g
  <2>7. ASSUME NEW k \in 0..(n + 1)
        PROVE g[k] = IF k = 0 THEN <<>> ELSE IF k \in positions THEN g[k - 1] ELSE Append(g[k - 1], ms[k])
    <3>1. CASE k = n + 1
      <4>1. k # 0 /\ k - 1 = n
        BY <3>1
      <4>2. QED BY <4>1, <3>1, <2>3, <2>5
    <3>2. CASE k # n + 1
      <4>1. k \in 0..n /\ (k # 0 => k - 1 \in 0..n)
        BY <3>2
      <4>2. QED BY <4>1, <2>2, <2>4
    <3>3. QED BY <3>1, <3>2
  <2>8. Leaves(g, ms, positions, n + 1)
    BY <2>6, <2>7 DEF Leaves
  <2>9. QED BY <2>8
<1>3. Nat \subseteq S
  <2> HIDE DEF S
  <2>1. QED BY <1>1, <1>2, NaturalInduction
<1>4. QED BY <1>3

\* Without is the last value of such a function.
LEMMA WithoutLeaves ==
  ASSUME NEW ms, NEW positions, Len(ms) \in Nat
  PROVE \E left : Leaves(left, ms, positions, Len(ms)) /\ Without(ms, positions) = left[Len(ms)]
<1> DEFINE f == CHOOSE left : Leaves(left, ms, positions, Len(ms))
<1>1. Leaves(f, ms, positions, Len(ms))
  BY LeavesExists
<1>2. Without(ms, positions) = f[Len(ms)]
  BY DEF Without, Leaves
<1>3. QED BY <1>1, <1>2

\* A message keeps a conversation grounded if it is no result, or one of an
\* open call.
LEMMA GroundedAppend ==
  ASSUME NEW ms \in Seq(Messages), NEW m \in Messages, Grounded(ms), m.role = "tool" => IsOpen(ms, m.ref)
  PROVE Grounded(Append(ms, m))
<1> DEFINE s == Append(ms, m)
<1>1. Len(s) = Len(ms) + 1 /\ s[Len(ms) + 1] = m /\ \A i \in 1..Len(ms) : s[i] = ms[i]
  BY AppendProperties
<1>2. Len(ms) \in Nat
  OBVIOUS
<1> HIDE DEF s
<1>3. ASSUME NEW i \in 1..Len(s), s[i].role = "tool"
      PROVE \E j \in 1..(i - 1) :
              /\ s[j].role = "assistant" /\ s[i].ref \in s[j].calls
              /\ \A k \in (j + 1)..(i - 1) : s[k].role = "tool" /\ s[k].ref # s[i].ref
  <2>1. CASE i = Len(ms) + 1
    <3>1. IsOpen(ms, m.ref) /\ s[i] = m /\ i - 1 = Len(ms)
      BY <2>1, <1>1, <1>2, <1>3
    <3>2. PICK j \in 1..Len(ms) :
              /\ ms[j].role = "assistant" /\ m.ref \in ms[j].calls
              /\ \A k \in (j + 1)..Len(ms) : ms[k].role = "tool" /\ ms[k].ref # m.ref
      BY <3>1 DEF IsOpen
    <3>3. j \in 1..(i - 1) /\ s[j] = ms[j]
      BY <1>1, <3>1
    <3>4. \A k \in (j + 1)..(i - 1) : s[k] = ms[k] /\ k \in (j + 1)..Len(ms)
      BY <1>1, <1>2, <3>1
    <3>5. QED BY <3>1, <3>2, <3>3, <3>4
  <2>2. CASE i # Len(ms) + 1
    <3>1. i \in 1..Len(ms) /\ s[i] = ms[i]
      BY <2>2, <1>1, <1>2
    <3>2. PICK j \in 1..(i - 1) :
              /\ ms[j].role = "assistant" /\ ms[i].ref \in ms[j].calls
              /\ \A k \in (j + 1)..(i - 1) : ms[k].role = "tool" /\ ms[k].ref # ms[i].ref
      BY <3>1, <1>3 DEF Grounded
    <3>3. s[j] = ms[j] /\ \A k \in (j + 1)..(i - 1) : s[k] = ms[k]
      BY <1>1, <1>2, <3>1
    <3>4. QED BY <3>1, <3>2, <3>3
  <2>3. QED BY <2>1, <2>2
<1>4. QED BY <1>3 DEF Grounded, s

\* What is open after a message was added.
LEMMA OpenAppend ==
  ASSUME NEW ms \in Seq(Messages), NEW m \in Messages, NEW c
  PROVE /\ m.role = "tool" /\ IsOpen(ms, c) /\ m.ref # c => IsOpen(Append(ms, m), c)
        /\ m.role = "assistant" /\ c \in m.calls => IsOpen(Append(ms, m), c)
        /\ IsOpen(Append(ms, m), c) =>
             \/ m.role = "tool" /\ m.ref # c /\ IsOpen(ms, c)
             \/ m.role = "assistant" /\ c \in m.calls
<1> DEFINE s == Append(ms, m)
<1>1. Len(s) = Len(ms) + 1 /\ s[Len(ms) + 1] = m /\ \A i \in 1..Len(ms) : s[i] = ms[i]
  BY AppendProperties
<1>2. Len(ms) \in Nat
  OBVIOUS
<1> HIDE DEF s
<1>3. ASSUME m.role = "tool", IsOpen(ms, c), m.ref # c PROVE IsOpen(s, c)
  <2>1. PICK j \in 1..Len(ms) :
            /\ ms[j].role = "assistant" /\ c \in ms[j].calls
            /\ \A k \in (j + 1)..Len(ms) : ms[k].role = "tool" /\ ms[k].ref # c
    BY <1>3 DEF IsOpen
  <2>2. \A k \in (j + 1)..Len(s) : k \in (j + 1)..Len(ms) \/ k = Len(ms) + 1
    BY <1>1, <1>2
  <2>3. \A k \in (j + 1)..Len(s) : s[k].role = "tool" /\ s[k].ref # c
    BY <2>1, <2>2, <1>1, <1>3
  <2>4. j \in 1..Len(s) /\ s[j] = ms[j]
    BY <1>1, <1>2
  <2>5. QED BY <2>1, <2>3, <2>4 DEF IsOpen
<1>4. ASSUME m.role = "assistant", c \in m.calls PROVE IsOpen(s, c)
  <2>1. Len(s) \in 1..Len(s) /\ s[Len(s)] = m
    BY <1>1, <1>2
  <2>2. \A k \in (Len(s) + 1)..Len(s) : FALSE
    BY <1>1, <1>2
  <2>3. QED BY <2>1, <2>2, <1>4 DEF IsOpen
<1>5. ASSUME IsOpen(s, c)
      PROVE \/ m.role = "tool" /\ m.ref # c /\ IsOpen(ms, c)
            \/ m.role = "assistant" /\ c \in m.calls
  <2>1. PICK j \in 1..Len(s) :
            /\ s[j].role = "assistant" /\ c \in s[j].calls
            /\ \A k \in (j + 1)..Len(s) : s[k].role = "tool" /\ s[k].ref # c
    BY <1>5 DEF IsOpen
  <2>2. CASE j = Len(ms) + 1
    BY <2>1, <2>2, <1>1
  <2>3. CASE j # Len(ms) + 1
    <3>1. j \in 1..Len(ms) /\ s[j] = ms[j] /\ Len(ms) + 1 \in (j + 1)..Len(s)
      BY <2>3, <1>1, <1>2
    <3>2. m.role = "tool" /\ m.ref # c
      BY <3>1, <2>1, <1>1
    <3>3. \A k \in (j + 1)..Len(ms) : s[k] = ms[k] /\ k \in (j + 1)..Len(s)
      BY <1>1, <1>2, <3>1
    <3>4. IsOpen(ms, c)
      BY <2>1, <3>1, <3>3 DEF IsOpen
    <3>5. QED BY <3>2, <3>4
  <2>4. QED BY <2>2, <2>3
<1>6. QED BY <1>3, <1>4, <1>5 DEF s

\* A conversation that is cut off stays grounded, and so does its cut.
LEMMA GroundedPrefix ==
  ASSUME NEW ms \in Seq(Messages), NEW n \in 0..Len(ms), Grounded(ms)
  PROVE Grounded(SubSeq(ms, 1, n)) /\ SubSeq(ms, 1, n) \in Seq(Messages)
<1> DEFINE s == SubSeq(ms, 1, n)
<1>1. s \in Seq(Messages) /\ Len(s) = n /\ \A i \in 1..n : s[i] = ms[i]
  OBVIOUS
<1> HIDE DEF s
<1>2. ASSUME NEW i \in 1..Len(s), s[i].role = "tool"
      PROVE \E j \in 1..(i - 1) :
              /\ s[j].role = "assistant" /\ s[i].ref \in s[j].calls
              /\ \A k \in (j + 1)..(i - 1) : s[k].role = "tool" /\ s[k].ref # s[i].ref
  <2>1. i \in 1..Len(ms) /\ i <= n /\ s[i] = ms[i]
    BY <1>1
  <2>2. PICK j \in 1..(i - 1) :
            /\ ms[j].role = "assistant" /\ ms[i].ref \in ms[j].calls
            /\ \A k \in (j + 1)..(i - 1) : ms[k].role = "tool" /\ ms[k].ref # ms[i].ref
    BY <2>1, <1>2 DEF Grounded
  <2>3. s[j] = ms[j] /\ \A k \in (j + 1)..(i - 1) : s[k] = ms[k]
    BY <1>1, <2>1
  <2>4. QED BY <2>1, <2>2, <2>3
<1>3. QED BY <1>1, <1>2 DEF Grounded, s

\* A prefix by one message longer.
LEMMA PrefixAppend ==
  ASSUME NEW ms \in Seq(Messages), NEW n \in Nat, n + 1 <= Len(ms)
  PROVE /\ SubSeq(ms, 1, n + 1) = Append(SubSeq(ms, 1, n), ms[n + 1])
        /\ SubSeq(ms, 1, n) \in Seq(Messages) /\ ms[n + 1] \in Messages
<1>1. SubSeq(ms, 1, n) \in Seq(Messages) /\ Len(SubSeq(ms, 1, n)) = n
      /\ \A i \in 1..n : SubSeq(ms, 1, n)[i] = ms[i]
  OBVIOUS
<1>2. ms[n + 1] \in Messages
  OBVIOUS
<1>3. SubSeq(ms, 1, n + 1) \in Seq(Messages) /\ Len(SubSeq(ms, 1, n + 1)) = n + 1
      /\ \A i \in 1..(n + 1) : SubSeq(ms, 1, n + 1)[i] = ms[i]
  OBVIOUS
<1> DEFINE a == SubSeq(ms, 1, n)
           b == SubSeq(ms, 1, n + 1)
           x == ms[n + 1]
<1> HIDE DEF a, b, x
<1>4. a \in Seq(Messages) /\ Len(a) = n /\ (\A i \in 1..n : a[i] = b[i])
  BY <1>1, <1>3 DEF a, b
<1>5. b \in Seq(Messages) /\ Len(b) = n + 1 /\ b[n + 1] = x /\ x \in Messages
  BY <1>2, <1>3 DEF b, x
<1>6. b = Append(a, x)
  BY <1>4, <1>5
<1>7. QED BY <1>1, <1>2, <1>6 DEF a, b, x

\* Without results a conversation stays grounded.
LEMMA WithoutResults ==
  ASSUME NEW ms \in Seq(Messages), NEW positions, Grounded(ms),
         \A i \in positions : i \in 1..Len(ms) /\ ms[i].role = "tool"
  PROVE Without(ms, positions) \in Seq(Messages) /\ Grounded(Without(ms, positions))
<1>1. PICK left : Leaves(left, ms, positions, Len(ms)) /\ Without(ms, positions) = left[Len(ms)]
  BY WithoutLeaves
<1> DEFINE P(n) == SubSeq(ms, 1, n)
           Good(n) == /\ left[n] \in Seq(Messages) /\ Grounded(left[n])
                      /\ \A c : IsOpen(P(n), c) => IsOpen(left[n], c)
           S == {n \in Nat : n <= Len(ms) => Good(n)}
<1>2. left[0] = <<>>
  BY <1>1 DEF Leaves
<1>3. \A n \in 1..Len(ms) : left[n] = IF n \in positions THEN left[n - 1] ELSE Append(left[n - 1], ms[n])
  <2>1. \A n \in 0..Len(ms) :
          left[n] = IF n = 0 THEN <<>> ELSE IF n \in positions THEN left[n - 1] ELSE Append(left[n - 1], ms[n])
    BY <1>1 DEF Leaves
  <2>2. \A n \in 1..Len(ms) : n \in 0..Len(ms) /\ n # 0
    OBVIOUS
  <2>3. QED BY <2>1, <2>2
<1>4. Good(0)
  <2>1. Len(P(0)) = 0 /\ left[0] \in Seq(Messages) /\ Len(left[0]) = 0
    BY <1>2
  <2>2. Grounded(left[0])
    BY <2>1 DEF Grounded
  <2>3. \A c : ~IsOpen(P(0), c)
    BY <2>1 DEF IsOpen
  <2>4. QED BY <2>1, <2>2, <2>3
<1>5. ASSUME NEW n \in Nat, n + 1 <= Len(ms), Good(n) PROVE Good(n + 1)
  <2> DEFINE m == ms[n + 1]
  <2>1. P(n + 1) = Append(P(n), m) /\ P(n) \in Seq(Messages) /\ m \in Messages
    BY <1>5, PrefixAppend
  <2>2. Grounded(P(n + 1))
    BY <1>5, GroundedPrefix, n + 1 \in 0..Len(ms)
  <2>3. m.role = "tool" => IsOpen(P(n), m.ref)
    <3>1. Len(P(n + 1)) = n + 1 /\ Len(P(n)) = n /\ P(n + 1)[n + 1] = m
          /\ \A i \in 1..n : P(n + 1)[i] = P(n)[i]
      BY <1>5
    <3> HIDE DEF P, m
    <3>2. SUFFICES ASSUME m.role = "tool" PROVE IsOpen(P(n), m.ref)
      OBVIOUS
    <3>3. n + 1 \in 1..Len(P(n + 1)) /\ P(n + 1)[n + 1].role = "tool" /\ (n + 1) - 1 = n
      BY <3>1, <3>2
    <3>4. PICK j \in 1..n :
            /\ P(n + 1)[j].role = "assistant" /\ m.ref \in P(n + 1)[j].calls
            /\ \A k \in (j + 1)..n : P(n + 1)[k].role = "tool" /\ P(n + 1)[k].ref # m.ref
      BY <3>1, <3>3, <2>2 DEF Grounded
    <3>5. P(n + 1)[j] = P(n)[j] /\ \A k \in (j + 1)..n : P(n + 1)[k] = P(n)[k]
      BY <3>1
    <3>6. QED BY <3>1, <3>4, <3>5 DEF IsOpen
  <2>4. CASE n + 1 \in positions
    <3>1. left[n + 1] = left[n] /\ m.role = "tool"
      BY <1>3, <1>5, <2>4
    <3>2. \A c : IsOpen(P(n + 1), c) => IsOpen(P(n), c)
      <4> HIDE DEF P, m
      <4>1. QED BY <3>1, <2>1, OpenAppend
    <3>3. QED BY <3>1, <3>2, <1>5
  <2>5. CASE n + 1 \notin positions
    <3>1. left[n + 1] = Append(left[n], m)
      <4>1. n + 1 \in 1..Len(ms) /\ (n + 1) - 1 = n
        BY <1>5
      <4>2. left[n + 1] = Append(left[(n + 1) - 1], ms[n + 1])
        BY <4>1, <1>3, <2>5
      <4>3. QED BY <4>1, <4>2
    <3>2. left[n + 1] \in Seq(Messages)
      BY <3>1, <2>1, <1>5
    <3> HIDE DEF P, m
    <3>3. m.role = "tool" => IsOpen(left[n], m.ref)
      BY <2>3, <1>5
    <3>4. Grounded(left[n + 1])
      BY <3>1, <3>3, <2>1, <1>5, GroundedAppend
    <3>5. ASSUME NEW c, IsOpen(P(n + 1), c) PROVE IsOpen(left[n + 1], c)
      <4>1. \/ m.role = "tool" /\ m.ref # c /\ IsOpen(P(n), c)
            \/ m.role = "assistant" /\ c \in m.calls
        <5>1. IsOpen(Append(P(n), m), c)
          BY <3>5, <2>1
        <5>2. QED BY <5>1, <2>1, OpenAppend
      <4>2. \/ m.role = "tool" /\ m.ref # c /\ IsOpen(left[n], c)
            \/ m.role = "assistant" /\ c \in m.calls
        BY <4>1, <1>5
      <4>3. QED BY <4>2, <3>1, <2>1, <1>5, OpenAppend
    <3>6. QED BY <3>2, <3>4, <3>5
  <2>6. QED BY <2>4, <2>5
<1>6. Nat \subseteq S
  <2> HIDE DEF Good
  <2>1. 0 \in S
    BY <1>4
  <2>2. \A n \in Nat : n \in S => n + 1 \in S
    BY <1>5
  <2> HIDE DEF S
  <2>3. QED BY <2>1, <2>2, NaturalInduction
<1>7. Good(Len(ms))
  BY <1>6
<1>8. QED BY <1>1, <1>7

\* The end of a grounded conversation is grounded behind a checkpoint, if it
\* does not begin with a result.
LEMMA GroundedTail ==
  ASSUME NEW ms \in Seq(Messages), Grounded(ms), NEW a \in Nat, NEW t \in Seq(Messages),
         Len(ms) = a + Len(t), \A i \in 1..Len(t) : t[i] = ms[a + i],
         Len(t) > 0 => t[1].role # "tool"
  PROVE Grounded(<<User(0)>> \o t) /\ <<User(0)>> \o t \in Seq(Messages)
<1> DEFINE u == User(0)
           r == <<u>> \o t
<1>1. u \in Messages /\ u.role # "tool"
  BY DEF User, Messages, Roles
<1> HIDE DEF u
<1>2. r \in Seq(Messages) /\ Len(r) = 1 + Len(t) /\ r[1] = u /\ \A i \in 1..Len(t) : r[i + 1] = t[i]
  BY <1>1
<1>3. Len(t) \in Nat /\ Len(ms) \in Nat
  OBVIOUS
<1> HIDE DEF r
<1>4. ASSUME NEW i \in 1..Len(r), r[i].role = "tool"
      PROVE \E j \in 1..(i - 1) :
              /\ r[j].role = "assistant" /\ r[i].ref \in r[j].calls
              /\ \A k \in (j + 1)..(i - 1) : r[k].role = "tool" /\ r[k].ref # r[i].ref
  <2> DEFINE p == a + i - 1
  <2>1. i # 1
    BY <1>1, <1>2, <1>4
  <2>2. i - 1 \in 1..Len(t) /\ r[i] = t[i - 1] /\ t[i - 1] = ms[p] /\ p \in 1..Len(ms)
    <3>1. i - 1 \in 1..Len(t) /\ (i - 1) + 1 = i /\ a + (i - 1) = p /\ p \in 1..Len(ms)
      BY <2>1, <1>2, <1>3
    <3>2. r[(i - 1) + 1] = t[i - 1] /\ t[i - 1] = ms[a + (i - 1)]
      BY <3>1, <1>2
    <3>3. QED BY <3>1, <3>2
  <2>3. i - 1 # 1
    BY <2>2, <1>4, <1>3
  <2>4. PICK j \in 1..(p - 1) :
            /\ ms[j].role = "assistant" /\ ms[p].ref \in ms[j].calls
            /\ \A k \in (j + 1)..(p - 1) : ms[k].role = "tool" /\ ms[k].ref # ms[p].ref
    <3> HIDE DEF p
    <3>1. ms[p].role = "tool"
      BY <2>2, <1>4
    <3>2. QED BY <3>1, <2>2 DEF Grounded
  <2>5. j > a
    <3>1. SUFFICES ASSUME j <= a PROVE FALSE
      BY <2>4
    <3>2. a + 1 \in (j + 1)..(p - 1)
      BY <3>1, <2>2, <2>3, <2>4
    <3>3. ms[a + 1].role = "tool"
      BY <3>2, <2>4
    <3>4. 1 \in 1..Len(t) /\ Len(t) > 0
      BY <2>2, <1>3
    <3>5. QED BY <3>3, <3>4
  <2> DEFINE q == j - a + 1
  <2>6. q \in 1..(i - 1) /\ r[q] = ms[j]
    <3>1. j - a \in 1..Len(t) /\ q = (j - a) + 1 /\ a + (j - a) = j /\ q \in 1..(i - 1)
      BY <2>2, <2>4, <2>5, <1>3
    <3>2. r[(j - a) + 1] = t[j - a] /\ t[j - a] = ms[a + (j - a)]
      BY <3>1, <1>2
    <3>3. QED BY <3>1, <3>2
  <2>7. ASSUME NEW k \in (q + 1)..(i - 1) PROVE r[k] = ms[k - 1 + a] /\ k - 1 + a \in (j + 1)..(p - 1)
    <3>1. k - 1 \in 1..Len(t) /\ (k - 1) + 1 = k /\ a + (k - 1) = k - 1 + a /\ k - 1 + a \in (j + 1)..(p - 1)
      BY <2>2, <2>4, <2>5, <2>6, <1>3
    <3>2. r[(k - 1) + 1] = t[k - 1] /\ t[k - 1] = ms[a + (k - 1)]
      BY <3>1, <1>2
    <3>3. QED BY <3>1, <3>2
  <2> HIDE DEF q, p
  <2>8. \A k \in (q + 1)..(i - 1) : r[k].role = "tool" /\ r[k].ref # ms[p].ref
    BY <2>4, <2>7
  <2>9. r[i] = ms[p]
    BY <2>2
  <2>10. QED BY <2>4, <2>6, <2>8, <2>9
<1>5. QED BY <1>2, <1>4 DEF Grounded, r, u

\* A compaction keeps a conversation grounded, and its last message unless
\* that is a result.
LEMMA CompactGrounded ==
  ASSUME NEW ms \in Seq(Messages), Grounded(ms)
  PROVE /\ Compact(ms) \in Seq(Messages) /\ Grounded(Compact(ms))
        /\ Len(ms) > 0 /\ ms[Len(ms)].role = "assistant" =>
             Len(Compact(ms)) > 0 /\ Compact(ms)[Len(Compact(ms))] = ms[Len(ms)]
<1> DEFINE tail == IF Len(ms) > KeepTail THEN SubSeq(ms, Len(ms) - KeepTail + 1, Len(ms)) ELSE ms
           at == IF Len(ms) > KeepTail THEN Len(ms) - KeepTail ELSE 0
           T == {i \in 1..Len(tail) : tail[i].role # "tool"} \cup {Len(tail) + 1}
           first == Min(T)
           t == SubSeq(tail, first, Len(tail))
<1>0. KeepTail \in Nat \ {0} /\ Len(ms) \in Nat
  BY TurnConstants
<1>1. /\ tail \in Seq(Messages) /\ at \in Nat /\ Len(ms) = at + Len(tail)
      /\ \A i \in 1..Len(tail) : tail[i] = ms[at + i]
      /\ Len(ms) > 0 => Len(tail) > 0
  <2>1. CASE Len(ms) > KeepTail
    <3> DEFINE n == Len(ms) - KeepTail + 1
    <3>1. n \in 1..Len(ms) /\ at = n - 1 /\ at \in Nat
      BY <1>0, <2>1
    <3>2. tail = SubSeq(ms, n, Len(ms))
      BY <2>1
    <3> HIDE DEF n, at, tail
    <3>3. tail \in Seq(Messages) /\ Len(tail) = Len(ms) - n + 1 /\ \A i \in 1..Len(tail) : tail[i] = ms[n - 1 + i]
      BY <3>1, <3>2, <1>0
    <3>4. QED BY <3>1, <3>3, <1>0
  <2>2. CASE ~(Len(ms) > KeepTail)
    BY <2>2, <1>0
  <2>3. QED BY <2>1, <2>2
<1>2. Compact(ms) = <<User(0)>> \o t
  BY DEF Compact
<1>3. Len(tail) \in Nat
  BY <1>1
<1> HIDE DEF tail, at
<1>4. first \in T /\ \A m \in T : first <= m
  <2>1. T \subseteq Nat /\ T # {}
    BY <1>3
  <2> HIDE DEF T
  <2>2. QED BY <2>1, MinIsLeast
<1>5. first \in 1..(Len(tail) + 1) /\ (first <= Len(tail) => tail[first].role # "tool")
      /\ \A i \in 1..Len(tail) : tail[i].role # "tool" => first <= i
  BY <1>3, <1>4
<1> HIDE DEF first, T
<1>6. /\ t \in Seq(Messages) /\ Len(t) = Len(tail) - first + 1
      /\ \A i \in 1..Len(t) : t[i] = tail[first - 1 + i]
  BY <1>1, <1>3, <1>5
<1> HIDE DEF t
<1> DEFINE a == at + first - 1
<1>7. a \in Nat /\ Len(ms) = a + Len(t) /\ Len(t) \in Nat
  BY <1>1, <1>3, <1>5, <1>6
<1>8. \A i \in 1..Len(t) : t[i] = ms[a + i]
  <2>1. ASSUME NEW i \in 1..Len(t) PROVE t[i] = ms[a + i]
    <3>1. first - 1 + i \in 1..Len(tail) /\ at + (first - 1 + i) = a + i
      BY <1>1, <1>3, <1>5, <1>6
    <3>2. t[i] = tail[first - 1 + i] /\ tail[first - 1 + i] = ms[at + (first - 1 + i)]
      BY <1>1, <1>6, <3>1
    <3>3. QED BY <3>1, <3>2
  <2>2. QED BY <2>1
<1>9. Len(t) > 0 => t[1].role # "tool"
  <2>1. SUFFICES ASSUME Len(t) > 0 PROVE t[1].role # "tool"
    OBVIOUS
  <2>2. first <= Len(tail) /\ 1 \in 1..Len(t) /\ first - 1 + 1 = first
    BY <2>1, <1>3, <1>5, <1>6, <1>7
  <2>3. t[1] = tail[first - 1 + 1]
    BY <2>2, <1>6
  <2>4. QED BY <2>2, <2>3, <1>5
<1> HIDE DEF a
<1>10. <<User(0)>> \o t \in Seq(Messages) /\ Grounded(<<User(0)>> \o t)
  BY <1>6, <1>7, <1>8, <1>9, GroundedTail
<1>11. ASSUME Len(ms) > 0, ms[Len(ms)].role = "assistant"
       PROVE Len(<<User(0)>> \o t) > 0 /\ (<<User(0)>> \o t)[Len(<<User(0)>> \o t)] = ms[Len(ms)]
  <2>1. Len(tail) \in 1..Len(tail) /\ at + Len(tail) = Len(ms)
    BY <1>11, <1>1, <1>3
  <2>2. tail[Len(tail)] = ms[Len(ms)]
    BY <2>1, <1>1
  <2>3. tail[Len(tail)].role # "tool"
    BY <2>2, <1>11
  <2>4. first <= Len(tail)
    BY <2>1, <2>3, <1>5
  <2>5. Len(t) \in 1..Len(t) /\ a + Len(t) = Len(ms)
    BY <2>4, <1>3, <1>5, <1>6, <1>7
  <2>6. t[Len(t)] = ms[Len(ms)]
    BY <2>5, <1>8
  <2> DEFINE u == User(0)
  <2> HIDE DEF u
  <2>7. Len(<<u>> \o t) = 1 + Len(t) /\ (<<u>> \o t)[1 + Len(t)] = t[Len(t)]
    BY <1>6, <2>5
  <2>8. QED BY <2>5, <2>6, <2>7, <1>7 DEF u
<1>12. QED BY <1>2, <1>10, <1>11

\* Messages that are no results keep a conversation grounded.
LEMMA GroundedConcat ==
  ASSUME NEW ms \in Seq(Messages), NEW t \in Seq(Messages), Grounded(ms),
         \A i \in 1..Len(t) : t[i].role # "tool"
  PROVE Grounded(ms \o t)
<1> DEFINE r == ms \o t
<1>1. /\ r \in Seq(Messages) /\ Len(r) = Len(ms) + Len(t)
      /\ \A i \in 1..Len(ms) : r[i] = ms[i]
      /\ \A i \in 1..Len(r) : i > Len(ms) => r[i] = t[i - Len(ms)]
  OBVIOUS
<1>2. Len(ms) \in Nat /\ Len(t) \in Nat
  OBVIOUS
<1> HIDE DEF r
<1>3. ASSUME NEW i \in 1..Len(r), r[i].role = "tool"
      PROVE \E j \in 1..(i - 1) :
              /\ r[j].role = "assistant" /\ r[i].ref \in r[j].calls
              /\ \A k \in (j + 1)..(i - 1) : r[k].role = "tool" /\ r[k].ref # r[i].ref
  <2>1. i \in 1..Len(ms)
    <3>1. SUFFICES ASSUME i > Len(ms) PROVE FALSE
      BY <1>2
    <3>2. i - Len(ms) \in 1..Len(t)
      BY <3>1, <1>1, <1>2
    <3>3. QED BY <3>1, <3>2, <1>1, <1>3
  <2>2. r[i] = ms[i]
    BY <2>1, <1>1
  <2>3. PICK j \in 1..(i - 1) :
            /\ ms[j].role = "assistant" /\ ms[i].ref \in ms[j].calls
            /\ \A k \in (j + 1)..(i - 1) : ms[k].role = "tool" /\ ms[k].ref # ms[i].ref
    BY <2>1, <2>2, <1>3 DEF Grounded
  <2>4. r[j] = ms[j] /\ \A k \in (j + 1)..(i - 1) : r[k] = ms[k]
    BY <1>1, <1>2, <2>1
  <2>5. QED BY <2>2, <2>3, <2>4
<1>4. QED BY <1>3 DEF Grounded, r

(***************************************************************************)
(* The inductive invariant.                                                *)
(***************************************************************************)

\* A record with the fields of the Agent; those the proofs speak of have types.
AgentFields ==
  {"turn", "active", "finishing", "queued", "at", "phase", "since", "before", "reason", "abort",
   "ask", "made", "reissued", "paused", "stop", "batch", "tool", "status"}
AgentOK(a) ==
  /\ a = [f \in AgentFields |-> a[f]]
  /\ a.turn \in Nat /\ a.active \in BOOLEAN /\ a.batch \in Seq(Nat)
  /\ a.ask \in {"none", "question", "continue"}

SettingFields ==
  {"prompts", "rounds", "calls", "compactions", "failures", "slow", "special", "cancels",
   "resumes", "injects", "freezes", "auto", "watched"}
SettingsOK(e) == e = [f \in SettingFields |-> e[f]] /\ e.calls \in Nat

ProcsOK(p) ==
  /\ p = [running |-> p.running, listed |-> p.listed, reaping |-> p.reaping]
  /\ p.running \subseteq p.listed

TurnType ==
  /\ AgentOK(agent)
  /\ messages \in Seq(Messages)
  /\ ProcsOK(procs)
  /\ cancelled \in [turn : Nat, overruled : Nat]
  /\ SettingsOK(env)

\* Where the turn is suspended, whether it is active, and what it asks the user.
AwaitIsRight(a) ==
  /\ a.active <=> a.at # "idle"
  /\ a.active => a.turn > 0
  /\ a.ask = "question" => a.at = "tool"
  /\ a.ask = "continue" <=> a.at = "continue"

\* A cancelled turn stays cancelled.
CancelHolds(a, c) ==
  /\ c.turn <= a.turn
  /\ a.active /\ c.turn = a.turn /\ c.overruled # a.turn => a.reason = "cancel"

\* What waits is about the prompt the turn belongs to, and arrived during it.
MailboxIsFresh(a, box) ==
  \A m \in box :
    IF a.active THEN a.at = "finish" \/ (m.during = a.turn /\ m.about = a.turn)
    ELSE m.during = 0 /\ m.about = a.turn

Answered == {"response", "compact", "handle"}
Judged   == {"request", "allowed", "pending", "spawn", "tool", "result", "continue"}
Calling  == Judged \cup {"next"}

\* The calls of the batch are those of the last answer, or are still open, and
\* differ; one of them is under way while its effect is judged and runs.
BatchIsOpen(a, ms) ==
  /\ a.at \in Answered =>
       /\ Len(ms) > 0 /\ ms[Len(ms)].role = "assistant"
       /\ \A i \in 1..Len(a.batch) : a.batch[i] \in ms[Len(ms)].calls
  /\ a.at \in Calling => \A i \in 1..Len(a.batch) : IsOpen(ms, a.batch[i])
  /\ a.at \in Judged => Len(a.batch) > 0
  /\ \A i, j \in 1..Len(a.batch) : a.batch[i] = a.batch[j] => i = j

TurnInv ==
  /\ TurnType
  /\ AwaitIsRight(agent)
  /\ CancelHolds(agent, cancelled)
  /\ MailboxIsFresh(agent, mailbox)
  /\ BatchIsOpen(agent, messages)
  /\ Grounded(messages)
  /\ InjectInItsTurn

(***************************************************************************)
(* What the operators of the turn do to the Agent.                         *)
(***************************************************************************)

\* b is a in another await, with the same turn and batch.
Becomes(a, b, at, ask) ==
  /\ AgentOK(b) /\ b.at = at /\ b.ask = ask
  /\ b.turn = a.turn /\ b.active = a.active /\ b.batch = a.batch
KeepsReason(a, b) == b.reason = a.reason

\* SetPhase and Abort change no field the invariant speaks of.
LEMMA PhaseFacts ==
  ASSUME NEW a, AgentOK(a), NEW phase
  PROVE  /\ Becomes(a, SetPhase(a, phase), a.at, a.ask) /\ KeepsReason(a, SetPhase(a, phase))
         /\ Becomes(a, Abort(a), a.at, a.ask) /\ KeepsReason(a, Abort(a))
BY DEF AgentOK, AgentFields, Becomes, KeepsReason, SetPhase, Abort

\* The end of a turn begins.
LEMMA FinishingFacts ==
  ASSUME NEW a, AgentOK(a), NEW stop
  PROVE  Becomes(a, Finishing(a, stop), "finish", a.ask) /\ KeepsReason(a, Finishing(a, stop))
BY DEF AgentOK, AgentFields, Becomes, KeepsReason, Finishing

\* A call of the model begins.
LEMMA StartModelFacts ==
  ASSUME NEW a, AgentOK(a)
  PROVE  Becomes(a, StartModel(a), "model", a.ask) /\ KeepsReason(a, StartModel(a))
BY DEF AgentOK, AgentFields, Becomes, KeepsReason, StartModel, SetPhase

\* A call is requested.
LEMMA RequestFacts ==
  ASSUME NEW a, AgentOK(a)
  PROVE  Becomes(a, Request(a), "request", a.ask) /\ KeepsReason(a, Request(a))
BY DEF AgentOK, AgentFields, Becomes, KeepsReason, Request

\* A question is over.
LEMMA AskedFacts ==
  ASSUME NEW a, AgentOK(a)
  PROVE  Becomes(a, Asked(a), a.at, "none") /\ KeepsReason(a, Asked(a))
<1>1. CASE a.phase = "waiting_answer"
  BY <1>1 DEF AgentOK, AgentFields, Becomes, KeepsReason, Asked, SetPhase
<1>2. CASE a.phase # "waiting_answer"
  BY <1>2 DEF AgentOK, AgentFields, Becomes, KeepsReason, Asked
<1>3. QED BY <1>1, <1>2

\* A turn begins.
LEMMA BegunFacts ==
  ASSUME NEW a, AgentOK(a), NEW kind
  PROVE  LET b == Begun(a, kind) IN
         /\ AgentOK(b) /\ b.turn = a.turn + 1 /\ b.active /\ b.reason = "none"
         /\ b.at = IF kind = "empty" THEN "finish" ELSE "user"
         /\ b.ask = a.ask /\ b.batch = a.batch
<1> DEFINE b == [a EXCEPT !.turn = a.turn + 1, !.active = TRUE, !.made = 0, !.reason = "none",
                          !.reissued = FALSE, !.paused = FALSE, !.at = "user"]
<1>1. b = [f \in AgentFields |-> b[f]]
  BY DEF AgentOK, AgentFields
<1>2. /\ b.turn = a.turn + 1 /\ b.reason = "none" /\ b.at = "user"
      /\ b.ask = a.ask /\ b.batch = a.batch
  BY DEF AgentOK, AgentFields
<1>3. b.active = TRUE
  BY DEF AgentOK, AgentFields
<1>4. Begun(a, kind) = IF kind = "empty" THEN Finishing(b, "end") ELSE b
  BY DEF Begun
<1> HIDE DEF b
<1>5. AgentOK(b)
  <2>1. b.turn \in Nat /\ b.batch \in Seq(Nat) /\ b.ask \in {"none", "question", "continue"}
    BY <1>2 DEF AgentOK
  <2>2. b.active \in BOOLEAN
    BY <1>3
  <2>3. QED BY <1>1, <2>1, <2>2 DEF AgentOK
<1>6. Becomes(b, Finishing(b, "end"), "finish", b.ask) /\ KeepsReason(b, Finishing(b, "end"))
  BY <1>5, FinishingFacts
<1>7. QED BY <1>2, <1>3, <1>4, <1>5, <1>6 DEF Becomes, KeepsReason

\* A tool starts.
LEMMA StartedFacts ==
  ASSUME AgentOK(agent), NEW tool \in {"plain", "slow", "question", "command"}
  PROVE  LET b == Started(tool) IN
         /\ Becomes(agent, b, IF tool = "command" THEN "spawn" ELSE "tool",
                    IF tool = "question" THEN "question" ELSE agent.ask)
         /\ KeepsReason(agent, b)
<1>1. CASE tool \in {"plain", "slow"}
  BY <1>1 DEF AgentOK, AgentFields, Becomes, KeepsReason, Started, SetPhase
<1>2. CASE tool = "question"
  BY <1>2 DEF AgentOK, AgentFields, Becomes, KeepsReason, Started, SetPhase
<1>3. CASE tool = "command"
  BY <1>3 DEF AgentOK, AgentFields, Becomes, KeepsReason, Started, SetPhase
<1>4. QED BY <1>1, <1>2, <1>3

\* A cancel rejects the question that waits.
LEMMA RejectedFacts ==
  ASSUME NEW a, AgentOK(a)
  PROVE  LET b == Rejected(a) IN
         /\ Becomes(a, b, IF a.ask = "none" THEN a.at ELSE IF a.ask = "question" THEN "result" ELSE "next", "none")
         /\ KeepsReason(a, b)
<1>1. CASE a.ask = "none"
  BY <1>1 DEF AgentOK, Becomes, KeepsReason, Rejected
<1>2. AgentOK(Asked(a)) /\ Becomes(a, Asked(a), a.at, "none") /\ KeepsReason(a, Asked(a))
  BY AskedFacts DEF Becomes
<1>3. CASE a.ask = "question"
  <2>1. Rejected(a) = [Asked(a) EXCEPT !.at = "result", !.status = "cancelled", !.abort = "none"]
    BY <1>3 DEF Rejected
  <2>2. QED BY <2>1, <1>2, <1>3 DEF AgentOK, AgentFields, Becomes, KeepsReason
<1>4. CASE a.ask = "continue"
  <2>1. Rejected(a) = [Asked(a) EXCEPT !.at = "next"]
    BY <1>4 DEF Rejected
  <2>2. QED BY <2>1, <1>2, <1>4 DEF AgentOK, AgentFields, Becomes, KeepsReason
<1>5. QED BY <1>1, <1>3, <1>4 DEF AgentOK

\* The note of a cancel keeps the conversation grounded.
LEMMA NoteGrounded ==
  ASSUME NEW ms \in Seq(Messages), Grounded(ms)
  PROVE  WithCancelNote(ms) \in Seq(Messages) /\ Grounded(WithCancelNote(ms))
<1>1. Assistant({}) \in Messages /\ Assistant({}).role # "tool"
  BY DEF Assistant, Messages, Roles
<1>2. Append(ms, Assistant({})) \in Seq(Messages)
  BY <1>1
<1>3. Grounded(Append(ms, Assistant({})))
  BY <1>1, GroundedAppend
<1>4. QED BY <1>2, <1>3 DEF WithCancelNote

(***************************************************************************)
(* The steps.                                                              *)
(***************************************************************************)

\* A step of the turn that leaves the mailbox, the injects and the cancels alone.
Calm == UNCHANGED <<mailbox, delivered, cancelled>>

\* Such a step keeps the invariant if it keeps the conversation and the batch.
LEMMA Moves ==
  ASSUME TurnInv, Calm, NEW at, NEW ask, Becomes(agent, agent', at, ask),
         agent.at \notin {"idle", "finish"}, at # "idle",
         agent'.reason = agent.reason \/ agent.reason # "cancel",
         ask = "question" => at = "tool", ask = "continue" <=> at = "continue",
         ProcsOK(procs'), SettingsOK(env'),
         messages' \in Seq(Messages), Grounded(messages'), BatchIsOpen(agent', messages')
  PROVE  TurnInv'
<1>1. TurnType'
  BY DEF TurnInv, TurnType, Calm, Becomes
<1>2. AwaitIsRight(agent)'
  BY DEF TurnInv, TurnType, AwaitIsRight, Becomes
<1>3. CancelHolds(agent, cancelled)'
  BY DEF TurnInv, TurnType, CancelHolds, Becomes, Calm
<1>4. MailboxIsFresh(agent, mailbox)'
  BY DEF TurnInv, TurnType, MailboxIsFresh, AwaitIsRight, Becomes, Calm
<1>5. InjectInItsTurn'
  BY DEF TurnInv, InjectInItsTurn, Calm
<1>6. QED BY <1>1, <1>2, <1>3, <1>4, <1>5 DEF TurnInv

\* The turn reaches its end.
LEMMA FinishTurnKeeps ==
  ASSUME TurnInv, Calm, UNCHANGED procs, SettingsOK(env'), NEW a, NEW ms, NEW stop, FinishTurn(a, ms, stop),
         AgentOK(a), a.ask # "question", a.ask # "continue", agent.at \notin {"idle", "finish"},
         a.turn = agent.turn, a.active = agent.active, a.reason = agent.reason,
         ms \in Seq(Messages), Grounded(ms),
         \A i, j \in 1..Len(a.batch) : a.batch[i] = a.batch[j] => i = j
  PROVE  TurnInv'
<1>1. agent' = Finishing(a, stop) /\ messages' \in {ms, WithCancelNote(ms)}
  BY DEF FinishTurn
<1>2. Becomes(a, agent', "finish", a.ask) /\ KeepsReason(a, agent')
  BY <1>1, FinishingFacts
<1>3. messages' \in Seq(Messages) /\ Grounded(messages')
  BY <1>1, NoteGrounded
<1>4. TurnType'
  BY <1>2, <1>3 DEF TurnInv, TurnType, Calm, Becomes
<1>5. AwaitIsRight(agent)'
  BY <1>2 DEF TurnInv, TurnType, AwaitIsRight, Becomes
<1>6. CancelHolds(agent, cancelled)'
  BY <1>2 DEF TurnInv, TurnType, CancelHolds, Becomes, Calm, KeepsReason
<1>7. MailboxIsFresh(agent, mailbox)'
  BY <1>2 DEF TurnInv, TurnType, MailboxIsFresh, AwaitIsRight, Becomes, Calm
<1>8. BatchIsOpen(agent, messages)'
  BY <1>2 DEF BatchIsOpen, Becomes, Answered, Calling, Judged
<1>9. InjectInItsTurn'
  BY DEF TurnInv, InjectInItsTurn, Calm
<1>10. QED BY <1>3, <1>4, <1>5, <1>6, <1>7, <1>8, <1>9 DEF TurnInv

\* The parts of the invariant.
LEMMA Parts ==
  ASSUME TurnInv
  PROVE  /\ AgentOK(agent) /\ messages \in Seq(Messages) /\ ProcsOK(procs) /\ SettingsOK(env)
         /\ AwaitIsRight(agent) /\ BatchIsOpen(agent, messages) /\ Grounded(messages)
BY DEF TurnInv, TurnType

\* Only a tool and the request to continue ask the user.
LEMMA AsksNothing ==
  ASSUME TurnInv, agent.at \notin {"tool", "continue"} PROVE agent.ask = "none"
BY DEF TurnInv, TurnType, AgentOK, AwaitIsRight

\* What the environment spends is no number of a call.
LEMMA SpendKeeps ==
  ASSUME SettingsOK(env), NEW what \in SettingFields \ {"calls"}, Spend(what) PROVE SettingsOK(env')
BY DEF SettingsOK, SettingFields, Spend

\* A call of the last answer is open.
LEMMA LastIsOpen ==
  ASSUME NEW ms, Len(ms) \in Nat, Len(ms) > 0, ms[Len(ms)].role = "assistant", NEW c, c \in ms[Len(ms)].calls
  PROVE  IsOpen(ms, c)
<1>1. Len(ms) \in 1..Len(ms) /\ \A k \in (Len(ms) + 1)..Len(ms) : FALSE
  OBVIOUS
<1>2. QED BY <1>1 DEF IsOpen

\* In an await that is about no call the batch need not be open.
LEMMA NoCall ==
  ASSUME TurnInv, NEW at, NEW ask, Becomes(agent, agent', at, ask), at \notin Answered \cup Calling
  PROVE  BatchIsOpen(agent', messages')
BY DEF TurnInv, BatchIsOpen, Becomes, Calling

\* From one await about a call to another one.
LEMMA SameCall ==
  ASSUME TurnInv, NEW at, NEW ask, Becomes(agent, agent', at, ask), UNCHANGED messages,
         at \in Calling, agent.at \in Calling, at \in Judged => Len(agent.batch) > 0
  PROVE  BatchIsOpen(agent', messages')
BY DEF TurnInv, BatchIsOpen, Becomes, Answered, Calling, Judged

\* The prompt joins the conversation.
LEMMA UserAckedKeeps == ASSUME TurnInv, UserAcked PROVE TurnInv'
<1>1. agent.ask = "none"
  BY AsksNothing DEF UserAcked
<1>2. Becomes(agent, agent', "fit", "none") /\ KeepsReason(agent, agent')
  BY <1>1, Parts DEF UserAcked, Becomes, KeepsReason, AgentOK, AgentFields
<1>3. User(agent.turn) \in Messages /\ User(agent.turn).role # "tool"
  BY Parts DEF User, Messages, Roles, AgentOK
<1>4. messages' \in Seq(Messages) /\ Grounded(messages')
  BY <1>3, Parts, GroundedAppend DEF UserAcked
<1>5. BatchIsOpen(agent', messages')
  BY <1>2, NoCall DEF Answered, Calling, Judged
<1>6. QED BY <1>2, <1>4, <1>5, Parts, Moves DEF UserAcked, Calm, KeepsReason

\* The context fits, is made to fit, or ends the turn.
LEMMA CheckFitKeeps == ASSUME TurnInv, CheckFit PROVE TurnInv'
<1>1. agent.ask = "none" /\ agent.at \in {"fit", "refit"} /\ Calm /\ UNCHANGED procs
  BY AsksNothing DEF CheckFit, Calm
<1>2. ASSUME agent' = StartModel(agent), UNCHANGED env, messages' \in Seq(Messages), Grounded(messages')
      PROVE TurnInv'
  <2>1. Becomes(agent, agent', "model", "none") /\ KeepsReason(agent, agent')
    BY <1>1, <1>2, Parts, StartModelFacts
  <2>2. BatchIsOpen(agent', messages')
    BY <2>1, NoCall DEF Answered, Calling, Judged
  <2>3. QED BY <1>1, <1>2, <2>1, <2>2, Parts, Moves DEF KeepsReason
<1>3. ASSUME Spend("compactions"), agent' = [SetPhase(agent, "compacting") EXCEPT !.at = "fitCompact"], UNCHANGED messages
      PROVE TurnInv'
  <2>1. Becomes(agent, agent', "fitCompact", "none") /\ KeepsReason(agent, agent')
    BY <1>1, <1>3, Parts DEF SetPhase, Becomes, KeepsReason, AgentOK, AgentFields
  <2>2. SettingsOK(env')
    BY <1>3, Parts, SpendKeeps DEF SettingFields
  <2>3. BatchIsOpen(agent', messages')
    BY <2>1, NoCall DEF Answered, Calling, Judged
  <2>4. QED BY <1>1, <1>3, <2>1, <2>2, <2>3, Parts, Moves DEF KeepsReason
<1> DEFINE kept == DropOldToolResults(messages)
<1>4. kept \in Seq(Messages) /\ Grounded(kept)
  BY Parts, WithoutResults DEF DropOldToolResults
<1> HIDE DEF kept
<1>5. ASSUME EndsTooLarge(kept), UNCHANGED env PROVE TurnInv'
  <2>1. FinishTurn(agent, kept, "end")
    BY <1>5 DEF EndsTooLarge
  <2>2. \A i, j \in 1..Len(agent.batch) : agent.batch[i] = agent.batch[j] => i = j
    BY Parts DEF BatchIsOpen
  <2>3. QED BY <1>1, <1>4, <1>5, <2>1, <2>2, Parts, FinishTurnKeeps
<1>6. CASE agent' = StartModel(agent) /\ UNCHANGED <<messages, wire, env>>
  BY <1>2, <1>6, Parts
<1>7. CASE /\ agent.at = "fit" /\ Allowed("compactions") /\ Spend("compactions")
           /\ agent' = [SetPhase(agent, "compacting") EXCEPT !.at = "fitCompact"]
           /\ UNCHANGED <<messages, wire>>
  BY <1>3, <1>7
<1>8. CASE /\ \/ kept # messages /\ messages' = kept /\ agent' = StartModel(agent) /\ UNCHANGED wire
              \/ EndsTooLarge(kept)
           /\ UNCHANGED env
  BY <1>2, <1>4, <1>5, <1>8
<1>9. QED BY <1>6, <1>7, <1>8 DEF CheckFit, kept

\* The compacting model answers.
LEMMA CompactDoneKeeps == ASSUME TurnInv, CompactDone PROVE TurnInv'
<1> DEFINE at == IF agent.at = "compact" THEN "handle" ELSE "refit"
<1>1. agent.ask = "none" /\ agent.at \in {"fitCompact", "compact"} /\ Calm /\ UNCHANGED <<procs, env>>
  BY AsksNothing DEF CompactDone, Calm
<1>2. Becomes(agent, agent', at, "none") /\ KeepsReason(agent, agent')
  BY <1>1, Parts DEF CompactDone, Becomes, KeepsReason, AgentOK, AgentFields
<1>3. messages' \in {messages, Compact(messages)}
  BY DEF CompactDone
<1>4. /\ messages' \in Seq(Messages) /\ Grounded(messages')
      /\ Len(messages) > 0 /\ messages[Len(messages)].role = "assistant" =>
           Len(messages') > 0 /\ messages'[Len(messages')] = messages[Len(messages)]
  BY <1>3, Parts, CompactGrounded
<1>5. BatchIsOpen(agent', messages')
  <2>1. CASE agent.at = "compact"
    BY <1>2, <1>4, <2>1, Parts DEF BatchIsOpen, Becomes, Answered, Calling, Judged
  <2>2. CASE agent.at # "compact"
    <3>1. Becomes(agent, agent', "refit", "none")
      BY <1>2, <2>2
    <3>2. QED BY <3>1, NoCall DEF Answered, Calling, Judged
  <2>3. QED BY <2>1, <2>2
<1>6. QED BY <1>1, <1>2, <1>4, <1>5, Parts, Moves DEF KeepsReason

\* An aborted call of the model is made again or ends the turn.
LEMMA ModelAbortedKeeps == ASSUME TurnInv, ModelAborted PROVE TurnInv'
<1>1. agent.ask = "none" /\ agent.at = "model" /\ Calm /\ UNCHANGED <<procs, env>>
  BY AsksNothing DEF ModelAborted, Calm
<1>2. CASE Reissue
  <2>1. agent' = [agent EXCEPT !.at = "fit", !.abort = "none", !.reason = "none", !.reissued = TRUE]
        /\ messages' = Append(messages, User(agent.turn)) /\ agent.reason # "cancel"
    BY <1>2 DEF ModelAborted, Reissue
  <2>2. Becomes(agent, agent', "fit", "none")
    BY <1>1, <2>1, Parts DEF Becomes, AgentOK, AgentFields
  <2>3. User(agent.turn) \in Messages /\ User(agent.turn).role # "tool"
    BY Parts DEF User, Messages, Roles, AgentOK
  <2>4. messages' \in Seq(Messages) /\ Grounded(messages')
    BY <2>1, <2>3, Parts, GroundedAppend
  <2>5. BatchIsOpen(agent', messages')
    BY <2>2, NoCall DEF Answered, Calling, Judged
  <2>6. QED BY <1>1, <2>1, <2>2, <2>4, <2>5, Parts, Moves
<1>3. CASE ~Reissue
  <2> DEFINE a == [agent EXCEPT !.abort = "none"]
  <2>1. FinishTurn(a, messages, "cancelled")
    BY <1>3 DEF ModelAborted
  <2>2. Becomes(agent, a, "model", "none") /\ KeepsReason(agent, a)
    BY <1>1, Parts DEF Becomes, KeepsReason, AgentOK, AgentFields
  <2> HIDE DEF a
  <2>3. \A i, j \in 1..Len(a.batch) : a.batch[i] = a.batch[j] => i = j
    BY <2>2, Parts DEF BatchIsOpen, Becomes
  <2>4. QED BY <1>1, <2>1, <2>2, <2>3, Parts, FinishTurnKeeps DEF Becomes, KeepsReason
<1>4. QED BY <1>2, <1>3

\* The end of a turn by an error: what waits in the mailbox is discarded.
LEMMA ErrorEndKeeps ==
  ASSUME TurnInv, EndsWithError(agent), agent.ask = "none", UNCHANGED <<messages, procs, cancelled>>, SettingsOK(env')
  PROVE  TurnInv'
<1>1. agent' = [SetPhase(agent, "idle") EXCEPT !.at = "idle", !.active = FALSE, !.abort = "none", !.batch = <<>>]
      /\ mailbox' = {} /\ UNCHANGED delivered
  BY DEF EndsWithError, DiscardLate
<1>2. Becomes(agent, SetPhase(agent, "idle"), agent.at, agent.ask)
  BY Parts, PhaseFacts
<1>3. /\ agent' = [f \in AgentFields |-> agent'[f]] /\ agent'.turn = agent.turn /\ agent'.at = "idle"
      /\ agent'.ask = "none" /\ agent'.batch = <<>>
  BY <1>1, <1>2 DEF Becomes, AgentOK, AgentFields
<1>4. agent'.active = FALSE
  BY <1>1, <1>2 DEF Becomes, AgentOK, AgentFields
<1>5. AgentOK(agent')
  <2>1. agent'.turn \in Nat /\ agent'.batch \in Seq(Nat) /\ agent'.ask \in {"none", "question", "continue"}
    BY <1>3, Parts DEF AgentOK
  <2>2. agent'.active \in BOOLEAN
    BY <1>4
  <2>3. QED BY <1>3, <2>1, <2>2 DEF AgentOK
<1>6. TurnType'
  BY <1>5 DEF TurnInv, TurnType
<1>7. AwaitIsRight(agent)'
  BY <1>3, <1>4 DEF AwaitIsRight
<1>8. CancelHolds(agent, cancelled)'
  BY <1>3, <1>4 DEF TurnInv, CancelHolds
<1>9. MailboxIsFresh(agent, mailbox)'
  BY <1>1 DEF MailboxIsFresh
<1>10. BatchIsOpen(agent, messages)'
  BY <1>3 DEF BatchIsOpen, Answered, Calling, Judged
<1>11. InjectInItsTurn'
  BY <1>1 DEF TurnInv, InjectInItsTurn
<1>12. Grounded(messages)'
  BY Parts
<1>13. QED BY <1>6, <1>7, <1>8, <1>9, <1>10, <1>11, <1>12 DEF TurnInv

\* The call of the model fails.
LEMMA ModelFailsKeeps == ASSUME TurnInv, ModelFails PROVE TurnInv'
<1>1. agent.ask = "none"
  BY AsksNothing DEF ModelFails
<1>2. SettingsOK(env')
  BY Parts, SpendKeeps DEF ModelFails, SettingFields
<1>3. QED BY <1>1, <1>2, ErrorEndKeeps DEF ModelFails

\* The answer joins the conversation, with its calls.
LEMMA ModelAnswersKeeps == ASSUME TurnInv, ModelAnswers PROVE TurnInv'
<1>1. agent.ask = "none" /\ agent.at = "model" /\ Calm /\ UNCHANGED procs
  BY AsksNothing DEF ModelAnswers, Calm
<1>2. PICK stop \in Stops, n \in 0..BatchMax :
       LET batch == [i \in 1..n |-> env.calls - i + 1]
           more  == n > 0 \/ stop = "pause"
       IN  /\ n <= env.calls /\ (n > 0 => stop = "end") /\ (more => Allowed("rounds"))
           /\ messages' = Append(messages, Assistant(Range(batch)))
           /\ agent' = [agent EXCEPT !.at = "response", !.abort = "none", !.stop = stop, !.batch = batch]
           /\ env' = [env EXCEPT !.calls = @ - n, !.rounds = IF more THEN @ - 1 ELSE @]
  BY DEF ModelAnswers
<1> DEFINE batch == [i \in 1..n |-> env.calls - i + 1]
<1>3. n \in Nat /\ env.calls \in Nat /\ n <= env.calls
  BY <1>2, Parts, TurnConstants DEF SettingsOK
<1>4. batch \in Seq(Nat) /\ Len(batch) = n /\ \A i \in 1..n : batch[i] = env.calls - i + 1
  BY <1>3
<1>5. /\ agent' = [agent EXCEPT !.at = "response", !.abort = "none", !.stop = stop, !.batch = batch]
      /\ messages' = Append(messages, Assistant(Range(batch)))
      /\ env' = [env EXCEPT !.calls = env.calls - n, !.rounds = IF n > 0 \/ stop = "pause" THEN env.rounds - 1 ELSE env.rounds]
  BY <1>2
<1>6. Range(batch) \subseteq Nat /\ \A i \in 1..n : batch[i] \in Range(batch)
  BY <1>3 DEF Range
<1> HIDE DEF batch
<1>7. SettingsOK(env')
  <2>1. env' = [f \in SettingFields |-> env'[f]] /\ env'.calls = env.calls - n
    BY <1>5, Parts DEF SettingsOK, SettingFields
  <2>2. QED BY <2>1, <1>3 DEF SettingsOK
<1>8. /\ AgentOK(agent') /\ agent'.at = "response" /\ agent'.ask = "none" /\ agent'.batch = batch
      /\ agent'.turn = agent.turn /\ agent'.active = agent.active /\ agent'.reason = agent.reason
  BY <1>1, <1>4, <1>5, Parts DEF AgentOK, AgentFields
<1> DEFINE m == Assistant(Range(batch))
<1>9. m \in Messages /\ m.role = "assistant" /\ m.calls = Range(batch)
  BY <1>6 DEF Assistant, Messages, Roles
<1> HIDE DEF m
<1>10. messages' = Append(messages, m)
  BY <1>5 DEF m
<1>11. messages' \in Seq(Messages) /\ Grounded(messages') /\ Len(messages') = Len(messages) + 1
       /\ messages'[Len(messages')] = m /\ Len(messages') > 0
  <2>1. messages' \in Seq(Messages) /\ Len(messages') = Len(messages) + 1 /\ messages'[Len(messages')] = m /\ Len(messages) \in Nat
    BY <1>9, <1>10, Parts, AppendProperties
  <2>2. Grounded(messages')
    BY <1>9, <1>10, Parts, GroundedAppend
  <2>3. QED BY <2>1, <2>2
<1>12. \A i, j \in 1..Len(batch) : batch[i] = batch[j] => i = j
  BY <1>3, <1>4
<1>13. \A i \in 1..Len(batch) : batch[i] \in m.calls
  BY <1>4, <1>6, <1>9
<1>14. BatchIsOpen(agent', messages')
  BY <1>8, <1>9, <1>11, <1>12, <1>13 DEF BatchIsOpen, Answered, Calling, Judged
<1>15. TurnType'
  BY <1>1, <1>7, <1>8, <1>11 DEF TurnInv, TurnType, Calm
<1>16. AwaitIsRight(agent)'
  BY <1>1, <1>8 DEF TurnInv, AwaitIsRight
<1>17. CancelHolds(agent, cancelled)'
  BY <1>1, <1>8 DEF TurnInv, CancelHolds, Calm
<1>18. MailboxIsFresh(agent, mailbox)'
  BY <1>1, <1>8 DEF TurnInv, MailboxIsFresh, AwaitIsRight, Calm
<1>19. InjectInItsTurn'
  BY <1>1 DEF TurnInv, InjectInItsTurn, Calm
<1>20. QED BY <1>11, <1>14, <1>15, <1>16, <1>17, <1>18, <1>19 DEF TurnInv

\* The answer is compacted away up to its end.
LEMMA CompactAfterAnswerKeeps == ASSUME TurnInv, CompactAfterAnswer PROVE TurnInv'
<1>1. agent.ask = "none" /\ agent.at = "response" /\ Calm /\ UNCHANGED <<messages, procs>>
  BY AsksNothing DEF CompactAfterAnswer, Calm
<1>2. Becomes(agent, agent', "compact", "none") /\ KeepsReason(agent, agent')
  BY <1>1, Parts DEF CompactAfterAnswer, SetPhase, Becomes, KeepsReason, AgentOK, AgentFields
<1>3. SettingsOK(env')
  BY Parts, SpendKeeps DEF CompactAfterAnswer, SettingFields
<1>4. BatchIsOpen(agent', messages')
  BY <1>1, <1>2, Parts DEF BatchIsOpen, Becomes, Answered, Calling, Judged
<1>5. QED BY <1>1, <1>2, <1>3, <1>4, Parts, Moves DEF KeepsReason

\* The answer's stop reason decides how the turn goes on.
LEMMA HandleAnswerKeeps == ASSUME TurnInv, HandleAnswer PROVE TurnInv'
<1>1. agent.ask = "none" /\ agent.at \in Answered /\ agent.at # "compact" /\ Calm /\ UNCHANGED <<procs, env>>
  BY AsksNothing DEF HandleAnswer, Calm, Answered
<1>2. ASSUME NEW stop, FinishTurn(agent, messages, stop) PROVE TurnInv'
  <2>1. \A i, j \in 1..Len(agent.batch) : agent.batch[i] = agent.batch[j] => i = j
    BY Parts DEF BatchIsOpen
  <2>2. agent.at \notin {"idle", "finish"}
    BY <1>1 DEF Answered
  <2>3. QED BY <1>1, <1>2, <2>1, <2>2, Parts, FinishTurnKeeps
<1>3. ASSUME agent' = [agent EXCEPT !.at = "fit", !.paused = TRUE], UNCHANGED messages PROVE TurnInv'
  <2>1. Becomes(agent, agent', "fit", "none") /\ KeepsReason(agent, agent')
    BY <1>1, <1>3, Parts DEF Becomes, KeepsReason, AgentOK, AgentFields
  <2>2. BatchIsOpen(agent', messages')
    BY <2>1, NoCall DEF Answered, Calling, Judged
  <2>3. agent.at \notin {"idle", "finish"}
    BY <1>1 DEF Answered
  <2>4. QED BY <1>1, <1>3, <2>1, <2>2, <2>3, Parts, Moves DEF KeepsReason
<1>4. ASSUME agent' = [agent EXCEPT !.at = "next"], UNCHANGED messages PROVE TurnInv'
  <2>1. Becomes(agent, agent', "next", "none") /\ KeepsReason(agent, agent')
    BY <1>1, <1>4, Parts DEF Becomes, KeepsReason, AgentOK, AgentFields
  <2>2. Len(messages) \in Nat /\ Len(messages) > 0 /\ messages[Len(messages)].role = "assistant"
        /\ \A i \in 1..Len(agent.batch) : agent.batch[i] \in messages[Len(messages)].calls
    BY <1>1, Parts DEF BatchIsOpen
  <2>3. \A i \in 1..Len(agent.batch) : IsOpen(messages, agent.batch[i])
    BY <2>2, LastIsOpen
  <2>4. BatchIsOpen(agent', messages')
    BY <1>4, <2>1, <2>3, Parts DEF BatchIsOpen, Becomes, Answered, Calling, Judged
  <2>5. agent.at \notin {"idle", "finish"}
    BY <1>1 DEF Answered
  <2>6. QED BY <1>1, <1>4, <2>1, <2>4, <2>5, Parts, Moves DEF KeepsReason
<1>5. CASE agent.stop = "pause" /\ ~agent.paused
  BY <1>3, <1>5 DEF HandleAnswer
<1>6. CASE agent.stop = "pause" /\ agent.paused
  BY <1>2, <1>6 DEF HandleAnswer
<1>7. CASE agent.stop \in {"refusal", "max_output"}
  BY <1>2, <1>7 DEF HandleAnswer
<1>8. CASE agent.stop = "end" /\ agent.batch = <<>>
  BY <1>2, <1>8 DEF HandleAnswer
<1>9. CASE /\ ~(agent.stop = "pause" /\ ~agent.paused) /\ ~(agent.stop = "pause" /\ agent.paused)
           /\ ~(agent.stop \in {"refusal", "max_output"}) /\ ~(agent.stop = "end" /\ agent.batch = <<>>)
  BY <1>4, <1>9 DEF HandleAnswer
<1>10. QED BY <1>5, <1>6, <1>7, <1>8, <1>9

\* The head of the loop over a batch.
LEMMA NextCallKeeps == ASSUME TurnInv, NextCall PROVE TurnInv'
<1>1. agent.ask = "none" /\ agent.at = "next" /\ Calm /\ UNCHANGED <<procs, env>>
  BY AsksNothing DEF NextCall, Calm
<1>2. CASE Aborted
  <2> DEFINE a == [agent EXCEPT !.batch = <<>>]
  <2>1. FinishTurn(a, messages, "cancelled")
    BY <1>2 DEF NextCall
  <2>2. AgentOK(a) /\ a.ask = "none" /\ a.turn = agent.turn /\ a.active = agent.active
        /\ a.reason = agent.reason /\ a.batch = <<>>
    BY <1>1, Parts DEF AgentOK, AgentFields
  <2> HIDE DEF a
  <2>3. \A i, j \in 1..Len(a.batch) : a.batch[i] = a.batch[j] => i = j
    BY <2>2
  <2>4. QED BY <1>1, <2>1, <2>2, <2>3, Parts, FinishTurnKeeps
<1>3. CASE ~Aborted /\ agent.batch = <<>>
  <2>1. agent' = [agent EXCEPT !.at = "fit"] /\ UNCHANGED messages
    BY <1>3 DEF NextCall
  <2>2. Becomes(agent, agent', "fit", "none") /\ KeepsReason(agent, agent')
    BY <1>1, <2>1, Parts DEF Becomes, KeepsReason, AgentOK, AgentFields
  <2>3. BatchIsOpen(agent', messages')
    BY <2>2, NoCall DEF Answered, Calling, Judged
  <2>4. QED BY <1>1, <2>1, <2>2, <2>3, Parts, Moves DEF KeepsReason
<1>4. CASE ~Aborted /\ agent.batch # <<>>
  <2>1. /\ agent' = IF agent.made < Limit THEN Request(agent)
                    ELSE IF env.auto THEN Request([agent EXCEPT !.made = 0])
                    ELSE [SetPhase(agent, "waiting_answer") EXCEPT
                            !.at = "continue", !.ask = "continue", !.before = agent.phase]
        /\ UNCHANGED messages
    BY <1>4 DEF NextCall
  <2>2. Len(agent.batch) > 0
    BY <1>4, Parts DEF AgentOK
  <2>3. ASSUME NEW at \in Judged, NEW ask, Becomes(agent, agent', at, ask), KeepsReason(agent, agent'),
               ask = "question" => at = "tool", ask = "continue" <=> at = "continue"
        PROVE TurnInv'
    <3>1. at # "idle" /\ at \in Calling /\ agent.at \in Calling
      BY <1>1, <2>3 DEF Judged, Calling
    <3>2. BatchIsOpen(agent', messages')
      BY <2>1, <2>2, <2>3, <3>1, SameCall
    <3>3. QED BY <1>1, <2>1, <2>3, <3>1, <3>2, Parts, Moves DEF KeepsReason
  <2>4. CASE agent' = Request(agent)
    <3>1. Becomes(agent, agent', "request", "none") /\ KeepsReason(agent, agent')
      BY <1>1, <2>4, Parts, RequestFacts
    <3>2. QED BY <2>3, <3>1 DEF Judged
  <2>5. CASE agent' = Request([agent EXCEPT !.made = 0])
    <3> DEFINE a == [agent EXCEPT !.made = 0]
    <3>1. Becomes(agent, a, "next", "none") /\ KeepsReason(agent, a)
      BY <1>1, Parts DEF Becomes, KeepsReason, AgentOK, AgentFields
    <3>2. agent' = Request(a)
      BY <2>5
    <3> HIDE DEF a
    <3>3. Becomes(a, agent', "request", "none") /\ KeepsReason(a, agent')
      BY <3>1, <3>2, RequestFacts DEF Becomes
    <3>4. Becomes(agent, agent', "request", "none") /\ KeepsReason(agent, agent')
      BY <3>1, <3>3 DEF Becomes, KeepsReason
    <3>5. QED BY <2>3, <3>4 DEF Judged
  <2>6. CASE agent' = [SetPhase(agent, "waiting_answer") EXCEPT
                         !.at = "continue", !.ask = "continue", !.before = agent.phase]
    <3>1. Becomes(agent, agent', "continue", "continue") /\ KeepsReason(agent, agent')
      BY <2>6, Parts DEF SetPhase, Becomes, KeepsReason, AgentOK, AgentFields
    <3>2. QED BY <2>3, <3>1 DEF Judged
  <2>7. QED BY <2>1, <2>4, <2>5, <2>6
<1>5. QED BY <1>2, <1>3, <1>4

\* A step from one await about a call to another one that asks nothing.
LEMMA CallMoves ==
  ASSUME TurnInv, Calm, NEW at \in Judged, NEW ask, Becomes(agent, agent', at, ask), KeepsReason(agent, agent'),
         agent.at \in Judged, ask = "question" => at = "tool", ask = "continue" <=> at = "continue",
         UNCHANGED messages, ProcsOK(procs'), SettingsOK(env')
  PROVE  TurnInv'
<1>1. Len(agent.batch) > 0
  BY Parts DEF BatchIsOpen
<1>2. at # "idle" /\ at \in Calling /\ agent.at \in Calling /\ agent.at \notin {"idle", "finish"}
  BY DEF Judged, Calling
<1>3. BatchIsOpen(agent', messages')
  BY <1>1, <1>2, SameCall
<1>4. QED BY <1>2, <1>3, Parts, Moves DEF KeepsReason

\* The gate's answer.
LEMMA RequestAckedKeeps == ASSUME TurnInv, RequestAcked PROVE TurnInv'
<1>1. agent.ask = "none" /\ agent.at = "request" /\ UNCHANGED <<messages, procs, cancelled>>
  BY AsksNothing DEF RequestAcked
<1>2. CASE Allowed("failures") /\ Spend("failures") /\ EndsWithError(agent)
  <2>1. SettingsOK(env')
    BY <1>2, Parts, SpendKeeps DEF SettingFields
  <2>2. QED BY <1>1, <1>2, <2>1, ErrorEndKeeps
<1>3. CASE /\ agent' \in {[agent EXCEPT !.at = "allowed"], [agent EXCEPT !.at = "pending"],
                          [agent EXCEPT !.at = "result", !.status = "blocked"],
                          [agent EXCEPT !.at = "result", !.status = "ended"]}
           /\ UNCHANGED <<mailbox, delivered, env>>
  <2>1. \E at \in {"allowed", "pending", "result"} :
          Becomes(agent, agent', at, "none") /\ KeepsReason(agent, agent')
    <3>1. CASE agent' = [agent EXCEPT !.at = "allowed"]
      <4>1. Becomes(agent, agent', "allowed", "none") /\ KeepsReason(agent, agent')
        BY <1>1, <3>1, Parts DEF Becomes, KeepsReason, AgentOK, AgentFields
      <4>2. QED BY <4>1
    <3>2. CASE agent' = [agent EXCEPT !.at = "pending"]
      <4>1. Becomes(agent, agent', "pending", "none") /\ KeepsReason(agent, agent')
        BY <1>1, <3>2, Parts DEF Becomes, KeepsReason, AgentOK, AgentFields
      <4>2. QED BY <4>1
    <3>3. CASE agent' \in {[agent EXCEPT !.at = "result", !.status = "blocked"],
                           [agent EXCEPT !.at = "result", !.status = "ended"]}
      <4>1. Becomes(agent, agent', "result", "none") /\ KeepsReason(agent, agent')
        BY <1>1, <3>3, Parts DEF Becomes, KeepsReason, AgentOK, AgentFields
      <4>2. QED BY <4>1
    <3>4. QED BY <1>3, <3>1, <3>2, <3>3
  <2>2. PICK at \in {"allowed", "pending", "result"} : Becomes(agent, agent', at, "none") /\ KeepsReason(agent, agent')
    BY <2>1
  <2>3. at \in Judged /\ agent.at \in Judged /\ at # "continue" /\ Calm
    BY <1>1, <1>3 DEF Judged, Calm
  <2>4. QED BY <1>1, <1>3, <2>2, <2>3, Parts, CallMoves
<1>4. QED BY <1>2, <1>3 DEF RequestAcked

\* The user decided about the pending effect.
LEMMA ResolveKeeps == ASSUME TurnInv, Resolve PROVE TurnInv'
<1>1. agent.ask = "none" /\ agent.at = "pending" /\ Calm /\ UNCHANGED <<messages, procs, env>>
  BY AsksNothing DEF Resolve, Calm
<1>2. ASSUME NEW at \in {"allowed", "result"}, Becomes(agent, agent', at, "none"), KeepsReason(agent, agent')
      PROVE TurnInv'
  <2>1. at \in Judged /\ agent.at \in Judged /\ at # "continue"
    BY <1>1 DEF Judged
  <2>2. QED BY <1>1, <1>2, <2>1, Parts, CallMoves
<1>3. CASE agent' = [agent EXCEPT !.at = "allowed"]
  <2>1. Becomes(agent, agent', "allowed", "none") /\ KeepsReason(agent, agent')
    BY <1>1, <1>3, Parts DEF Becomes, KeepsReason, AgentOK, AgentFields
  <2>2. QED BY <1>2, <2>1
<1>4. CASE agent' = [agent EXCEPT !.at = "result", !.status = "blocked"]
  <2>1. Becomes(agent, agent', "result", "none") /\ KeepsReason(agent, agent')
    BY <1>1, <1>4, Parts DEF Becomes, KeepsReason, AgentOK, AgentFields
  <2>2. QED BY <1>2, <2>1
<1>5. QED BY <1>3, <1>4 DEF Resolve

\* The dispatch closure.
LEMMA DispatchKeeps == ASSUME TurnInv, Dispatch PROVE TurnInv'
<1>1. agent.ask = "none" /\ agent.at = "allowed" /\ Calm /\ UNCHANGED <<messages, procs>>
  BY AsksNothing DEF Dispatch, Calm
<1>2. SettingsOK(env')
  <2>1. UNCHANGED env \/ Spend("slow") \/ Spend("special")
    BY DEF Dispatch
  <2>2. QED BY <2>1, Parts, SpendKeeps DEF SettingFields
<1>3. ASSUME NEW tool \in {"plain", "slow", "question", "command"}, agent' = Started(tool) PROVE TurnInv'
  <2> DEFINE at == IF tool = "command" THEN "spawn" ELSE "tool"
             ask == IF tool = "question" THEN "question" ELSE "none"
  <2>1. Becomes(agent, agent', at, ask) /\ KeepsReason(agent, agent')
    BY <1>1, <1>3, Parts, StartedFacts
  <2>2. at \in Judged /\ agent.at \in Judged /\ at # "continue" /\ ask # "continue" /\ (ask = "question" => at = "tool")
    BY <1>1 DEF Judged
  <2> HIDE DEF at, ask
  <2>3. QED BY <1>1, <1>2, <2>1, <2>2, Parts, CallMoves
<1>4. CASE Aborted /\ agent' = [agent EXCEPT !.at = "result", !.status = "cancelled"] /\ UNCHANGED env
  <2>1. Becomes(agent, agent', "result", "none") /\ KeepsReason(agent, agent')
    BY <1>1, <1>4, Parts DEF Becomes, KeepsReason, AgentOK, AgentFields
  <2>2. "result" \in Judged /\ agent.at \in Judged
    BY <1>1 DEF Judged
  <2>3. QED BY <1>1, <1>2, <2>1, <2>2, Parts, CallMoves
<1>5. CASE \E tool \in {"plain", "slow", "question", "command"} : agent' = Started(tool)
  BY <1>3, <1>5
<1>6. QED
  <2>1. \/ Aborted /\ agent' = [agent EXCEPT !.at = "result", !.status = "cancelled"] /\ UNCHANGED env
        \/ agent' = Started("plain") \/ agent' = Started("slow")
        \/ \E tool \in {"question", "command"} : agent' = Started(tool)
    BY DEF Dispatch
  <2>2. QED BY <2>1, <1>4, <1>5

\* A command's process starts, or the gate refuses it.
LEMMA SpawnKeeps == ASSUME TurnInv, Spawn PROVE TurnInv'
<1>1. agent.ask = "none" /\ agent.at = "spawn" /\ Calm /\ UNCHANGED <<messages, env>>
  BY AsksNothing DEF Spawn, Calm
<1>2. ProcsOK(procs')
  BY Parts DEF Spawn, ProcsOK
<1>3. ASSUME NEW at \in {"tool", "result"}, Becomes(agent, agent', at, "none"), KeepsReason(agent, agent') PROVE TurnInv'
  <2>1. at \in Judged /\ agent.at \in Judged /\ at # "continue"
    BY <1>1 DEF Judged
  <2>2. QED BY <1>1, <1>2, <1>3, <2>1, Parts, CallMoves
<1>4. CASE agent' = [agent EXCEPT !.at = "tool"]
  <2>1. Becomes(agent, agent', "tool", "none") /\ KeepsReason(agent, agent')
    BY <1>1, <1>4, Parts DEF Becomes, KeepsReason, AgentOK, AgentFields
  <2>2. QED BY <1>3, <2>1
<1>5. CASE agent' = [agent EXCEPT !.at = "result", !.abort = "none", !.status = "error"]
  <2>1. Becomes(agent, agent', "result", "none") /\ KeepsReason(agent, agent')
    BY <1>1, <1>5, Parts DEF Becomes, KeepsReason, AgentOK, AgentFields
  <2>2. QED BY <1>3, <2>1
<1>6. QED BY <1>4, <1>5 DEF Spawn

\* The tool returns.
LEMMA ToolDoneKeeps == ASSUME TurnInv, ToolDone PROVE TurnInv'
<1>1. agent.ask = "none" /\ agent.at = "tool" /\ Calm /\ UNCHANGED <<messages, procs, env>>
  BY DEF ToolDone, Calm
<1>2. PICK status : agent' = [agent EXCEPT !.at = "result", !.abort = "none", !.status = status]
  BY DEF ToolDone
<1>3. Becomes(agent, agent', "result", "none") /\ KeepsReason(agent, agent')
  BY <1>1, <1>2, Parts DEF Becomes, KeepsReason, AgentOK, AgentFields
<1>4. "result" \in Judged /\ agent.at \in Judged
  BY <1>1 DEF Judged
<1>5. QED BY <1>1, <1>3, <1>4, Parts, CallMoves

\* The user answers the question of a tool.
LEMMA AnswerKeeps == ASSUME TurnInv, Answer PROVE TurnInv'
<1>1. agent.ask = "question" /\ agent.at = "tool" /\ Calm /\ UNCHANGED <<messages, procs, env>>
  BY Parts DEF Answer, Calm, AwaitIsRight
<1>2. Becomes(agent, Asked(agent), "tool", "none") /\ KeepsReason(agent, Asked(agent))
  BY <1>1, Parts, AskedFacts
<1>3. agent' = [Asked(agent) EXCEPT !.at = "result", !.abort = "none", !.status = "ok"]
  BY DEF Answer
<1>4. Becomes(agent, agent', "result", "none") /\ KeepsReason(agent, agent')
  BY <1>2, <1>3 DEF Becomes, KeepsReason, AgentOK, AgentFields
<1>5. "result" \in Judged /\ agent.at \in Judged
  BY <1>1 DEF Judged
<1>6. QED BY <1>1, <1>4, <1>5, Parts, CallMoves

\* The user lets the turn go on, or ends it.
LEMMA ContinueKeeps == ASSUME TurnInv, NEW proceed \in BOOLEAN, Continue(proceed) PROVE TurnInv'
<1>1. agent.ask = "continue" /\ agent.at = "continue" /\ Calm /\ UNCHANGED <<procs, env>>
  BY Parts DEF Continue, Calm, AwaitIsRight
<1>2. Becomes(agent, Asked(agent), "continue", "none") /\ KeepsReason(agent, Asked(agent))
  BY <1>1, Parts, AskedFacts
<1>3. CASE proceed
  <2> DEFINE a == [Asked(agent) EXCEPT !.made = 0]
  <2>1. Becomes(agent, a, "continue", "none") /\ KeepsReason(agent, a)
    BY <1>2 DEF Becomes, KeepsReason, AgentOK, AgentFields
  <2>2. agent' = Request(a) /\ UNCHANGED messages
    BY <1>3 DEF Continue
  <2> HIDE DEF a
  <2>3. Becomes(a, agent', "request", "none") /\ KeepsReason(a, agent')
    BY <2>1, <2>2, RequestFacts DEF Becomes
  <2>4. Becomes(agent, agent', "request", "none") /\ KeepsReason(agent, agent')
    BY <2>1, <2>3 DEF Becomes, KeepsReason
  <2>5. "request" \in Judged /\ agent.at \in Judged
    BY <1>1 DEF Judged
  <2>6. QED BY <1>1, <2>2, <2>4, <2>5, Parts, CallMoves
<1>4. CASE ~proceed
  <2>1. FinishTurn(Asked(agent), messages, "end")
    BY <1>4 DEF Continue
  <2> DEFINE a == Asked(agent)
  <2>2. AgentOK(a) /\ a.ask = "none" /\ a.turn = agent.turn /\ a.active = agent.active
        /\ a.reason = agent.reason /\ a.batch = agent.batch
    BY <1>2 DEF Becomes, KeepsReason
  <2>3. FinishTurn(a, messages, "end")
    BY <2>1
  <2> HIDE DEF a
  <2>4. \A i, j \in 1..Len(a.batch) : a.batch[i] = a.batch[j] => i = j
    BY <2>2, Parts DEF BatchIsOpen
  <2>5. QED BY <1>1, <2>2, <2>3, <2>4, Parts, FinishTurnKeeps
<1>5. QED BY <1>3, <1>4

\* The tail of a batch of different calls.
LEMMA TailFacts ==
  ASSUME NEW b \in Seq(Nat), Len(b) > 0, \A i, j \in 1..Len(b) : b[i] = b[j] => i = j
  PROVE  /\ Tail(b) \in Seq(Nat) /\ Head(b) = b[1] /\ Head(b) \in Nat /\ 1 \in 1..Len(b)
         /\ \A i \in 1..Len(Tail(b)) : Tail(b)[i] # Head(b) /\ \E k \in 1..Len(b) : Tail(b)[i] = b[k]
         /\ \A i, j \in 1..Len(Tail(b)) : Tail(b)[i] = Tail(b)[j] => i = j
<1>1. Tail(b) \in Seq(Nat) /\ Len(Tail(b)) = Len(b) - 1 /\ \A i \in 1..(Len(b) - 1) : Tail(b)[i] = b[i + 1]
  OBVIOUS
<1>2. Head(b) = b[1] /\ b[1] \in Nat /\ 1 \in 1..Len(b) /\ Len(b) \in Nat
  OBVIOUS
<1> DEFINE t == Tail(b)
<1> HIDE DEF t
<1>3. t \in Seq(Nat) /\ Len(t) = Len(b) - 1 /\ \A i \in 1..(Len(b) - 1) : t[i] = b[i + 1] /\ i + 1 \in 1..Len(b) /\ i + 1 # 1
  BY <1>1, <1>2 DEF t
<1>4. \A i \in 1..Len(t) : t[i] # b[1] /\ \E k \in 1..Len(b) : t[i] = b[k]
  BY <1>2, <1>3
<1>5. \A i, j \in 1..Len(t) : t[i] = t[j] => i = j
  <2>1. ASSUME NEW i \in 1..Len(t), NEW j \in 1..Len(t), t[i] = t[j] PROVE i = j
    <3>1. i + 1 = j + 1
      BY <1>3, <2>1
    <3>2. QED BY <3>1
  <2>2. QED BY <2>1
<1>6. QED BY <1>1, <1>2, <1>4, <1>5 DEF t

\* A result joins the conversation.
LEMMA ResultInKeeps == ASSUME TurnInv, ResultIn PROVE TurnInv'
<1>1. agent.ask = "none" /\ agent.at = "result" /\ UNCHANGED <<procs, cancelled, env>>
  BY AsksNothing DEF ResultIn
<1> DEFINE a == [agent EXCEPT !.at = "next", !.batch = Tail(agent.batch), !.tool = "none", !.status = "none"]
           m == ToolResult(Head(agent.batch))
<1>2. Len(agent.batch) > 0 /\ agent.batch \in Seq(Nat) /\ (\A i, j \in 1..Len(agent.batch) : agent.batch[i] = agent.batch[j] => i = j)
      /\ \A i \in 1..Len(agent.batch) : IsOpen(messages, agent.batch[i])
  BY <1>1, Parts DEF BatchIsOpen, Judged, Calling, AgentOK
<1>3. m \in Messages /\ m.role = "tool" /\ m.ref = agent.batch[1] /\ IsOpen(messages, m.ref)
  BY <1>2, TailFacts DEF ToolResult, Messages, Roles
<1>4. messages' = Append(messages, m)
  BY DEF ResultIn
<1>5. agent' = a \/ (agent.reason = "resume_tool_hang" /\ agent' = [a EXCEPT !.reason = "none"])
  BY DEF ResultIn
<1>6. AgentOK(a) /\ a.at = "next" /\ a.ask = "none" /\ a.batch = Tail(agent.batch) /\ a.turn = agent.turn
      /\ a.active = agent.active /\ a.reason = agent.reason
  BY <1>1, <1>2, TailFacts, Parts DEF AgentOK, AgentFields
<1> HIDE DEF a, m
<1>7. AgentOK(agent') /\ agent'.at = "next" /\ agent'.ask = "none" /\ agent'.batch = Tail(agent.batch)
      /\ agent'.turn = agent.turn /\ agent'.active = agent.active
      /\ (agent'.reason = agent.reason \/ agent.reason # "cancel")
  <2>1. CASE agent' = a
    BY <1>6, <2>1
  <2>2. CASE agent.reason = "resume_tool_hang" /\ agent' = [a EXCEPT !.reason = "none"]
    <3>1. Becomes(a, agent', "next", "none")
      BY <1>6, <2>2 DEF Becomes, AgentOK, AgentFields
    <3>2. QED BY <1>6, <2>2, <3>1 DEF Becomes
  <2>3. QED BY <1>5, <2>1, <2>2
<1>8. messages' \in Seq(Messages) /\ Grounded(messages')
  BY <1>3, <1>4, Parts, GroundedAppend
<1>9. BatchIsOpen(agent', messages')
  <2>1. ASSUME NEW i \in 1..Len(Tail(agent.batch)) PROVE IsOpen(messages', Tail(agent.batch)[i])
    <3>1. IsOpen(messages, Tail(agent.batch)[i]) /\ Tail(agent.batch)[i] # m.ref
      BY <1>2, <1>3, TailFacts
    <3>2. QED BY <1>3, <1>4, <3>1, Parts, OpenAppend
  <2>2. \A i, j \in 1..Len(Tail(agent.batch)) : Tail(agent.batch)[i] = Tail(agent.batch)[j] => i = j
    BY <1>2, TailFacts
  <2>3. QED BY <1>7, <2>1, <2>2 DEF BatchIsOpen, Answered, Calling, Judged
<1>10. agent.active /\ agent.turn > 0 /\ \A n \in mailbox : n.during = agent.turn /\ n.about = agent.turn
  BY <1>1, Parts DEF TurnInv, AwaitIsRight, MailboxIsFresh
<1>11. \/ UNCHANGED <<mailbox, delivered>>
       \/ Drain(agent.turn, "tool")
  BY DEF ResultIn
<1>12. MailboxIsFresh(agent, mailbox)'
  BY <1>7, <1>10, <1>11 DEF MailboxIsFresh, Drain
<1>13. InjectInItsTurn'
  <2>1. CASE UNCHANGED <<mailbox, delivered>>
    BY <2>1 DEF TurnInv, InjectInItsTurn
  <2>2. CASE Drain(agent.turn, "tool")
    <3>1. ASSUME NEW d \in delivered', d \notin delivered
          PROVE d.inject.during = agent.turn /\ d.inject.about = agent.turn /\ d.turn = agent.turn /\ d.where = "tool"
      BY <1>10, <2>2, <3>1 DEF Drain
    <3>2. QED BY <1>10, <3>1 DEF TurnInv, InjectInItsTurn
  <2>3. QED BY <1>11, <2>1, <2>2
<1>14. TurnType'
  BY <1>1, <1>7, <1>8 DEF TurnInv, TurnType
<1>15. AwaitIsRight(agent)'
  BY <1>7, <1>10 DEF AwaitIsRight
<1>16. CancelHolds(agent, cancelled)'
  BY <1>1, <1>7 DEF TurnInv, CancelHolds
<1>17. QED BY <1>8, <1>9, <1>12, <1>13, <1>14, <1>15, <1>16 DEF TurnInv

\* A turn begins.
LEMMA BeginKeeps ==
  ASSUME TurnInv, NEW a, NEW kind, AgentOK(a), a.turn = agent.turn, a.ask = "none", agent' = Begun(a, kind),
         \A i, j \in 1..Len(a.batch) : a.batch[i] = a.batch[j] => i = j,
         UNCHANGED <<messages, procs, cancelled>>, SettingsOK(env'),
         mailbox' = {} \/ kind = "empty", InjectInItsTurn'
  PROVE  TurnInv'
<1>1. /\ AgentOK(agent') /\ agent'.turn = agent.turn + 1 /\ agent'.active /\ agent'.reason = "none"
      /\ agent'.at = IF kind = "empty" THEN "finish" ELSE "user"
      /\ agent'.ask = "none" /\ agent'.batch = a.batch
  BY BegunFacts
<1>2. agent.turn \in Nat /\ cancelled.turn \in Nat /\ cancelled.turn <= agent.turn
  BY DEF TurnInv, TurnType, AgentOK, CancelHolds
<1>3. TurnType'
  BY <1>1 DEF TurnInv, TurnType
<1>4. AwaitIsRight(agent)'
  BY <1>1, <1>2 DEF AwaitIsRight
<1>5. CancelHolds(agent, cancelled)'
  BY <1>1, <1>2 DEF CancelHolds
<1>6. MailboxIsFresh(agent, mailbox)'
  BY <1>1 DEF MailboxIsFresh
<1>7. BatchIsOpen(agent, messages)'
  BY <1>1 DEF BatchIsOpen, Answered, Calling, Judged
<1>8. Grounded(messages)'
  BY Parts
<1>9. QED BY <1>3, <1>4, <1>5, <1>6, <1>7, <1>8 DEF TurnInv

\* The turn is left where it is.
LEMMA StaysKeeps ==
  ASSUME TurnInv, Becomes(agent, agent', agent.at, agent.ask), UNCHANGED <<messages, delivered>>,
         ProcsOK(procs'), SettingsOK(env'), cancelled' \in [turn : Nat, overruled : Nat],
         CancelHolds(agent', cancelled'), MailboxIsFresh(agent', mailbox')
  PROVE  TurnInv'
<1>1. TurnType'
  BY DEF TurnInv, TurnType, Becomes
<1>2. AwaitIsRight(agent)'
  BY DEF TurnInv, AwaitIsRight, Becomes
<1>3. BatchIsOpen(agent, messages)'
  BY DEF TurnInv, BatchIsOpen, Becomes
<1>4. InjectInItsTurn'
  BY DEF TurnInv, InjectInItsTurn
<1>5. QED BY <1>1, <1>2, <1>3, <1>4 DEF TurnInv

\* An Agent that is left alone, or only looks different.
LEMMA SameAgent ==
  ASSUME TurnInv, Becomes(agent, agent', agent.at, agent.ask), KeepsReason(agent, agent')
  PROVE  /\ UNCHANGED cancelled => CancelHolds(agent', cancelled')
         /\ UNCHANGED mailbox => MailboxIsFresh(agent', mailbox')
         /\ cancelled \in [turn : Nat, overruled : Nat]
BY DEF TurnInv, TurnType, CancelHolds, MailboxIsFresh, Becomes, KeepsReason

\* An unchanged Agent looks the same.
LEMMA Unchanged ==
  ASSUME AgentOK(agent), UNCHANGED agent
  PROVE  Becomes(agent, agent', agent.at, agent.ask) /\ KeepsReason(agent, agent')
BY DEF Becomes, KeepsReason

\* The acknowledgement of turn_finished.
LEMMA FinishAckedKeeps == ASSUME TurnInv, FinishAcked PROVE TurnInv'
<1>1. agent.ask = "none" /\ agent.at = "finish" /\ UNCHANGED <<messages, procs, cancelled, env, delivered>> /\ mailbox' = {}
  BY AsksNothing DEF FinishAcked, DiscardLate
<1> DEFINE a == [SetPhase(agent, "idle") EXCEPT !.at = "idle", !.active = FALSE, !.finishing = FALSE,
                                                !.reason = "none", !.queued = "none", !.batch = <<>>]
<1>2. agent' = a \/ agent' = Begun(a, agent.queued)
  BY DEF FinishAcked
<1>3. Becomes(agent, SetPhase(agent, "idle"), "finish", "none")
  BY <1>1, Parts, PhaseFacts
<1>4. /\ a = [f \in AgentFields |-> a[f]] /\ a.turn = agent.turn /\ a.at = "idle"
      /\ a.ask = "none" /\ a.batch = <<>>
  BY <1>3 DEF Becomes, AgentOK, AgentFields
<1>5. a.active = FALSE
  BY <1>3 DEF Becomes, AgentOK, AgentFields
<1> HIDE DEF a
<1>6. AgentOK(a)
  <2> agent.turn \in Nat /\ <<>> \in Seq(Nat)
    BY Parts DEF AgentOK
  <2>1. a.turn \in Nat /\ a.batch \in Seq(Nat) /\ a.ask \in {"none", "question", "continue"}
    BY <1>4
  <2>2. a.active \in BOOLEAN
    BY <1>5
  <2>3. QED BY <1>4, <2>1, <2>2 DEF AgentOK
<1>7. InjectInItsTurn'
  BY <1>1 DEF TurnInv, InjectInItsTurn
<1>8. CASE agent' = Begun(a, agent.queued)
  <2>1. \A i, j \in 1..Len(a.batch) : a.batch[i] = a.batch[j] => i = j
    BY <1>4
  <2>2. QED BY <1>1, <1>4, <1>6, <1>7, <1>8, <2>1, Parts, BeginKeeps
<1>9. CASE agent' = a
  <2>1. TurnType'
    BY <1>1, <1>6, <1>9 DEF TurnInv, TurnType
  <2>2. AwaitIsRight(agent)'
    BY <1>4, <1>5, <1>9 DEF AwaitIsRight
  <2>3. CancelHolds(agent, cancelled)'
    BY <1>1, <1>4, <1>5, <1>9 DEF TurnInv, CancelHolds
  <2>4. MailboxIsFresh(agent, mailbox)'
    BY <1>1 DEF MailboxIsFresh
  <2>5. BatchIsOpen(agent, messages)'
    BY <1>4, <1>9 DEF BatchIsOpen, Answered, Calling, Judged
  <2>6. Grounded(messages)'
    BY <1>1, Parts
  <2>7. QED BY <1>7, <2>1, <2>2, <2>3, <2>4, <2>5, <2>6 DEF TurnInv
<1>10. QED BY <1>2, <1>8, <1>9

\* A prompt arrives.
LEMMA PromptKeeps == ASSUME TurnInv, NEW kind, Prompt(kind) PROVE TurnInv'
<1>1. UNCHANGED <<messages, procs, cancelled>> /\ SettingsOK(env') /\ RunTurn(kind)
  BY Parts, SpendKeeps DEF Prompt, SettingFields
<1>2. CASE ~agent.active
  <2>1. Begin(kind) /\ agent.at = "idle" /\ agent.ask = "none"
    BY <1>1, <1>2, Parts, AsksNothing DEF RunTurn, AwaitIsRight
  <2>2. agent' = Begun(agent, kind) /\ (kind = "empty" => UNCHANGED delivered) /\ (kind # "empty" => Drain(agent.turn + 1, "user"))
    BY <2>1 DEF Begin
  <2>3. \A m \in mailbox : m.during = 0 /\ m.about = agent.turn
    BY <1>2 DEF TurnInv, MailboxIsFresh
  <2>4. agent.turn \in Nat
    BY Parts DEF AgentOK
  <2>5. InjectInItsTurn'
    <3>1. CASE kind = "empty"
      BY <2>2, <3>1 DEF TurnInv, InjectInItsTurn
    <3>2. CASE kind # "empty"
      <4>1. ASSUME NEW d \in delivered', d \notin delivered
            PROVE d.inject.during = 0 /\ d.inject.about = d.turn - 1 /\ d.where = "user"
        <5>1. PICK m \in mailbox : d = [inject |-> m, turn |-> agent.turn + 1, where |-> "user"]
          BY <2>2, <3>2, <4>1 DEF Drain
        <5>2. m.during = 0 /\ m.about = agent.turn
          BY <2>3
        <5>3. QED BY <2>4, <5>1, <5>2
      <4>2. QED BY <4>1 DEF TurnInv, InjectInItsTurn
    <3>3. QED BY <3>1, <3>2
  <2>6. mailbox' = {} \/ kind = "empty"
    BY <2>2 DEF Drain
  <2>7. \A i, j \in 1..Len(agent.batch) : agent.batch[i] = agent.batch[j] => i = j
    BY Parts DEF BatchIsOpen
  <2>8. QED BY <1>1, <2>1, <2>2, <2>5, <2>6, <2>7, Parts, BeginKeeps
<1>3. CASE agent.active
  <2>1. agent' \in {agent, [agent EXCEPT !.queued = kind]} /\ UNCHANGED <<mailbox, delivered>>
    BY <1>1, <1>3 DEF RunTurn
  <2>2. Becomes(agent, agent', agent.at, agent.ask) /\ KeepsReason(agent, agent')
    <3>1. CASE agent' = agent
      BY <3>1, Parts, Unchanged
    <3>2. CASE agent' = [agent EXCEPT !.queued = kind]
      BY <3>2, Parts DEF Becomes, KeepsReason, AgentOK, AgentFields
    <3>3. QED BY <2>1, <3>1, <3>2
  <2>3. QED BY <1>1, <2>1, <2>2, Parts, SameAgent, StaysKeeps
<1>4. QED BY <1>2, <1>3 DEF TurnInv, TurnType, AgentOK

\* The user cancels.
LEMMA CancelKeeps == ASSUME TurnInv, Cancel PROVE TurnInv'
<1>1. /\ agent.active /\ UNCHANGED <<messages, mailbox, delivered>>
      /\ cancelled' = [turn |-> agent.turn, overruled |-> 0]
  BY DEF Cancel
<1>2. SettingsOK(env') /\ ProcsOK(procs')
  <2>1. SettingsOK(env')
    BY Parts, SpendKeeps DEF Cancel, SettingFields
  <2>2. ProcsOK(procs')
    BY Parts DEF Cancel, TerminateAll, ProcsOK
  <2>3. QED BY <2>1, <2>2
<1> DEFINE a == [agent EXCEPT !.reason = "cancel"]
           r == Rejected(a)
           at == IF agent.ask = "none" THEN agent.at ELSE IF agent.ask = "question" THEN "result" ELSE "next"
<1>3. Becomes(agent, a, agent.at, agent.ask) /\ a.reason = "cancel"
  BY Parts DEF Becomes, AgentOK, AgentFields
<1>4. agent' = Abort(r)
  BY DEF Cancel
<1> HIDE DEF a
<1>5. Becomes(a, r, at, "none") /\ KeepsReason(a, r)
  BY <1>3, RejectedFacts DEF Becomes
<1> HIDE DEF r
<1>6. Becomes(r, agent', at, "none") /\ KeepsReason(r, agent')
  BY <1>4, <1>5, PhaseFacts DEF Becomes
<1> HIDE DEF at
<1>7. Becomes(agent, agent', at, "none") /\ agent'.reason = "cancel"
  BY <1>3, <1>5, <1>6 DEF Becomes, KeepsReason
<1>8. /\ agent.at # "idle" /\ at # "idle" /\ at # "continue"
      /\ agent.at = "finish" <=> at = "finish"
      /\ at = agent.at \/ (at \in Calling /\ agent.at \in Calling /\ (at \in Judged => agent.at \in Judged))
  <2>1. agent.ask \in {"none", "question", "continue"} /\ (agent.ask = "question" => agent.at = "tool")
        /\ (agent.ask = "continue" <=> agent.at = "continue") /\ agent.at # "idle"
    BY <1>1, Parts DEF AwaitIsRight, AgentOK
  <2>2. QED BY <2>1 DEF at, Calling, Judged
<1>9. TurnType'
  BY <1>1, <1>2, <1>7 DEF TurnInv, TurnType, Becomes, AgentOK
<1>10. AwaitIsRight(agent)'
  BY <1>1, <1>7, <1>8, Parts DEF AwaitIsRight, Becomes
<1>11. CancelHolds(agent, cancelled)'
  BY <1>1, <1>7, Parts DEF CancelHolds, Becomes, AgentOK
<1>12. MailboxIsFresh(agent, mailbox)'
  BY <1>1, <1>7, <1>8 DEF TurnInv, MailboxIsFresh, Becomes
<1>13. BatchIsOpen(agent, messages)'
  <2>1. CASE at = agent.at
    BY <1>1, <1>7, <2>1, Parts DEF BatchIsOpen, Becomes
  <2>2. CASE at \in Calling /\ agent.at \in Calling /\ (at \in Judged => agent.at \in Judged)
    <3>1. at \in Judged => Len(agent.batch) > 0
      BY <2>2, Parts DEF BatchIsOpen
    <3>2. BatchIsOpen(agent', messages')
      BY <1>1, <1>7, <2>2, <3>1, SameCall
    <3>3. QED BY <3>2
  <2>3. QED BY <1>8, <2>1, <2>2
<1>14. InjectInItsTurn'
  BY <1>1 DEF TurnInv, InjectInItsTurn
<1>15. Grounded(messages)'
  BY <1>1, Parts
<1>16. QED BY <1>9, <1>10, <1>11, <1>12, <1>13, <1>14, <1>15 DEF TurnInv

\* A resume aborts what is in flight, which may overrule a cancel.
LEMMA OnResumeKeeps ==
  ASSUME TurnInv, OnResume, UNCHANGED <<messages, mailbox, delivered>>, SettingsOK(env') PROVE TurnInv'
<1>1. CASE UNCHANGED <<agent, procs, cancelled>>
  BY <1>1, Parts, Unchanged, SameAgent, StaysKeeps
<1>2. CASE /\ agent' = Abort([agent EXCEPT !.reason = IF agent.phase = "tool_call" THEN "resume_tool_hang" ELSE "resume_frozen"])
           /\ cancelled' = IF Aborted THEN [cancelled EXCEPT !.overruled = agent.turn] ELSE cancelled
           /\ IF agent.phase = "tool_call" THEN TerminateAll ELSE UNCHANGED procs
  <2> DEFINE a == [agent EXCEPT !.reason = IF agent.phase = "tool_call" THEN "resume_tool_hang" ELSE "resume_frozen"]
  <2>1. Becomes(agent, a, agent.at, agent.ask)
    BY Parts DEF Becomes, AgentOK, AgentFields
  <2>2. agent' = Abort(a)
    BY <1>2
  <2> HIDE DEF a
  <2>3. Becomes(a, agent', agent.at, agent.ask)
    BY <2>1, <2>2, PhaseFacts DEF Becomes
  <2>4. Becomes(agent, agent', agent.at, agent.ask)
    BY <2>1, <2>3 DEF Becomes
  <2>5. cancelled' \in [turn : Nat, overruled : Nat] /\ CancelHolds(agent', cancelled')
    <3>1. CASE Aborted
      <4>1. cancelled' = [cancelled EXCEPT !.overruled = agent.turn]
        BY <1>2, <3>1
      <4>2. cancelled' \in [turn : Nat, overruled : Nat] /\ cancelled'.overruled = agent.turn /\ cancelled'.turn = cancelled.turn
        BY <4>1 DEF TurnInv, TurnType, AgentOK
      <4>3. QED BY <2>4, <4>2 DEF TurnInv, CancelHolds, Becomes
    <3>2. CASE ~Aborted
      <4>1. cancelled' = cancelled /\ agent.reason # "cancel"
        BY <1>2, <3>2 DEF Aborted
      <4>2. QED BY <2>4, <4>1 DEF TurnInv, TurnType, CancelHolds, Becomes
    <3>3. QED BY <3>1, <3>2
  <2>6. ProcsOK(procs')
    BY <1>2, Parts DEF TerminateAll, ProcsOK
  <2>7. MailboxIsFresh(agent', mailbox')
    BY <2>4 DEF TurnInv, MailboxIsFresh, Becomes
  <2>8. QED BY <2>4, <2>5, <2>6, <2>7, StaysKeeps
<1>3. QED BY <1>1, <1>2 DEF OnResume

\* A resume that comes by itself.
LEMMA ResumeKeeps == ASSUME TurnInv, Resume PROVE TurnInv'
BY Parts, SpendKeeps, OnResumeKeeps DEF Resume, SettingFields

\* An inject arrives.
LEMMA InjectKeeps ==
  ASSUME TurnInv, NEW about \in {agent.turn - 1, agent.turn} \cap Nat, Inject(about) PROVE TurnInv'
<1>1. SettingsOK(env') /\ Push(about) /\ UNCHANGED <<agent, messages, procs, delivered, cancelled>>
  BY Parts, SpendKeeps DEF Inject, SettingFields
<1>2. Becomes(agent, agent', agent.at, agent.ask) /\ KeepsReason(agent, agent')
  BY <1>1, Parts, Unchanged
<1>3. MailboxIsFresh(agent', mailbox')
  <2>1. ASSUME NEW m \in mailbox', m \notin mailbox
        PROVE m.about = agent.turn /\ m.during = IF agent.active THEN agent.turn ELSE 0
    <3>1. agent.turn \in Nat
      BY Parts DEF AgentOK
    <3>2. ~(agent.turn > 0 /\ about # agent.turn)
      BY <1>1, <2>1 DEF Push
    <3>3. about = agent.turn
      BY <3>1, <3>2
    <3>4. m = [id |-> env.injects, about |-> about, during |-> IF agent.active THEN agent.turn ELSE 0]
      BY <1>1, <2>1, <3>2 DEF Push
    <3>5. QED BY <3>3, <3>4
  <2>2. QED BY <1>1, <2>1 DEF TurnInv, MailboxIsFresh
<1>4. QED BY <1>1, <1>2, <1>3, Parts, SameAgent, StaysKeeps

\* A step of the processes alone.
LEMMA ProcsKeep ==
  ASSUME TurnInv, UNCHANGED <<agent, messages, mailbox, delivered, cancelled, env>>, ProcsOK(procs') PROVE TurnInv'
BY Parts, Unchanged, SameAgent, StaysKeeps

\* A process exits.
LEMMA ChildExitsKeeps == ASSUME TurnInv, NEW p, ChildExits(p) PROVE TurnInv'
<1>1. ProcsOK(procs')
  BY Parts DEF ChildExits, ProcsOK
<1>2. QED BY <1>1, ProcsKeep DEF ChildExits

\* The processes that were asked to exit are gone.
LEMMA ReapedKeeps == ASSUME TurnInv, NEW pids, Reaped(pids) PROVE TurnInv'
<1>1. ProcsOK(procs')
  BY Parts DEF Reaped, ProcsOK
<1>2. QED BY <1>1, ProcsKeep DEF Reaped

\* The invariant holds at first.
LEMMA TurnInitOK == ASSUME TurnInit PROVE TurnInv
<1>1. AgentOK(agent) /\ agent.at = "idle" /\ agent.ask = "none" /\ agent.batch = <<>> /\ agent.turn = 0 /\ agent.active = FALSE
  BY DEF TurnInit, Fresh, AgentOK, AgentFields
<1>2. SettingsOK(env)
  BY TurnConstants DEF TurnInit, Settings, SettingsOK, SettingFields
<1>3. messages = <<>> /\ mailbox = {} /\ delivered = {} /\ cancelled = [turn |-> 0, overruled |-> 0] /\ ProcsOK(procs)
  BY DEF TurnInit, ProcsOK
<1>4. TurnType
  BY <1>1, <1>2, <1>3 DEF TurnType
<1>5. AwaitIsRight(agent) /\ CancelHolds(agent, cancelled) /\ MailboxIsFresh(agent, mailbox)
  BY <1>1, <1>3 DEF AwaitIsRight, CancelHolds, MailboxIsFresh
<1>6. BatchIsOpen(agent, messages)
  BY <1>1 DEF BatchIsOpen, Answered, Calling, Judged
<1>7. Grounded(messages)
  BY <1>3 DEF Grounded
<1>8. InjectInItsTurn
  BY <1>3 DEF InjectInItsTurn
<1>9. QED BY <1>4, <1>5, <1>6, <1>7, <1>8 DEF TurnInv

\* A step of the turn itself keeps the invariant.
LEMMA TurnStepKeeps == ASSUME TurnInv, TurnStep PROVE TurnInv'
BY UserAckedKeeps, CheckFitKeeps, CompactDoneKeeps, ModelAbortedKeeps, ModelFailsKeeps, ModelAnswersKeeps,
   CompactAfterAnswerKeeps, HandleAnswerKeeps, NextCallKeeps, RequestAckedKeeps, DispatchKeeps, SpawnKeeps,
   ToolDoneKeeps, ResultInKeeps, FinishAckedKeeps DEF TurnStep

\* Every step of an Executor alone keeps the invariant.
LEMMA AgentNextKeeps == ASSUME TurnInv, [AgentNext]_agentVars PROVE TurnInv'
<1>1. CASE TurnStep
  BY <1>1, TurnStepKeeps
<1>2. CASE Decision
  BY <1>2, ResolveKeeps, AnswerKeeps, ContinueKeeps DEF Decision
<1>3. CASE Reaping
  BY <1>3, ReapedKeeps DEF Reaping
<1>4. CASE Outside
  BY <1>4, PromptKeeps, CancelKeeps, ResumeKeeps, InjectKeeps, ChildExitsKeeps DEF Outside
<1>5. CASE UNCHANGED agentVars
  BY <1>5, Parts, ProcsKeep DEF agentVars
<1>6. QED BY <1>1, <1>2, <1>3, <1>4, <1>5 DEF AgentNext

(***************************************************************************)
(* Under the watchdog.                                                     *)
(***************************************************************************)

\* A new Executor's Agent.
LEMMA FreshFacts ==
  /\ AgentOK(Fresh) /\ Fresh.turn = 0 /\ Fresh.active = FALSE /\ Fresh.at = "idle"
  /\ Fresh.ask = "none" /\ Fresh.batch = <<>>
BY DEF Fresh, AgentOK, AgentFields

\* What a restarted Executor reads from the store is grounded.
LEMMA RestoredGrounded ==
  ASSUME TurnInv
  PROVE  LET ms == BeforeTurn \o [i \in 1..Cardinality(OpenCalls) |-> Closed]
         IN  ms \in Seq(Messages) /\ Grounded(ms)
<1> DEFINE T == {i \in 1..Len(messages) : messages[i] = User(agent.turn)} \cup {Len(messages) + 1}
           n == Cardinality(OpenCalls)
           t == [i \in 1..n |-> Closed]
<1>1. Min(T) \in 1..(Len(messages) + 1)
  <2>1. T \subseteq 1..(Len(messages) + 1) /\ T \subseteq Nat /\ T # {}
    BY Parts
  <2> HIDE DEF T
  <2>2. QED BY <2>1, MinIsLeast
<1> HIDE DEF T
<1>2. Min(T) - 1 \in 0..Len(messages)
  BY <1>1, Parts
<1>3. BeforeTurn = SubSeq(messages, 1, Min(T) - 1)
  BY DEF BeforeTurn, T
<1>4. BeforeTurn \in Seq(Messages) /\ Grounded(BeforeTurn)
  BY <1>2, <1>3, Parts, GroundedPrefix
<1>5. n \in Nat
  <2>1. CASE OpenCalls = {}
    BY <2>1, FS_EmptySet
  <2>2. CASE OpenCalls = {Head(agent.batch)}
    <3>1. \A x : Cardinality({x}) = 1
      BY FS_Singleton
    <3>2. Cardinality(OpenCalls) = 1
      BY <2>2, <3>1, Zenon
    <3>3. QED BY <3>2
  <2>3. QED BY <2>1, <2>2 DEF OpenCalls
<1>6. Closed \in Messages /\ Closed.role # "tool"
  BY DEF Closed, Messages, Roles
<1> HIDE DEF n
<1>7. t \in Seq(Messages) /\ Len(t) = n /\ \A i \in 1..Len(t) : t[i] = Closed
  BY <1>5, <1>6
<1> HIDE DEF t
<1>8. Grounded(BeforeTurn \o t) /\ BeforeTurn \o t \in Seq(Messages)
  <2>1. Grounded(BeforeTurn \o t)
    BY <1>4, <1>6, <1>7, GroundedConcat
  <2>2. QED BY <1>4, <1>7, <2>1, ConcatProperties
<1>9. QED BY <1>8 DEF t, n

\* The Executor is killed and started again.
LEMMA RestartedKeeps == ASSUME TurnInv, Restarted PROVE TurnInv'
<1>1. /\ mailbox' = {} /\ delivered' = {} /\ cancelled' = [turn |-> 0, overruled |-> 0]
      /\ procs' = NewRegistry /\ UNCHANGED env
  BY DEF Restarted
<1>2. agent' \in {Fresh, Begun(Fresh, "replay")}
  BY DEF Restarted
<1>3. messages' \in Seq(Messages) /\ Grounded(messages')
  <2>1. messages' = messages \/ messages' = BeforeTurn \o [i \in 1..Cardinality(OpenCalls) |-> Closed]
    BY DEF Restarted
  <2>2. QED BY <2>1, Parts, RestoredGrounded
<1>4. /\ AgentOK(agent') /\ agent'.ask = "none" /\ agent'.batch = <<>>
      /\ \/ agent'.active = FALSE /\ agent'.at = "idle" /\ agent'.turn = 0
         \/ agent'.active = TRUE /\ agent'.at = "user" /\ agent'.turn = 1
  <2>1. CASE agent' = Fresh
    BY <2>1, FreshFacts
  <2>2. CASE agent' = Begun(Fresh, "replay")
    <3>1. /\ AgentOK(agent') /\ agent'.turn = Fresh.turn + 1 /\ agent'.active
          /\ agent'.at = "user" /\ agent'.ask = Fresh.ask /\ agent'.batch = Fresh.batch
      BY <2>2, FreshFacts, BegunFacts
    <3>2. agent'.active = TRUE
      BY <3>1 DEF AgentOK
    <3>3. QED BY <3>1, <3>2, FreshFacts
  <2>3. QED BY <1>2, <2>1, <2>2
<1>5. ProcsOK(procs')
  BY <1>1, Parts DEF NewRegistry, ProcsOK
<1>6. TurnType'
  BY <1>1, <1>3, <1>4, <1>5, Parts DEF TurnType
<1>7. AwaitIsRight(agent)'
  BY <1>4 DEF AwaitIsRight
<1>8. CancelHolds(agent, cancelled)'
  BY <1>1, <1>4 DEF CancelHolds
<1>9. MailboxIsFresh(agent, mailbox)'
  BY <1>1 DEF MailboxIsFresh
<1>10. BatchIsOpen(agent, messages)'
  BY <1>4 DEF BatchIsOpen, Answered, Calling, Judged
<1>11. InjectInItsTurn'
  BY <1>1 DEF InjectInItsTurn
<1>12. QED BY <1>3, <1>6, <1>7, <1>8, <1>9, <1>10, <1>11 DEF TurnInv

\* Every step of an Executor under the watchdog keeps the invariant.
LEMMA SupNextKeeps == ASSUME TurnInv, [SupNext]_supVars PROVE TurnInv'
<1>1. ASSUME UNCHANGED <<agent, messages, mailbox, procs, delivered, cancelled, env>> PROVE TurnInv'
  BY <1>1, Parts, ProcsKeep
<1>2. CASE Lives \/ Decides \/ Reaps \/ UserPrompts \/ UserCancels
  <2>1. AgentNext
    <3>1. TurnStep \/ Decision \/ Reaping \/ Prompt("plain") \/ Cancel
      BY <1>2 DEF Lives, Decides, Reaps, UserPrompts, UserCancels, Executes
    <3>2. QED BY <3>1 DEF AgentNext, Outside
  <2>2. QED BY <2>1, AgentNextKeeps
<1>3. CASE CommandExits
  BY <1>3, ChildExitsKeeps DEF CommandExits
<1>4. CASE EventSeen \/ Beat \/ (\E late \in BOOLEAN : DogTick(late)) \/ Freeze \/ Thaw \/ OrphanExits
  BY <1>1, <1>4 DEF EventSeen, Beat, DogTick, Freeze, Thaw, OrphanExits, agentVars
<1>5. CASE ResumeArrives
  <2>1. SettingsOK(env') /\ OnResume /\ UNCHANGED <<messages, mailbox, delivered>>
    BY <1>5, Parts DEF ResumeArrives
  <2>2. QED BY <2>1, OnResumeKeeps
<1>6. CASE Restarted
  BY <1>6, RestartedKeeps
<1>7. CASE IntervalPasses
  <2>1. agent' = [agent EXCEPT !.since = Older(agent.since, Stall)]
        /\ UNCHANGED <<messages, mailbox, procs, delivered, cancelled, env>>
    BY <1>7 DEF IntervalPasses
  <2>2. Becomes(agent, agent', agent.at, agent.ask) /\ KeepsReason(agent, agent')
    BY <2>1, Parts DEF Becomes, KeepsReason, AgentOK, AgentFields
  <2>3. QED BY <2>1, <2>2, Parts, SameAgent, StaysKeeps
<1>8. CASE UNCHANGED supVars
  BY <1>1, <1>8 DEF supVars, agentVars
<1>9. QED BY <1>2, <1>3, <1>4, <1>5, <1>6, <1>7, <1>8 DEF SupNext

(***************************************************************************)
(* The theorems, each for an Executor alone, where resumes come at any     *)
(* time, and for one under the watchdog, which may restart it.             *)
(***************************************************************************)

\* The inductive invariant: what the turn is suspended in decides what it asks,
\* which calls are open at the end of the conversation, what waits in the
\* mailbox, and whether a cancel still stands (agent.ts, injection.ts).
THEOREM TurnIsSound == (AgentSpec => []TurnInv) /\ (SupSpec => []TurnInv)
<1>1. TurnInit => TurnInv
  BY TurnInitOK
<1>2. SupInit => TurnInv
  BY TurnInitOK DEF SupInit
<1>3. TurnInv /\ [AgentNext]_agentVars => TurnInv'
  BY AgentNextKeeps
<1>4. TurnInv /\ [SupNext]_supVars => TurnInv'
  BY SupNextKeeps
<1>5. AgentSpec => []TurnInv
  BY <1>1, <1>3, PTL DEF AgentSpec
<1>6. SupSpec => []TurnInv
  BY <1>2, <1>4, PTL DEF SupSpec
<1>7. QED BY <1>5, <1>6

\* Every result in the conversation answers a call of the answer before it,
\* once, whatever was compacted, dropped, aborted, made again or restored
\* (agent.ts:310-333, compaction.ts:67-145).
THEOREM ResultsFollowTheirCalls == (AgentSpec => []ResultsHaveTheirCall) /\ (SupSpec => []ResultsHaveTheirCall)
<1>1. TurnInv => ResultsHaveTheirCall
  BY DEF TurnInv, Grounded, ResultsHaveTheirCall
<1>2. QED BY <1>1, TurnIsSound, PTL

\* What the Supervisor says is heard in the turn it was said in, or before the
\* next one and about the turn before (injection.ts:35-96).
THEOREM InjectsAreTimely == (AgentSpec => []InjectInItsTurn) /\ (SupSpec => []InjectInItsTurn)
<1>1. TurnInv => InjectInItsTurn
  BY DEF TurnInv
<1>2. QED BY <1>1, TurnIsSound, PTL

\* A process that the live Executor started and that still runs is in its
\* registry; nothing is said of those that outlived a killed one
\* (children.ts:13-51).
THEOREM ChildrenAreListed == (AgentSpec => []OwnChildrenAreListed) /\ (SupSpec => []OwnChildrenAreListed)
<1>1. TurnInv => OwnChildrenAreListed
  BY DEF TurnInv, TurnType, ProcsOK, OwnChildrenAreListed
<1>2. QED BY <1>1, TurnIsSound, PTL

\* Only the dispatch closure starts a tool, and only in a turn whose reason is
\* not a cancel.
LEMMA StartsAreDispatched ==
  ASSUME TurnInv, AgentNext \/ SupNext, agent.at = "allowed", agent'.at \in {"tool", "spawn"}
  PROVE  agent.reason # "cancel"
<1>1. agent.ask = "none" /\ agent.active /\ AgentOK(agent)
  BY AsksNothing, Parts DEF AwaitIsRight
<1>2. CASE Dispatch
  <2>1. ~(agent' = [agent EXCEPT !.at = "result", !.status = "cancelled"])
    BY <1>1 DEF AgentOK, AgentFields
  <2>2. QED BY <1>2, <2>1 DEF Dispatch, Aborted
<1>3. ASSUME NEW at, NEW ask, Becomes(agent, agent', at, ask), at \notin {"tool", "spawn"} PROVE FALSE
  BY <1>3 DEF Becomes
<1>4. CASE TurnStep
  BY <1>2, <1>4 DEF TurnStep, UserAcked, CheckFit, CompactDone, ModelAborted, ModelFails, ModelAnswers,
       CompactAfterAnswer, HandleAnswer, NextCall, RequestAcked, Spawn, ToolDone, ResultIn, FinishAcked
<1>5. ~Decision
  BY <1>1, Parts DEF Decision, Resolve, Answer, Continue, AwaitIsRight
<1>6. ~(UNCHANGED agent)
  OBVIOUS
<1>7. ~Reaping
  BY <1>6 DEF Reaping, Reaped
<1>8. ASSUME NEW kind, Prompt(kind) PROVE FALSE
  <2>1. agent' = [agent EXCEPT !.queued = kind]
    BY <1>1, <1>6, <1>8 DEF Prompt, RunTurn
  <2>2. agent'.at = agent.at
    BY <1>1, <2>1 DEF AgentOK, AgentFields
  <2>3. QED BY <2>2
<1>9. ~Cancel
  <2> DEFINE a == [agent EXCEPT !.reason = "cancel"]
  <2>1. Becomes(agent, a, "allowed", "none")
    BY <1>1 DEF Becomes, AgentOK, AgentFields
  <2>2. SUFFICES ASSUME Cancel PROVE FALSE
    OBVIOUS
  <2>3. agent' = Abort(Rejected(a))
    BY <2>2 DEF Cancel
  <2> HIDE DEF a
  <2>4. Becomes(a, Rejected(a), "allowed", "none")
    BY <2>1, RejectedFacts DEF Becomes
  <2>5. Becomes(Rejected(a), agent', "allowed", "none")
    BY <2>3, <2>4, PhaseFacts DEF Becomes
  <2>6. QED BY <2>5 DEF Becomes
<1>10. ~OnResume
  <2>1. SUFFICES ASSUME OnResume PROVE FALSE
    OBVIOUS
  <2> DEFINE a == [agent EXCEPT !.reason = IF agent.phase = "tool_call" THEN "resume_tool_hang" ELSE "resume_frozen"]
  <2>2. Becomes(agent, a, "allowed", "none")
    BY <1>1 DEF Becomes, AgentOK, AgentFields
  <2>3. agent' = Abort(a)
    BY <1>6, <2>1 DEF OnResume
  <2> HIDE DEF a
  <2>4. Becomes(a, agent', "allowed", "none")
    BY <2>2, <2>3, PhaseFacts DEF Becomes
  <2>5. QED BY <2>4 DEF Becomes
<1>11. CASE AgentNext
  <2>1. ~Outside
    BY <1>6, <1>8, <1>9, <1>10 DEF Outside, Resume, Inject, ChildExits
  <2>2. QED BY <1>4, <1>5, <1>7, <1>11, <2>1 DEF AgentNext
<1>12. CASE SupNext
  <2>1. ~(EventSeen \/ Beat \/ (\E late \in BOOLEAN : DogTick(late)) \/ Freeze \/ Thaw
          \/ CommandExits \/ OrphanExits)
    BY <1>6 DEF EventSeen, Beat, DogTick, Freeze, Thaw, CommandExits, ChildExits, OrphanExits, agentVars
  <2>2. ~ResumeArrives
    BY <1>10 DEF ResumeArrives
  <2>3. ~IntervalPasses
    <3>1. SUFFICES ASSUME IntervalPasses PROVE FALSE
      OBVIOUS
    <3>2. agent' = [agent EXCEPT !.since = Older(agent.since, Stall)]
      BY <3>1 DEF IntervalPasses
    <3>3. agent'.at = agent.at
      BY <1>1, <3>2 DEF AgentOK, AgentFields
    <3>4. QED BY <3>3
  <2>4. ~Restarted
    <3>1. SUFFICES ASSUME Restarted PROVE FALSE
      OBVIOUS
    <3>2. agent' \in {Fresh, Begun(Fresh, "replay")}
      BY <3>1 DEF Restarted
    <3>3. QED BY <3>2, FreshFacts, BegunFacts
  <2>5. ~(Decides \/ Reaps \/ UserPrompts \/ UserCancels)
    BY <1>5, <1>7, <1>8, <1>9 DEF Decides, Reaps, UserPrompts, UserCancels, Executes
  <2>6. Lives => TurnStep
    BY DEF Lives, Executes
  <2>7. QED BY <1>4, <1>12, <2>1, <2>2, <2>3, <2>4, <2>5, <2>6 DEF SupNext
<1>13. QED BY <1>11, <1>12

\* After a cancel no tool starts in that turn, unless a stall resume overruled
\* the cancel (agent.ts:274-280, 325-330, 474, 592-622).
THEOREM CancelledTurnsStartNothing == (AgentSpec => CancelSticks) /\ (SupSpec => CancelSticks)
<1> DEFINE Sticks == agent.at = "allowed" /\ agent'.at \in {"tool", "spawn"} =>
                       \/ cancelled.turn # agent.turn
                       \/ cancelled.overruled = agent.turn
<1>1. ASSUME TurnInv, AgentNext \/ SupNext PROVE Sticks
  <2>1. SUFFICES ASSUME agent.at = "allowed", agent'.at \in {"tool", "spawn"}
        PROVE cancelled.turn # agent.turn \/ cancelled.overruled = agent.turn
    OBVIOUS
  <2>2. agent.reason # "cancel"
    BY <1>1, <2>1, StartsAreDispatched
  <2>3. agent.active
    BY <1>1, <2>1, Parts DEF AwaitIsRight
  <2>4. QED BY <1>1, <2>2, <2>3 DEF TurnInv, CancelHolds
<1>2. TurnInv /\ [AgentNext]_agentVars => [Sticks]_agentVars
  BY <1>1
<1>3. TurnInv /\ [SupNext]_supVars => [Sticks]_agentVars
  BY <1>1 DEF supVars
<1>4. AgentSpec => CancelSticks
  BY <1>2, TurnIsSound, PTL DEF AgentSpec, CancelSticks
<1>5. SupSpec => CancelSticks
  BY <1>3, TurnIsSound, PTL DEF SupSpec, CancelSticks
<1>6. QED BY <1>4, <1>5

(***************************************************************************)
(* What the watchdog knows.                                                *)
(***************************************************************************)

EventTypes == {"user_message", "turn_finished", "resumed", "restarted"}
TurnStarts(w) == \E i \in 1..Len(w) : w[i] = "user_message"
Toolish(a) == a.phase = "tool_call" /\ a.since >= Stall - 1

DogFields == {"active", "phase", "since", "sign", "resumes", "waiting", "requested"}
DogOK(d) ==
  /\ d = [f \in DogFields |-> d[f]]
  /\ d.since \in Int /\ d.sign \in Int /\ d.waiting \in Int
  /\ d.resumes \in Nat /\ d.requested \in BOOLEAN

HostFields == {"frozen", "silent", "due", "resume", "kill", "replays", "freezes", "orphans",
               "excuse"}
HostOK(h) ==
  /\ h = [f \in HostFields |-> h[f]]
  /\ h.silent \in Nat /\ h.kill \in BOOLEAN /\ h.excuse \in BOOLEAN

\* The Executor: the turn that begins is not in the phase of a tool.
ExecutorIsSeen(a, w, h) ==
  /\ a.since \in Nat /\ a.queued \in {"none", "plain"} /\ w \in Seq(EventTypes)
  /\ a.active = FALSE => a.phase = "idle"
  /\ Toolish(a) => h.excuse = TRUE
  /\ TurnStarts(w) => a.since = 0 \/ a.phase # "tool_call"

\* What makes the watchdog resume or give up.
SuspicionIsRight(d, h) ==
  /\ d.phase = "tool_call" /\ d.since >= Stall => h.excuse = TRUE
  /\ Toolish(d) /\ (h.silent = 0 \/ h.kill = TRUE) => h.excuse = TRUE
  /\ d.requested = FALSE => d.sign <= h.silent \/ h.silent > 1
  /\ d.requested = FALSE /\ d.sign >= Stall => h.excuse = TRUE
  /\ h.kill = TRUE => d.requested = TRUE \/ d.sign <= 0
  /\ d.requested = FALSE /\ (d.waiting # NoTime \/ d.resumes >= 1) => h.excuse = TRUE

WatchInv ==
  /\ TurnInv
  /\ DogOK(dog) /\ HostOK(host)
  /\ ExecutorIsSeen(agent, wire, host)
  /\ SuspicionIsRight(dog, host)

\* b is a, perhaps in another phase that begins now.
Moved(a, b) ==
  /\ b.since = 0 \/ (b.since = a.since /\ b.phase = a.phase)
  /\ b.queued = a.queued /\ b.active = a.active

\* The operators of the turn begin a phase or keep it.
LEMMA PhasesBegin ==
  ASSUME NEW a, AgentOK(a), NEW x
  PROVE  /\ Moved(a, SetPhase(a, x)) /\ Moved(a, Finishing(a, x)) /\ Moved(a, StartModel(a))
         /\ Moved(a, Request(a)) /\ Moved(a, Asked(a)) /\ Moved(a, Abort(a)) /\ Moved(a, Rejected(a))
<1>1. /\ Moved(a, SetPhase(a, x)) /\ Moved(a, Finishing(a, x)) /\ Moved(a, StartModel(a))
      /\ Moved(a, Request(a)) /\ Moved(a, Abort(a))
  BY DEF AgentOK, AgentFields, Moved, SetPhase, Finishing, StartModel, Request, Abort
<1>2. AgentOK(Asked(a))
  BY AskedFacts DEF Becomes
<1>3. Moved(a, Asked(a))
  <2>1. CASE a.phase = "waiting_answer"
    BY <2>1 DEF AgentOK, AgentFields, Moved, Asked, SetPhase
  <2>2. CASE a.phase # "waiting_answer"
    BY <2>2 DEF AgentOK, AgentFields, Moved, Asked
  <2>3. QED BY <2>1, <2>2
<1>4. Moved(a, Rejected(a))
  <2>1. CASE a.ask = "none"
    BY <2>1 DEF Rejected, Moved
  <2>2. CASE a.ask = "question"
    <3>1. Rejected(a) = [Asked(a) EXCEPT !.at = "result", !.status = "cancelled", !.abort = "none"]
      BY <2>2 DEF Rejected
    <3>2. Moved(Asked(a), Rejected(a))
      BY <3>1, <1>2 DEF AgentOK, AgentFields, Moved
    <3>3. QED BY <3>2, <1>3 DEF Moved
  <2>3. CASE a.ask = "continue"
    <3>1. Rejected(a) = [Asked(a) EXCEPT !.at = "next"]
      BY <2>3 DEF Rejected
    <3>2. Moved(Asked(a), Rejected(a))
      BY <3>1, <1>2 DEF AgentOK, AgentFields, Moved
    <3>3. QED BY <3>2, <1>3 DEF Moved
  <2>4. QED BY <2>1, <2>2, <2>3 DEF AgentOK
<1>5. QED BY <1>1, <1>3, <1>4

\* So does a tool that starts.
LEMMA ToolPhaseBegins ==
  ASSUME AgentOK(agent), NEW tool \in {"plain", "slow", "question", "command"} PROVE Moved(agent, Started(tool))
<1>1. CASE tool \in {"plain", "slow"}
  BY <1>1 DEF AgentOK, AgentFields, Moved, Started, SetPhase
<1>2. CASE tool = "question"
  BY <1>2 DEF AgentOK, AgentFields, Moved, Started, SetPhase
<1>3. CASE tool = "command"
  BY <1>3 DEF AgentOK, AgentFields, Moved, Started, SetPhase
<1>4. QED BY <1>1, <1>2, <1>3

\* Events join the wire; a turn starts on it if one of them says so.
LEMMA Heard ==
  ASSUME wire \in Seq(EventTypes), NEW events \in Seq(EventTypes), Emit(events)
  PROVE  wire' \in Seq(EventTypes) /\ (TurnStarts(wire') => TurnStarts(wire) \/ TurnStarts(events))
<1>1. CASE ~env.watched
  BY <1>1 DEF Emit
<1>2. CASE env.watched
  <2>1. wire' = wire \o events
    BY <1>2 DEF Emit
  <2>2. wire' \in Seq(EventTypes) /\ Len(wire') = Len(wire) + Len(events)
    BY <2>1
  <2>3. ASSUME NEW i \in 1..Len(wire'), wire'[i] = "user_message" PROVE TurnStarts(wire) \/ TurnStarts(events)
    <3>1. CASE i <= Len(wire)
      <4>1. i \in 1..Len(wire) /\ wire[i] = "user_message"
        BY <3>1, <2>1, <2>2, <2>3
      <4>2. QED BY <4>1 DEF TurnStarts
    <3>2. CASE i > Len(wire)
      <4>1. i - Len(wire) \in 1..Len(events) /\ events[i - Len(wire)] = "user_message"
        BY <3>2, <2>1, <2>2, <2>3
      <4>2. QED BY <4>1 DEF TurnStarts
    <3>3. QED BY <3>1, <3>2
  <2>4. QED BY <2>2, <2>3 DEF TurnStarts
<1>3. QED BY <1>1, <1>2

\* What a step of the Executor does to its phase and to the wire.
Runs ==
  /\ agent'.since = 0 \/ (agent'.since = agent.since /\ agent'.phase = agent.phase)
  /\ agent'.queued \in {agent.queued, "none", "plain"}
  /\ agent'.active = FALSE => agent'.phase = "idle"
  /\ wire' \in Seq(EventTypes)
  /\ TurnStarts(wire') => TurnStarts(wire) \/ agent'.since = 0 \/ agent'.phase # "tool_call"

\* Such a step inside a turn begins no turn.
Speaks == UNCHANGED wire \/ Emit(<<"turn_finished">>) \/ Emit(<<"resumed">>)
LEMMA RunsInside ==
  ASSUME wire \in Seq(EventTypes), agent.active = TRUE, Moved(agent, agent'), Speaks PROVE Runs
<1>1. wire' \in Seq(EventTypes) /\ (TurnStarts(wire') => TurnStarts(wire))
  <2>1. CASE UNCHANGED wire
    BY <2>1
  <2>2. ASSUME NEW e \in {"turn_finished", "resumed"}, Emit(<<e>>) PROVE <1>1
    <3>1. <<e>> \in Seq(EventTypes) /\ ~TurnStarts(<<e>>)
      BY <2>2 DEF EventTypes, TurnStarts
    <3>2. QED BY <2>2, <3>1, Heard
  <2>3. QED BY <2>1, <2>2 DEF Speaks
<1>2. QED BY <1>1 DEF Moved, Runs

\* The end of a turn.
LEMMA RunsToFinish ==
  ASSUME AgentOK(agent), wire \in Seq(EventTypes), agent.active = TRUE, NEW a, NEW ms, NEW stop,
         AgentOK(a), Moved(agent, a), FinishTurn(a, ms, stop)
  PROVE  Runs
<1>1. agent' = Finishing(a, stop) /\ Speaks
  BY DEF FinishTurn, Speaks
<1>2. Moved(a, agent')
  BY <1>1, PhasesBegin
<1>3. Moved(agent, agent')
  BY <1>2 DEF Moved
<1>4. QED BY <1>1, <1>3, RunsInside

\* A turn begins.
LEMMA RunsFromStart ==
  ASSUME wire \in Seq(EventTypes), NEW a, AgentOK(a), a.phase = "idle",
         a.since = 0 \/ (a.since = agent.since /\ a.phase = agent.phase), a.queued \in {agent.queued, "none"},
         NEW kind \in {"plain", "replay"}, agent' = Begun(a, kind), Emit(BeginEvents(kind))
  PROVE  Runs
<1>1. /\ agent'.active = TRUE /\ agent'.phase = "idle" /\ agent'.since = a.since
      /\ agent'.queued = a.queued
  BY DEF Begun, AgentOK, AgentFields
<1>2. BeginEvents(kind) \in Seq(EventTypes)
  <2>1. BeginEvents("plain") = <<"user_message">> /\ BeginEvents("replay") = <<"restarted", "user_message">>
    BY DEF BeginEvents
  <2>2. <<"user_message">> \in Seq(EventTypes) /\ <<"restarted", "user_message">> \in Seq(EventTypes)
    BY DEF EventTypes
  <2>3. QED BY <2>1, <2>2
<1>3. wire' \in Seq(EventTypes)
  BY <1>2, Heard
<1>4. QED BY <1>1, <1>3 DEF Runs

\* The end of a turn without turn_finished.
LEMMA RunsToError ==
  ASSUME wire \in Seq(EventTypes), AgentOK(agent), EndsWithError(agent), UNCHANGED wire PROVE Runs
BY DEF EndsWithError, SetPhase, AgentOK, AgentFields, Runs

\* The steps of the turn.
LEMMA TurnStepRuns ==
  ASSUME TurnInv, ExecutorIsSeen(agent, wire, host), TurnStep PROVE Runs
<1>1. /\ AgentOK(agent) /\ wire \in Seq(EventTypes) /\ Moved(agent, agent)
      /\ agent.queued \in {"none", "plain"}
  BY Parts DEF ExecutorIsSeen, Moved
<1>2. CASE agent.at = "idle"
  BY <1>2 DEF TurnStep, UserAcked, CheckFit, CompactDone, ModelAborted, ModelFails, ModelAnswers,
     CompactAfterAnswer, HandleAnswer, NextCall, RequestAcked, Dispatch, Spawn, ToolDone, ResultIn, FinishAcked
<1> SUFFICES ASSUME agent.at # "idle" PROVE Runs
  BY <1>2
<1>3. agent.active = TRUE
  BY Parts DEF AwaitIsRight, AgentOK
<1>4. ASSUME Moved(agent, agent'), Speaks PROVE Runs
  BY <1>1, <1>3, <1>4, RunsInside
<1>5. ASSUME NEW a, NEW ms, NEW stop, AgentOK(a), Moved(agent, a), FinishTurn(a, ms, stop) PROVE Runs
  BY <1>1, <1>3, <1>5, RunsToFinish
<1>6. CASE UserAcked \/ CompactDone \/ ModelAnswers \/ ToolDone \/ Spawn
  <2>1. Moved(agent, agent')
    BY <1>6, <1>1 DEF UserAcked, CompactDone, ModelAnswers, ToolDone, Spawn, AgentOK, AgentFields, Moved
  <2>2. Speaks
    BY <1>6 DEF UserAcked, CompactDone, ModelAnswers, ToolDone, Spawn, Speaks
  <2>3. QED BY <2>1, <2>2, <1>4
<1>7. CASE CheckFit
  <2>1. CASE agent' = StartModel(agent) /\ UNCHANGED wire
    <3>1. Moved(agent, agent')
      BY <2>1, <1>1, PhasesBegin
    <3>2. QED BY <2>1, <3>1, <1>4 DEF Speaks
  <2>2. CASE agent' = [SetPhase(agent, "compacting") EXCEPT !.at = "fitCompact"] /\ UNCHANGED wire
    <3>1. Moved(agent, agent')
      BY <2>2, <1>1 DEF SetPhase, AgentOK, AgentFields, Moved
    <3>2. QED BY <2>2, <3>1, <1>4 DEF Speaks
  <2>3. CASE EndsTooLarge(DropOldToolResults(messages))
    BY <2>3, <1>1, <1>5 DEF EndsTooLarge
  <2>4. QED BY <1>7, <2>1, <2>2, <2>3 DEF CheckFit
<1>8. CASE ModelAborted
  <2> DEFINE a == [agent EXCEPT !.abort = "none"]
  <2>1. AgentOK(a) /\ Moved(agent, a)
    BY <1>1 DEF AgentOK, AgentFields, Moved
  <2>2. CASE FinishTurn(a, messages, "cancelled")
    BY <2>1, <2>2, <1>5
  <2>3. CASE Reissue
    <3>1. /\ agent' = [agent EXCEPT !.at = "fit", !.abort = "none", !.reason = "none", !.reissued = TRUE]
          /\ Speaks
      BY <2>3, <1>8 DEF ModelAborted, Speaks
    <3>2. Moved(agent, agent')
      BY <3>1, <1>1 DEF AgentOK, AgentFields, Moved
    <3>3. QED BY <3>1, <3>2, <1>4
  <2>4. QED BY <1>8, <2>2, <2>3 DEF ModelAborted
<1>9. CASE ModelFails
  BY <1>9, <1>1, RunsToError DEF ModelFails
<1>10. CASE CompactAfterAnswer
  <2>1. Moved(agent, agent') /\ UNCHANGED wire
    BY <1>10, <1>1 DEF CompactAfterAnswer, SetPhase, AgentOK, AgentFields, Moved
  <2>2. QED BY <2>1, <1>4 DEF Speaks
<1>11. CASE HandleAnswer
  <2>1. CASE \E stop : FinishTurn(agent, messages, stop)
    BY <2>1, <1>1, <1>5
  <2>2. CASE agent' \in {[agent EXCEPT !.at = "fit", !.paused = TRUE], [agent EXCEPT !.at = "next"]} /\ UNCHANGED wire
    <3>1. Moved(agent, agent')
      BY <2>2, <1>1 DEF AgentOK, AgentFields, Moved
    <3>2. QED BY <2>2, <3>1, <1>4 DEF Speaks
  <2>3. QED BY <1>11, <2>1, <2>2 DEF HandleAnswer
<1>12. CASE NextCall
  <2>1. CASE Aborted
    <3> DEFINE a == [agent EXCEPT !.batch = <<>>]
    <3>1. FinishTurn(a, messages, "cancelled")
      BY <1>12, <2>1 DEF NextCall
    <3>2. a = [f \in AgentFields |-> a[f]] /\ Moved(agent, a)
      BY <1>1 DEF AgentOK, AgentFields, Moved
    <3>3. /\ a.turn = agent.turn /\ a.active = agent.active /\ a.batch = <<>>
          /\ a.ask = agent.ask
      BY <1>1 DEF AgentOK, AgentFields
    <3> HIDE DEF a
    <3>4. AgentOK(a)
      <4>1. a.batch \in Seq(Nat)
        BY <3>3
      <4>2. QED BY <4>1, <3>2, <3>3, <1>1 DEF AgentOK
    <3>5. QED BY <3>1, <3>2, <3>4, <1>5
  <2>2. CASE ~Aborted
    <3>1. Moved(agent, [agent EXCEPT !.at = "fit"]) /\ Moved(agent, Request(agent))
      BY <1>1, PhasesBegin DEF AgentOK, AgentFields, Moved
    <3>2. Moved(agent, Request([agent EXCEPT !.made = 0]))
      BY <1>1 DEF Request, AgentOK, AgentFields, Moved
    <3>3. Moved(agent, [SetPhase(agent, "waiting_answer") EXCEPT
                          !.at = "continue", !.ask = "continue", !.before = agent.phase])
      BY <1>1 DEF SetPhase, AgentOK, AgentFields, Moved
    <3>4. Moved(agent, agent') /\ UNCHANGED wire
      BY <1>12, <2>2, <3>1, <3>2, <3>3 DEF NextCall
    <3>5. QED BY <3>4, <1>4 DEF Speaks
  <2>3. QED BY <2>1, <2>2
<1>13. CASE RequestAcked
  <2>1. CASE EndsWithError(agent)
    BY <1>13, <2>1, <1>1, RunsToError DEF RequestAcked
  <2>2. CASE ~EndsWithError(agent)
    <3>1. Moved(agent, agent')
      BY <1>13, <2>2, <1>1 DEF RequestAcked, AgentOK, AgentFields, Moved
    <3>2. QED BY <1>13, <3>1, <1>4 DEF RequestAcked, Speaks
  <2>3. QED BY <2>1, <2>2
<1>14. CASE Dispatch
  <2>1. CASE agent' = [agent EXCEPT !.at = "result", !.status = "cancelled"]
    <3>1. Moved(agent, agent')
      BY <2>1, <1>1 DEF AgentOK, AgentFields, Moved
    <3>2. QED BY <1>14, <3>1, <1>4 DEF Dispatch, Speaks
  <2>2. ASSUME NEW tool \in {"plain", "slow", "question", "command"}, agent' = Started(tool) PROVE Runs
    <3>1. Moved(agent, agent')
      BY <2>2, <1>1, ToolPhaseBegins
    <3>2. QED BY <1>14, <3>1, <1>4 DEF Dispatch, Speaks
  <2>3. QED BY <1>14, <2>1, <2>2 DEF Dispatch
<1>15. CASE ResultIn
  <2> DEFINE a == [agent EXCEPT !.at = "next", !.batch = Tail(@), !.tool = "none", !.status = "none"]
  <2>1. Moved(agent, a) /\ Moved(agent, [a EXCEPT !.reason = "none"])
    BY <1>1 DEF AgentOK, AgentFields, Moved
  <2>2. agent' \in {a, [a EXCEPT !.reason = "none"]}
    BY <1>15 DEF ResultIn
  <2>3. Speaks
    BY <1>15 DEF ResultIn, Speaks
  <2>4. QED BY <2>1, <2>2, <2>3, <1>4
<1>16. CASE FinishAcked
  <2> DEFINE a == [SetPhase(agent, "idle") EXCEPT !.at = "idle", !.active = FALSE, !.finishing = FALSE,
                                                 !.reason = "none", !.queued = "none", !.batch = <<>>]
  <2>1. /\ a.phase = "idle" /\ a.since = 0 /\ a.queued = "none" /\ a.active = FALSE
        /\ a.turn = agent.turn /\ a.batch = <<>> /\ a.ask = agent.ask
        /\ a = [f \in AgentFields |-> a[f]]
    BY <1>1 DEF SetPhase, AgentOK, AgentFields
  <2>2. CASE agent.queued = "none"
    <3>1. agent' = a /\ UNCHANGED wire
      BY <1>16, <2>2 DEF FinishAcked
    <3>2. QED BY <3>1, <2>1, <1>1 DEF Runs
  <2>3. CASE agent.queued = "plain"
    <3>1. agent' = Begun(a, "plain") /\ Emit(BeginEvents("plain"))
      BY <1>16, <2>3 DEF FinishAcked
    <3> HIDE DEF a
    <3>2. AgentOK(a)
      <4>1. a.batch \in Seq(Nat)
        BY <2>1
      <4>2. QED BY <4>1, <2>1, <1>1 DEF AgentOK
    <3>3. QED BY <3>1, <3>2, <2>1, <1>1, RunsFromStart
  <2>4. QED BY <1>1, <2>2, <2>3
<1>17. QED
  BY <1>6, <1>7, <1>8, <1>9, <1>10, <1>11, <1>12, <1>13, <1>14, <1>15, <1>16 DEF TurnStep

\* The decisions of the user.
LEMMA DecisionRuns ==
  ASSUME TurnInv, ExecutorIsSeen(agent, wire, host), Decision PROVE Runs
<1>1. /\ AgentOK(agent) /\ wire \in Seq(EventTypes) /\ AwaitIsRight(agent)
  BY Parts DEF ExecutorIsSeen
<1>2. agent.active = TRUE
  BY <1>1 DEF Decision, Resolve, Answer, Continue, AwaitIsRight, AgentOK
<1>3. AgentOK(Asked(agent)) /\ Moved(agent, Asked(agent))
  BY <1>1, AskedFacts, PhasesBegin DEF Becomes
<1>4. CASE Resolve
  <2>1. Moved(agent, agent')
    BY <1>4, <1>1 DEF Resolve, AgentOK, AgentFields, Moved
  <2>2. QED BY <1>4, <2>1, <1>1, <1>2, RunsInside DEF Resolve, Speaks
<1>5. CASE Answer
  <2>1. Moved(Asked(agent), agent')
    BY <1>5, <1>3 DEF Answer, AgentOK, AgentFields, Moved
  <2>2. Moved(agent, agent')
    BY <2>1, <1>3 DEF Moved
  <2>3. QED BY <1>5, <2>2, <1>1, <1>2, RunsInside DEF Answer, Speaks
<1>6. CASE Continue(TRUE)
  <2> DEFINE a == [agent EXCEPT !.made = 0]
  <2>1. agent' = Request([Asked(agent) EXCEPT !.made = 0]) /\ UNCHANGED wire
    BY <1>6 DEF Continue
  <2>2. Moved(Asked(agent), agent')
    BY <2>1, <1>3 DEF Request, AgentOK, AgentFields, Moved
  <2>3. Moved(agent, agent')
    BY <2>2, <1>3 DEF Moved
  <2>4. QED BY <2>1, <2>3, <1>1, <1>2, RunsInside DEF Speaks
<1>7. CASE Continue(FALSE)
  BY <1>7, <1>1, <1>2, <1>3, RunsToFinish DEF Continue
<1>8. QED BY <1>4, <1>5, <1>6, <1>7 DEF Decision

\* What comes from outside: a prompt, a cancel, a resume.
LEMMA OutsideRuns ==
  ASSUME TurnInv, ExecutorIsSeen(agent, wire, host), Prompt("plain") \/ Cancel \/ OnResume PROVE Runs
<1>1. /\ AgentOK(agent) /\ wire \in Seq(EventTypes) /\ Moved(agent, agent)
      /\ agent.active = FALSE => agent.phase = "idle"
  BY Parts DEF ExecutorIsSeen, Moved
<1>2. ASSUME UNCHANGED <<agent, wire>> PROVE Runs
  BY <1>1, <1>2 DEF Runs
<1>3. CASE Prompt("plain")
  <2>1. CASE ~agent.active
    <3>1. agent' = Begun(agent, "plain") /\ Emit(BeginEvents("plain"))
      BY <1>3, <2>1 DEF Prompt, RunTurn, Begin
    <3>2. agent.phase = "idle"
      BY <1>1, <2>1 DEF AgentOK
    <3>3. QED BY <3>1, <3>2, <1>1, RunsFromStart
  <2>2. CASE agent.active
    <3>1. UNCHANGED wire /\ agent' \in {agent, [agent EXCEPT !.queued = "plain"]}
      BY <1>3, <2>2 DEF Prompt, RunTurn
    <3>2. QED BY <3>1, <1>1, <1>2, <2>2 DEF AgentOK, AgentFields, Runs
  <2>3. QED BY <2>1, <2>2
<1>4. CASE Cancel
  <2> DEFINE a == [agent EXCEPT !.reason = "cancel"]
             b == Rejected(a)
  <2>1. AgentOK(a) /\ Moved(agent, a) /\ agent.active = TRUE
    BY <1>4, <1>1 DEF Cancel, AgentOK, AgentFields, Moved
  <2>2. agent' = Abort(b) /\ UNCHANGED wire
    BY <1>4 DEF Cancel
  <2> HIDE DEF a
  <2>3. AgentOK(b) /\ Moved(a, b)
    BY <2>1, RejectedFacts, PhasesBegin DEF Becomes
  <2> HIDE DEF b
  <2>4. Moved(b, agent')
    BY <2>2, <2>3, PhasesBegin
  <2>5. Moved(agent, agent')
    BY <2>1, <2>3, <2>4 DEF Moved
  <2>6. QED BY <2>1, <2>2, <2>5, <1>1, RunsInside DEF Speaks
<1>5. CASE OnResume
  <2>1. CASE ~agent.active \/ agent.phase \in {"idle", "waiting_answer"}
    BY <1>2, <1>5, <2>1 DEF OnResume
  <2>2. CASE agent.active /\ agent.phase \notin {"idle", "waiting_answer"} /\ agent.abort = "none"
    <3>1. agent' = agent /\ Speaks
      BY <1>5, <2>2 DEF OnResume, Speaks
    <3>2. QED BY <3>1, <2>2, <1>1, RunsInside DEF AgentOK
  <2>3. CASE agent.active /\ agent.phase \notin {"idle", "waiting_answer"} /\ agent.abort # "none"
    <3> DEFINE a == [agent EXCEPT !.reason = IF agent.phase = "tool_call" THEN "resume_tool_hang" ELSE "resume_frozen"]
    <3>1. agent' = Abort(a) /\ UNCHANGED wire
      BY <1>5, <2>3 DEF OnResume
    <3>2. AgentOK(a) /\ Moved(agent, a)
      BY <1>1 DEF AgentOK, AgentFields, Moved
    <3> HIDE DEF a
    <3>3. Moved(a, agent')
      BY <3>1, <3>2, PhasesBegin
    <3>4. Moved(agent, agent')
      BY <3>2, <3>3 DEF Moved
    <3>5. QED BY <3>1, <3>4, <2>3, <1>1, RunsInside DEF Speaks, AgentOK
  <2>4. QED BY <2>1, <2>2, <2>3
<1>6. QED BY <1>3, <1>4, <1>5

\* A step of the Executor keeps what the watchdog knows.
LEMMA RunsKeepWatch ==
  ASSUME Stall > 1, Stall \in Nat, WatchInv, TurnInv', Runs, UNCHANGED dog, HostOK(host'),
         UNCHANGED <<host.silent, host.kill, host.excuse>>
  PROVE  WatchInv'
<1>1. ExecutorIsSeen(agent, wire, host)'
  <2>1. agent'.since \in Nat /\ agent'.queued \in {"none", "plain"} /\ wire' \in Seq(EventTypes)
    BY DEF WatchInv, ExecutorIsSeen, Runs
  <2>2. Toolish(agent') => host'.excuse = TRUE
    BY DEF WatchInv, ExecutorIsSeen, Runs, Toolish
  <2>3. TurnStarts(wire') => agent'.since = 0 \/ agent'.phase # "tool_call"
    BY DEF WatchInv, ExecutorIsSeen, Runs
  <2>4. QED BY <2>1, <2>2, <2>3 DEF Runs, ExecutorIsSeen
<1>2. SuspicionIsRight(dog, host)'
  BY DEF WatchInv, SuspicionIsRight, Toolish
<1>3. QED BY <1>1, <1>2 DEF WatchInv

\* The parts of the invariant that are about the watchdog.
LEMMA WatchParts ==
  ASSUME WatchInv
  PROVE  /\ TurnInv /\ AgentOK(agent) /\ DogOK(dog) /\ HostOK(host)
         /\ ExecutorIsSeen(agent, wire, host) /\ SuspicionIsRight(dog, host)
         /\ wire \in Seq(EventTypes)
BY Parts DEF WatchInv, ExecutorIsSeen

\* Types of the fields the watchdog and its host have.
LEMMA WatchTypes ==
  ASSUME WatchInv
  PROVE  /\ dog = [f \in DogFields |-> dog[f]]
         /\ dog.since \in Int /\ dog.sign \in Int /\ dog.waiting \in Int
         /\ dog.resumes \in Nat /\ dog.requested \in BOOLEAN
         /\ agent.since \in Nat /\ host.silent \in Nat /\ host.kill \in BOOLEAN /\ host.excuse \in BOOLEAN
BY DEF WatchInv, DogOK, HostOK, ExecutorIsSeen

\* NoTime is an integer.
LEMMA NoTimeIsInt == NoTime \in Int
BY DEF NoTime

\* What the watchdog suspects, one by one.
LEMMA Suspicions ==
  ASSUME WatchInv
  PROVE  /\ dog.phase = "tool_call" /\ dog.since >= Stall => host.excuse = TRUE
         /\ Toolish(dog) /\ (host.silent = 0 \/ host.kill = TRUE) => host.excuse = TRUE
         /\ dog.requested = FALSE => dog.sign <= host.silent \/ host.silent > 1
         /\ dog.requested = FALSE /\ dog.sign >= Stall => host.excuse = TRUE
         /\ host.kill = TRUE => dog.requested = TRUE \/ dog.sign <= 0
         /\ dog.requested = FALSE /\ (dog.waiting # NoTime \/ dog.resumes >= 1) => host.excuse = TRUE
BY DEF WatchInv, SuspicionIsRight

\* What the watchdog hears is a sign of life, and a new turn clears the rest.
LEMMA EventSeenKeepsWatch ==
  ASSUME Stall > 1, Stall \in Nat, WatchInv, TurnInv', EventSeen PROVE WatchInv'
<1> DEFINE e == Head(wire)
<1>1. /\ wire # <<>> /\ OnEvent(e) /\ wire' = Tail(wire) /\ UNCHANGED agent
      /\ host' = IF e = "user_message" THEN [host EXCEPT !.excuse = StalePhase] ELSE host
  BY DEF EventSeen
<1>2. e = wire[1] /\ 1 \in 1..Len(wire) /\ e \in EventTypes /\ wire' \in Seq(EventTypes)
      /\ Len(wire') = Len(wire) - 1 /\ \A i \in 1..Len(wire') : wire'[i] = wire[i + 1]
  BY <1>1, WatchParts
<1>3. TurnStarts(wire') => TurnStarts(wire)
  <2>1. ASSUME NEW i \in 1..Len(wire'), wire'[i] = "user_message" PROVE TurnStarts(wire)
    <3>1. i + 1 \in 1..Len(wire) /\ wire[i + 1] = "user_message"
      BY <2>1, <1>2, WatchParts
    <3>2. QED BY <3>1 DEF TurnStarts
  <2>2. QED BY <2>1 DEF TurnStarts
<1>4. e = "user_message" => TurnStarts(wire)
  BY <1>2 DEF TurnStarts
<1>5. StalePhase <=> Toolish(dog)
  BY DEF StalePhase, Toolish
<1> HIDE DEF e
<1>6. CASE e = "user_message"
  <2>1. dog' = [dog EXCEPT !.sign = 0, !.active = TRUE, !.resumes = 0, !.requested = FALSE, !.waiting = NoTime]
    BY <1>1, <1>6 DEF OnEvent
  <2>2. /\ DogOK(dog') /\ dog'.phase = dog.phase /\ dog'.since = dog.since /\ dog'.sign = 0
        /\ dog'.waiting = NoTime /\ dog'.resumes = 0
    <3>1. /\ dog' = [f \in DogFields |-> dog'[f]]
          /\ dog'.phase = dog.phase /\ dog'.since = dog.since /\ dog'.sign = 0
          /\ dog'.waiting = NoTime /\ dog'.resumes = 0 /\ dog'.requested = FALSE
      BY <2>1, WatchTypes DEF DogFields
    <3>2. dog'.since \in Int /\ dog'.sign \in Int /\ dog'.waiting \in Int
      BY <3>1, WatchTypes, NoTimeIsInt
    <3>3. DogOK(dog')
      <4>1. dog'.resumes = 0 /\ dog'.requested = FALSE
        BY <3>1
      <4>2. dog'.resumes \in Nat
        BY <4>1
      <4>3. dog'.requested \in BOOLEAN
        BY <4>1
      <4>4. QED BY <3>1, <3>2, <4>2, <4>3 DEF DogOK
    <3>4. QED BY <3>1, <3>3
  <2>3. /\ HostOK(host') /\ host'.silent = host.silent /\ host'.kill = host.kill
        /\ host'.excuse = TRUE <=> Toolish(dog)
    <3>1. host' = [host EXCEPT !.excuse = StalePhase]
      BY <1>1, <1>6
    <3>2. StalePhase \in BOOLEAN
      BY DEF StalePhase
    <3>3. host' = [f \in HostFields |-> host'[f]] /\ host'.silent = host.silent /\ host'.kill = host.kill
          /\ host'.excuse = StalePhase
      BY <3>1, WatchParts DEF HostOK, HostFields
    <3>4. QED BY <3>2, <3>3, <1>5, WatchParts DEF HostOK
  <2>4. ~Toolish(agent)
    BY <1>4, <1>6, WatchParts DEF ExecutorIsSeen, Toolish
  <2>5. ExecutorIsSeen(agent, wire, host)'
    BY <1>1, <1>2, <1>3, <2>4, WatchParts DEF ExecutorIsSeen, Toolish
  <2>6. SuspicionIsRight(dog, host)'
    BY <2>2, <2>3, WatchParts, WatchTypes DEF SuspicionIsRight, Toolish
  <2>7. QED BY <2>2, <2>3, <2>5, <2>6 DEF WatchInv
<1>7. CASE e # "user_message"
  <2>1. host' = host
    BY <1>1, <1>7
  <2>2. ExecutorIsSeen(agent, wire, host)'
    BY <1>1, <1>2, <1>3, <2>1, WatchParts DEF ExecutorIsSeen, Toolish
  <2>3. CASE e \in {"turn_finished", "resumed"}
    <3>1. dog' \in {[dog EXCEPT !.sign = 0, !.active = FALSE, !.waiting = NoTime],
                    [dog EXCEPT !.sign = 0, !.waiting = NoTime]}
      BY <1>1, <2>3 DEF OnEvent
    <3>2. /\ dog' = [f \in DogFields |-> dog'[f]]
          /\ dog'.phase = dog.phase /\ dog'.since = dog.since /\ dog'.sign = 0
          /\ dog'.waiting = NoTime /\ dog'.resumes = dog.resumes /\ dog'.requested = dog.requested
      BY <3>1, WatchTypes DEF DogFields
    <3>5. dog'.since \in Int /\ dog'.sign \in Int /\ dog'.waiting \in Int
      BY <3>2, WatchTypes, NoTimeIsInt
    <3>6. DogOK(dog')
      BY <3>2, <3>5, WatchTypes DEF DogOK
    <3>3. SuspicionIsRight(dog, host)'
      <4>1. dog'.phase = "tool_call" /\ dog'.since >= Stall => host'.excuse = TRUE
        BY <2>1, <3>2, WatchTypes, Suspicions DEF Toolish
      <4>2. Toolish(dog') /\ (host'.silent = 0 \/ host'.kill = TRUE) => host'.excuse = TRUE
        BY <2>1, <3>2, WatchTypes, Suspicions DEF Toolish
      <4>3. dog'.requested = FALSE => dog'.sign <= host'.silent \/ host'.silent > 1
        BY <2>1, <3>2, WatchTypes, Suspicions DEF Toolish
      <4>4. dog'.requested = FALSE /\ dog'.sign >= Stall => host'.excuse = TRUE
        BY <2>1, <3>2, WatchTypes, Suspicions DEF Toolish
      <4>5. host'.kill = TRUE => dog'.requested = TRUE \/ dog'.sign <= 0
        BY <2>1, <3>2, WatchTypes, Suspicions DEF Toolish
      <4>6. dog'.requested = FALSE /\ (dog'.waiting # NoTime \/ dog'.resumes >= 1) => host'.excuse = TRUE
        BY <2>1, <3>2, WatchTypes, Suspicions DEF Toolish
      <4>7. QED BY <4>1, <4>2, <4>3, <4>4, <4>5, <4>6 DEF SuspicionIsRight
    <3>4. QED BY <2>1, <2>2, <3>6, <3>3, WatchParts DEF WatchInv
  <2>4. CASE e = "restarted"
    <3>1. dog' = NewDog
      BY <1>1, <2>4 DEF OnEvent
    <3>2. DogOK(dog')
      BY <3>1 DEF NewDog, DogOK, DogFields, NoTime
    <3>3. SuspicionIsRight(dog, host)'
      BY <2>1, <3>1, WatchParts DEF SuspicionIsRight, Toolish, HostOK, NewDog, NoTime
    <3>4. QED BY <2>1, <2>2, <3>2, <3>3, WatchParts DEF WatchInv
  <2>5. QED BY <1>2, <1>7, <2>3, <2>4 DEF EventTypes
<1>8. QED BY <1>6, <1>7

\* A heartbeat tells what the Executor does.
LEMMA BeatKeepsWatch ==
  ASSUME Stall > 1, Stall \in Nat, WatchInv, TurnInv', Beat PROVE WatchInv'
<1>1. /\ dog' = [dog EXCEPT !.sign = 0, !.active = agent.active, !.phase = agent.phase, !.since = agent.since]
      /\ UNCHANGED <<agent, wire>>
  BY DEF Beat, OnHeartbeat, agentVars
<1>2. host' = [host EXCEPT !.due = host.due \ {"beat"}, !.silent = 0]
  BY DEF Beat
<1>3. HostOK(host') /\ host'.silent = 0 /\ host'.kill = host.kill /\ host'.excuse = host.excuse
  BY <1>2, WatchParts DEF HostOK, HostFields
<1>4. /\ dog' = [f \in DogFields |-> dog'[f]]
      /\ dog'.phase = agent.phase /\ dog'.since = agent.since /\ dog'.sign = 0
      /\ dog'.waiting = dog.waiting /\ dog'.resumes = dog.resumes /\ dog'.requested = dog.requested
  BY <1>1, WatchTypes DEF DogFields
<1>8. dog'.since \in Int /\ dog'.sign \in Int /\ dog'.waiting \in Int
  BY <1>4, WatchTypes
<1>9. DogOK(dog')
  BY <1>4, <1>8, WatchTypes DEF DogOK
<1>5. ExecutorIsSeen(agent, wire, host)'
  BY <1>1, <1>3, WatchParts DEF ExecutorIsSeen, Toolish
<1>6. SuspicionIsRight(dog, host)'
  <2> Toolish(agent) => host.excuse = TRUE
    BY WatchParts DEF ExecutorIsSeen
  <2>1. dog'.phase = "tool_call" /\ dog'.since >= Stall => host'.excuse = TRUE
    BY <1>3, <1>4, WatchTypes, Suspicions DEF Toolish
  <2>2. Toolish(dog') /\ (host'.silent = 0 \/ host'.kill = TRUE) => host'.excuse = TRUE
    BY <1>3, <1>4, WatchTypes, Suspicions DEF Toolish
  <2>3. dog'.requested = FALSE => dog'.sign <= host'.silent \/ host'.silent > 1
    BY <1>3, <1>4, WatchTypes, Suspicions DEF Toolish
  <2>4. dog'.requested = FALSE /\ dog'.sign >= Stall => host'.excuse = TRUE
    BY <1>3, <1>4, WatchTypes, Suspicions DEF Toolish
  <2>5. host'.kill = TRUE => dog'.requested = TRUE \/ dog'.sign <= 0
    BY <1>3, <1>4, WatchTypes, Suspicions DEF Toolish
  <2>6. dog'.requested = FALSE /\ (dog'.waiting # NoTime \/ dog'.resumes >= 1) => host'.excuse = TRUE
    BY <1>3, <1>4, WatchTypes, Suspicions DEF Toolish
  <2>7. QED BY <2>1, <2>2, <2>3, <2>4, <2>5, <2>6 DEF SuspicionIsRight
<1>7. QED BY <1>3, <1>9, <1>5, <1>6 DEF WatchInv

\* A tick that finds an Executor silent or hung has an excuse for it, and so
\* has one that gives up.
LEMMA SuspicionIsExcused ==
  ASSUME Stall > 1, Stall \in Nat, Confirm \in Nat, WatchInv, NEW late \in BOOLEAN, Resumes(late) \/ Escalates(late)
  PROVE  host.excuse = TRUE
<1>1. dog.requested = FALSE
  BY WatchParts DEF Resumes, Escalates, DogOK
<1>2. ASSUME Silent(late) PROVE host.excuse = TRUE
  <2>1. dog.sign \in Int /\ (dog.sign >= Stall => host.excuse = TRUE)
    BY <1>1, WatchTypes, Suspicions
  <2>2. QED BY <1>2, <2>1 DEF Silent, Over
<1>3. ASSUME Hung(late) PROVE host.excuse = TRUE
  <2>1. dog.since \in Int /\ (dog.phase = "tool_call" /\ dog.since >= Stall => host.excuse = TRUE)
    BY WatchTypes, Suspicions
  <2>2. QED BY <1>3, <2>1 DEF Hung, Over
<1>4. ASSUME Unconfirmed(late) PROVE host.excuse = TRUE
  <2>1. dog.waiting # NoTime
    BY <1>4 DEF Unconfirmed, Over, NoTime
  <2>2. QED BY <1>1, <2>1, WatchParts DEF SuspicionIsRight
<1>5. QED BY <1>2, <1>3, <1>4 DEF Resumes, Escalates

\* A tick of the watchdog.
LEMMA DogTickKeepsWatch ==
  ASSUME Stall > 1, Stall \in Nat, Confirm \in Nat, WatchInv, TurnInv', NEW late \in BOOLEAN, DogTick(late)
  PROVE  WatchInv'
<1>1. UNCHANGED <<agent, wire>>
  BY DEF DogTick, agentVars
<1>2. CASE Quiet(late) /\ UNCHANGED dog /\ host' = [host EXCEPT !.due = host.due \ {"dog"}]
  <2>1. HostOK(host') /\ host'.silent = host.silent /\ host'.kill = host.kill /\ host'.excuse = host.excuse
    BY <1>2, WatchParts DEF HostOK, HostFields
  <2>2. QED BY <1>1, <1>2, <2>1, WatchParts DEF WatchInv, ExecutorIsSeen, SuspicionIsRight, Toolish
<1>3. CASE Resumes(late) /\ AskResume(late) /\ host' = [host EXCEPT !.due = host.due \ {"dog"}, !.resume = TRUE]
  <2>1. HostOK(host') /\ host'.silent = host.silent /\ host'.kill = host.kill /\ host'.excuse = host.excuse
    BY <1>3, WatchParts DEF HostOK, HostFields
  <2>2. host.excuse = TRUE
    BY <1>3, SuspicionIsExcused
  <2>3. DogOK(dog') /\ dog'.sign = dog.sign /\ dog'.requested = dog.requested
    <3>1. dog' = [dog EXCEPT !.resumes = 1, !.waiting = 0, !.since = IF Hung(late) THEN 0 ELSE dog.since]
      BY <1>3 DEF AskResume
    <3>2. /\ dog' = [f \in DogFields |-> dog'[f]] /\ dog'.resumes = 1 /\ dog'.waiting = 0
          /\ dog'.since \in {0, dog.since} /\ dog'.sign = dog.sign /\ dog'.requested = dog.requested
      BY <3>1, WatchTypes DEF DogFields
    <3>3. dog'.since \in Int /\ dog'.sign \in Int /\ dog'.waiting \in Int
      BY <3>2, WatchTypes, NoTimeIsInt
    <3>4. QED BY <3>2, <3>3, WatchTypes DEF DogOK
  <2>4. SuspicionIsRight(dog, host)'
    BY <2>1, <2>2, <2>3, WatchParts DEF SuspicionIsRight
  <2>5. QED BY <1>1, <2>1, <2>3, <2>4, WatchParts DEF WatchInv, ExecutorIsSeen, Toolish
<1>4. CASE Escalates(late) /\ Escalate /\ host' = [host EXCEPT !.due = host.due \ {"dog"}, !.kill = TRUE]
  <2>1. HostOK(host') /\ host'.silent = host.silent /\ host'.kill = TRUE /\ host'.excuse = host.excuse
    BY <1>4, WatchParts DEF HostOK, HostFields
  <2>2. host.excuse = TRUE
    BY <1>4, SuspicionIsExcused
  <2>3. DogOK(dog') /\ dog'.requested = TRUE
    <3>1. /\ dog' = [f \in DogFields |-> dog'[f]] /\ dog'.requested = TRUE /\ dog'.waiting = NoTime
          /\ dog'.since = dog.since /\ dog'.sign = dog.sign /\ dog'.resumes = dog.resumes
      BY <1>4, WatchTypes DEF Escalate, DogFields
    <3>2. dog'.since \in Int /\ dog'.sign \in Int /\ dog'.waiting \in Int
      BY <3>1, WatchTypes, NoTimeIsInt
    <3>3. QED BY <3>1, <3>2, WatchTypes DEF DogOK
  <2>4. SuspicionIsRight(dog, host)'
    BY <2>1, <2>2, <2>3 DEF SuspicionIsRight
  <2>5. QED BY <1>1, <2>1, <2>3, <2>4, WatchParts DEF WatchInv, ExecutorIsSeen, Toolish
<1>5. QED BY <1>2, <1>3, <1>4 DEF DogTick

\* A restart: nothing of the turn is left that could look like a stall.
LEMMA RestartedKeepsWatch ==
  ASSUME Stall > 1, Stall \in Nat, WatchInv, TurnInv', Restarted PROVE WatchInv'
<1> DEFINE replay == agent.active /\ host.replays = 0
<1>1. /\ host.kill = TRUE /\ UNCHANGED dog
      /\ agent' = IF replay THEN Begun(Fresh, "replay") ELSE Fresh
      /\ Emit(IF replay THEN BeginEvents("replay") ELSE <<>>)
      /\ host' = [host EXCEPT !.kill = FALSE, !.resume = FALSE, !.frozen = FALSE, !.silent = 0,
                              !.replays = IF replay THEN 1 ELSE 0, !.orphans = host.orphans \cup procs.running]
  BY WatchParts DEF Restarted, HostOK
<1>2. HostOK(host') /\ host'.silent = 0 /\ host'.kill = FALSE /\ host'.excuse = host.excuse
  BY <1>1, WatchParts DEF HostOK, HostFields
<1>3. agent'.phase = "idle" /\ agent'.since = 0 /\ agent'.queued = "none"
  BY <1>1 DEF Fresh, Begun
<1>4. wire' \in Seq(EventTypes)
  <2>1. BeginEvents("replay") = <<"restarted", "user_message">>
    BY DEF BeginEvents
  <2>2. <<"restarted", "user_message">> \in Seq(EventTypes) /\ <<>> \in Seq(EventTypes)
    BY DEF EventTypes
  <2>3. (IF replay THEN BeginEvents("replay") ELSE <<>>) \in Seq(EventTypes)
    BY <2>1, <2>2
  <2> HIDE DEF replay
  <2>4. QED BY <1>1, <2>3, WatchParts, Heard
<1>5. ExecutorIsSeen(agent, wire, host)'
  BY <1>3, <1>4 DEF ExecutorIsSeen, Toolish
<1>6. SuspicionIsRight(dog, host)'
  BY <1>1, <1>2, WatchParts DEF SuspicionIsRight, Toolish, DogOK, NoTime
<1>7. QED BY <1>1, <1>2, <1>5, <1>6, WatchParts DEF WatchInv

\* An interval passes: what grows old enough to alarm the watchdog looks like
\* a stall.
LEMMA IntervalKeepsWatch ==
  ASSUME Stall > 1, Stall \in Nat, Confirm \in Nat, WatchInv, TurnInv', IntervalPasses PROVE WatchInv'
<1>1. /\ wire = <<>> /\ wire' = wire /\ host.kill = FALSE
      /\ agent' = [agent EXCEPT !.since = Older(agent.since, Stall)]
      /\ dog' = AgeDog(dog)
  BY WatchParts DEF IntervalPasses, Waits, HostOK
<1>2. host' = [host EXCEPT !.due = {"beat", "dog"}, !.silent = IF host.silent > 1 THEN host.silent ELSE host.silent + 1,
                           !.excuse = host.excuse \/ LooksStalled(agent', host.silent + 1)]
  BY DEF IntervalPasses
<1>3. /\ HostOK(host') /\ host'.kill = FALSE
      /\ host'.silent = IF host.silent > 1 THEN host.silent ELSE host.silent + 1
  <2>1. /\ host' = [f \in HostFields |-> host'[f]] /\ host'.kill = host.kill
        /\ host'.silent = IF host.silent > 1 THEN host.silent ELSE host.silent + 1
        /\ host'.excuse = (host.excuse \/ LooksStalled(agent', host.silent + 1))
    BY <1>2, WatchParts DEF HostOK, HostFields
  <2>2. host'.excuse \in BOOLEAN
    BY <2>1
  <2>3. host'.silent \in Nat
    BY <2>1, WatchParts DEF HostOK
  <2>4. QED BY <1>1, <2>1, <2>2, <2>3 DEF HostOK
<1>4. host'.excuse = (host.excuse \/ LooksStalled(agent', host.silent + 1))
  BY <1>2, WatchParts DEF HostOK, HostFields
<1>5. host.excuse = TRUE \/ host.silent > 0 \/ Toolish(agent') => host'.excuse = TRUE
  <2>1. host.silent > 0 \/ Toolish(agent') => LooksStalled(agent', host.silent + 1)
    BY WatchParts DEF LooksStalled, Toolish, HostOK
  <2>2. QED BY <1>4, <2>1
<1>6. agent'.since = Older(agent.since, Stall) /\ agent'.phase = agent.phase
      /\ agent'.active = agent.active /\ agent'.queued = agent.queued
  BY <1>1, WatchParts DEF AgentOK, AgentFields
<1>7. ExecutorIsSeen(agent, wire, host)'
  <2>1. agent'.since \in Nat
    BY <1>6, WatchParts DEF ExecutorIsSeen, Older, NoTime
  <2>2. ~TurnStarts(wire') /\ wire' \in Seq(EventTypes)
    BY <1>1, WatchParts DEF TurnStarts
  <2>3. Toolish(agent') => host'.excuse = TRUE
    BY <1>5
  <2>4. QED BY <1>6, <2>1, <2>2, <2>3, WatchParts DEF ExecutorIsSeen
<1>8. /\ dog'.phase = dog.phase /\ dog'.requested = dog.requested /\ dog'.resumes = dog.resumes
      /\ dog'.since = Older(dog.since, Stall) /\ dog'.sign = Older(dog.sign, Stall)
      /\ dog'.waiting = Older(dog.waiting, Confirm) /\ dog' = [f \in DogFields |-> dog'[f]]
  BY <1>1, WatchParts DEF AgeDog, DogOK, DogFields
<1>9. DogOK(dog') /\ (dog'.waiting # NoTime => dog.waiting # NoTime)
      /\ dog'.sign \in {dog.sign, dog.sign + 1} /\ dog'.since \in {dog.since, dog.since + 1}
  <2>1. /\ dog'.waiting # NoTime => dog.waiting # NoTime
        /\ dog'.sign \in {dog.sign, dog.sign + 1} /\ dog'.since \in {dog.since, dog.since + 1}
        /\ dog'.waiting \in {dog.waiting, dog.waiting + 1}
    BY <1>8, WatchTypes DEF Older
  <2>2. dog'.since \in Int /\ dog'.sign \in Int /\ dog'.waiting \in Int
    BY <2>1, WatchTypes
  <2>3. QED BY <1>8, <2>1, <2>2, WatchTypes DEF DogOK
<1>10. SuspicionIsRight(dog, host)'
  <2>7. dog'.requested = dog.requested /\ dog'.phase = dog.phase
    BY <1>8
  <2>8. host.silent = 0 \/ host.silent > 0
    BY WatchTypes
  <2>1. dog'.phase = "tool_call" /\ dog'.since >= Stall => host'.excuse = TRUE
    <3>1. SUFFICES ASSUME dog'.phase = "tool_call", dog'.since >= Stall, host.silent = 0 PROVE host'.excuse = TRUE
      BY <1>5, <2>8
    <3>2. Toolish(dog)
      BY <3>1, <2>7, <1>9, WatchTypes DEF Toolish
    <3>3. QED BY <3>1, <3>2, <1>5, WatchParts DEF SuspicionIsRight
  <2>2. host'.silent # 0
    BY <1>3, WatchParts DEF HostOK
  <2>3. dog'.requested = FALSE => dog'.sign <= host'.silent \/ host'.silent > 1
    <3>1. /\ dog.sign \in Int /\ dog'.sign \in {dog.sign, dog.sign + 1} /\ host.silent \in Nat
          /\ dog'.requested = FALSE => dog.sign <= host.silent \/ host.silent > 1
      BY <2>7, <1>9, WatchTypes, Suspicions
    <3>2. QED BY <3>1, <1>3
  <2>4. dog'.requested = FALSE /\ dog'.sign >= Stall => host'.excuse = TRUE
    <3>1. /\ dog.sign \in Int /\ dog'.sign \in {dog.sign, dog.sign + 1} /\ host.silent \in Nat
          /\ dog'.requested = FALSE => dog.sign <= host.silent \/ host.silent > 1
      BY <2>7, <1>9, WatchTypes, Suspicions
    <3>2. QED BY <3>1, <1>5
  <2>5. dog'.requested = FALSE /\ (dog'.waiting # NoTime \/ dog'.resumes >= 1) => host'.excuse = TRUE
    BY <1>5, <1>8, <1>9, WatchParts DEF SuspicionIsRight
  <2>6. QED BY <1>3, <2>1, <2>2, <2>3, <2>4, <2>5 DEF SuspicionIsRight
<1>11. QED BY <1>3, <1>7, <1>9, <1>10 DEF WatchInv

\* Every step under the watchdog keeps what it knows.
LEMMA SupNextKeepsWatch ==
  ASSUME Stall > 1, WatchInv, [SupNext]_supVars PROVE WatchInv'
<1>1. TurnInv' /\ Stall \in Nat /\ Confirm \in Nat
  BY WatchParts, SupNextKeeps, WatchdogConstants
<1>2. ASSUME HostOK(host'), host'.silent = host.silent, host'.kill = host.kill, host'.excuse = host.excuse,
             UNCHANGED dog, Runs
      PROVE  WatchInv'
  BY <1>1, <1>2, RunsKeepWatch
<1>3. ASSUME host' \in {host, [host EXCEPT !.replays = 0], [host EXCEPT !.resume = FALSE],
                      [host EXCEPT !.frozen = TRUE, !.freezes = host.freezes - 1], [host EXCEPT !.frozen = FALSE]}
             \/ \E o : host' = [host EXCEPT !.orphans = o]
      PROVE  HostOK(host') /\ host'.silent = host.silent /\ host'.kill = host.kill /\ host'.excuse = host.excuse
  BY <1>3, WatchParts DEF HostOK, HostFields
<1>4. ASSUME UNCHANGED <<agent, wire>> PROVE Runs
  BY <1>4, WatchParts DEF Runs, ExecutorIsSeen
<1>5. CASE Lives \/ Decides \/ Reaps \/ UserPrompts \/ UserCancels
  <2>1. UNCHANGED dog /\ host' \in {host, [host EXCEPT !.replays = 0]}
    BY <1>5 DEF Lives, Decides, Reaps, UserPrompts, UserCancels, Executes
  <2>2. TurnStep \/ Decision \/ Reaping \/ Prompt("plain") \/ Cancel
    BY <1>5 DEF Lives, Decides, Reaps, UserPrompts, UserCancels, Executes
  <2>3. Runs
    BY <2>2, <1>4, WatchParts, TurnStepRuns, DecisionRuns, OutsideRuns DEF Reaping, Reaped
  <2>4. QED BY <2>1, <2>3, <1>2, <1>3
<1>6. CASE CommandExits \/ Freeze \/ Thaw
  <2>1. /\ UNCHANGED <<agent, wire, dog>>
        /\ host' \in {host, [host EXCEPT !.frozen = TRUE, !.freezes = host.freezes - 1], [host EXCEPT !.frozen = FALSE]}
    BY <1>6 DEF CommandExits, ChildExits, Freeze, Thaw, agentVars
  <2>2. QED BY <2>1, <1>2, <1>3, <1>4
<1>7. CASE ResumeArrives
  <2>1. OnResume /\ UNCHANGED dog /\ host' = [host EXCEPT !.resume = FALSE]
    BY <1>7 DEF ResumeArrives
  <2>2. QED BY <2>1, <1>2, <1>3, WatchParts, OutsideRuns
<1>8. CASE OrphanExits
  <2>1. UNCHANGED <<agent, wire, dog>> /\ \E o : host' = [host EXCEPT !.orphans = o]
    BY <1>8 DEF OrphanExits, agentVars
  <2>2. QED BY <2>1, <1>2, <1>3, <1>4
<1>9. CASE UNCHANGED supVars
  BY <1>9, <1>2, <1>3, <1>4 DEF supVars, agentVars
<1>10. QED
  BY <1>1, <1>5, <1>6, <1>7, <1>8, <1>9, EventSeenKeepsWatch, BeatKeepsWatch, RestartedKeepsWatch,
     DogTickKeepsWatch, IntervalKeepsWatch DEF SupNext

\* At the start nobody suspects anything.
LEMMA SupInitOK == ASSUME SupInit PROVE WatchInv
<1>1. /\ agent = Fresh /\ wire = <<>> /\ dog = NewDog /\ TurnInv
      /\ host = [frozen |-> FALSE, silent |-> 0, due |-> {"beat", "dog"}, resume |-> FALSE,
                 kill |-> FALSE, replays |-> 0, freezes |-> env.freezes,
                 orphans |-> {}, excuse |-> FALSE]
  BY TurnInitOK DEF SupInit, TurnInit
<1>2. HostOK(host)
  BY <1>1 DEF HostOK, HostFields
<1>3. DogOK(dog)
  BY <1>1 DEF NewDog, NoTime, DogOK, DogFields
<1>4. ExecutorIsSeen(agent, wire, host)
  BY <1>1 DEF Fresh, ExecutorIsSeen, Toolish, TurnStarts, EventTypes
<1>5. SuspicionIsRight(dog, host)
  BY <1>1, WatchdogConstants DEF NewDog, NoTime, SuspicionIsRight, Toolish
<1>6. QED BY <1>1, <1>2, <1>3, <1>4, <1>5 DEF WatchInv

\* The watchdog asks for a restart only of an Executor that looked stalled in
\* the turn it knows of, however prompts, cancels, freezes, heartbeats and event
\* copies interleave: the time of a stall is more than one heartbeat
\* (watchdog.ts:49-60, 105-138).
THEOREM HealthyExecutorsLive == Stall > 1 => (SupSpec => HealthyNotKilled)
<1> SUFFICES ASSUME Stall > 1 PROVE SupSpec => HealthyNotKilled
  OBVIOUS
<1> DEFINE Excused == ~host.kill /\ host'.kill => host.excuse
<1>1. SupInit => WatchInv
  BY SupInitOK
<1>2. WatchInv /\ [SupNext]_supVars => WatchInv'
  BY SupNextKeepsWatch
<1>3. WatchInv /\ [SupNext]_supVars => [Excused]_supVars
  <2>1. SUFFICES ASSUME WatchInv, SupNext, ~host.kill, host'.kill PROVE host.excuse
    BY DEF supVars
  <2>2. PICK late \in BOOLEAN : DogTick(late)
    <3>1. HostOK(host)
      BY <2>1, WatchParts
    <3>2. ~(host' = host)
      BY <2>1
    <3>3. \A f \in {"due", "silent", "excuse", "replays", "resume", "frozen", "freezes", "orphans"} :
            \A x : ~(host' = [host EXCEPT ![f] = x])
      BY <2>1, <3>1 DEF HostOK, HostFields
    <3>4. ~(\E x, y : host' \in {[host EXCEPT !.due = x, !.silent = y], [host EXCEPT !.frozen = x, !.freezes = y]})
      BY <2>1, <3>1 DEF HostOK, HostFields
    <3>5. ~IntervalPasses
      BY <2>1, <3>1 DEF IntervalPasses, HostOK, HostFields
    <3>6. ~Restarted
      BY <2>1 DEF Restarted
    <3>7. ~(Lives \/ Decides \/ Reaps \/ UserPrompts \/ UserCancels)
      BY <3>2, <3>3 DEF Lives, Decides, Reaps, UserPrompts, UserCancels, Executes
    <3>8. ~(CommandExits \/ OrphanExits \/ Freeze \/ Thaw \/ ResumeArrives \/ EventSeen \/ Beat)
      BY <3>2, <3>3, <3>4 DEF CommandExits, OrphanExits, Freeze, Thaw, ResumeArrives, EventSeen, Beat
    <3>9. QED BY <2>1, <3>5, <3>6, <3>7, <3>8 DEF SupNext
  <2>3. Escalates(late)
    <3>1. ~(host' = [host EXCEPT !.due = host.due \ {"dog"}])
          /\ ~(host' = [host EXCEPT !.due = host.due \ {"dog"}, !.resume = TRUE])
      BY <2>1, WatchParts DEF HostOK, HostFields
    <3>2. QED BY <2>2, <3>1 DEF DogTick
  <2>4. host.excuse = TRUE
    BY <2>1, <2>3, SuspicionIsExcused, WatchdogConstants
  <2>5. QED BY <2>4
<1>4. QED BY <1>1, <1>2, <1>3, PTL DEF SupSpec, HealthyNotKilled

=============================================================================
