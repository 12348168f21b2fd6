---------------------------- MODULE PartsProofs ------------------------------
(***************************************************************************)
(* Proofs about five parts that share no variable: the Supervisor's        *)
(* reviews (Reviews), one model call (ProviderStream), the ACP client's    *)
(* line (AcpConnection), the memory store (MemoryStore) and the session    *)
(* file (SessionLog).                                                      *)
(***************************************************************************)
EXTENDS Reviews, ProviderStream, AcpConnection, MemoryStore, SessionLog, FiniteSetTheorems,
        SequenceTheorems, NaturalsInduction, WellFoundedInduction, TLAPS

(***************************************************************************)
(* The reviews.                                                            *)
(***************************************************************************)
ReviewSpec == ReviewInit /\ [][ReviewNext]_reviewVars

\* Something waits only behind a review that runs and only before the
\* shutdown, and a review that runs after the re-seed has asked the model.
ReviewInv ==
  /\ reviewer = [f \in {"running", "asked", "pending", "stopped"} |-> reviewer[f]]
  /\ seed = [done |-> seed.done, since |-> seed.since]
  /\ seed.done \in BOOLEAN /\ reviewer.stopped \in BOOLEAN
  /\ reviewer.pending # {} => reviewer.running # {} /\ ~reviewer.stopped

\* The reviewer after a trigger, one field at a time.
LEMMA ScheduledFields ==
  ASSUME ReviewInv, NEW reasons
  PROVE LET r == Scheduled(reviewer, reasons)
        IN  /\ r = [f \in {"running", "asked", "pending", "stopped"} |-> r[f]]
            /\ r.stopped = reviewer.stopped
            /\ reviewer.pending # {} => r.running = reviewer.running /\ reviewer.pending \subseteq r.pending
            /\ r.pending # {} => r.running # {} /\ ~r.stopped
<1> DEFINE r == reviewer
           all == {reasons[i] : i \in DOMAIN reasons}
           first == [r EXCEPT !.running = {Head(reasons)}, !.asked = seed.done, !.pending = {}]
<1>1. CASE r.stopped \/ reasons = <<>>
  BY <1>1 DEF ReviewInv, Scheduled
<1>2. CASE ~(r.stopped \/ reasons = <<>>) /\ r.running # {}
  <2>1. Scheduled(r, reasons) = [r EXCEPT !.pending = @ \cup all]
    BY <1>2 DEF Scheduled
  <2> HIDE DEF all
  <2>2. QED BY <2>1, <1>2 DEF ReviewInv
<1>3. CASE ~(r.stopped \/ reasons = <<>>) /\ r.running = {}
  <2>1. Scheduled(r, reasons) = [first EXCEPT !.pending = all \ {Head(reasons)}]
    BY <1>3 DEF Scheduled, Starts
  <2> HIDE DEF all
  <2>2. QED BY <2>1, <1>3 DEF ReviewInv
<1>4. QED BY <1>1, <1>2, <1>3

\* The reviewer after the end of a review.
LEMMA DrainedFields ==
  ASSUME ReviewInv, reviewer.running # {}
  PROVE LET r == Drained(reviewer)
        IN  /\ r = [f \in {"running", "asked", "pending", "stopped"} |-> r[f]]
            /\ r.stopped = reviewer.stopped
            /\ reviewer.pending # {} => r.running = reviewer.pending /\ r.asked = seed.done
            /\ r.pending = {}
BY DEF Drained, Starts, ReviewInv

\* What a step of the reviews does to the reviewer and the re-seed.
LEMMA ReviewStep ==
  ASSUME ReviewInv, ReviewNext
  PROVE ReviewInv' /\ \A r \in reviewer.pending :
                        \/ r \in reviewer'.pending /\ reviewer'.running # {}
                        \/ r \in reviewer'.running /\ (seed.done => reviewer'.asked)
                        \/ reviewer'.stopped
<1> DEFINE Kept == \A r \in reviewer.pending :
                     \/ r \in reviewer'.pending /\ reviewer'.running # {}
                     \/ r \in reviewer'.running /\ (seed.done => reviewer'.asked)
                     \/ reviewer'.stopped
<1>1. CASE ReviewEnds
  <2>1. reviewer.running # {} /\ reviewer' = Drained(reviewer) /\ seed' = seed
    BY <1>1 DEF ReviewEnds
  <2>2. QED BY <2>1, DrainedFields DEF ReviewInv
<1>2. ASSUME NEW t, NEW reasons, Sees(t, reasons) PROVE ReviewInv' /\ Kept
  <2>1. reviewer' = Scheduled(reviewer, reasons) /\ seed' = seed
    BY <1>2 DEF Sees
  <2>2. QED BY <2>1, ScheduledFields DEF ReviewInv
<1>3. CASE NewTurn
  BY <1>2, <1>3 DEF NewTurn
<1>4. CASE CallRequested
  BY <1>2, <1>4 DEF CallRequested
<1>5. CASE CallFinished
  BY <1>2, <1>5 DEF CallFinished
<1>6. CASE CostSpike
  BY <1>2, <1>6 DEF CostSpike
<1>7. CASE Reseeded
  BY <1>7 DEF Reseeded, ReviewInv
<1>8. CASE OnShutdown
  BY <1>8 DEF OnShutdown, Stopped, ReviewInv
<1>9. QED BY <1>1, <1>3, <1>4, <1>5, <1>6, <1>7, <1>8 DEF ReviewNext

\* The reviewer is sound in every reachable state (supervisor/review.ts:198-221).
THEOREM ReviewsAreSound == ReviewSpec => []ReviewInv
<1>1. ReviewInit => ReviewInv
  <2> SUFFICES ASSUME ReviewInit PROVE ReviewInv
    OBVIOUS
  <2>1. seed = [done |-> FALSE, since |-> seed.since]
    BY DEF ReviewInit
  <2>2. reviewer = [running |-> {}, asked |-> FALSE, pending |-> {}, stopped |-> FALSE]
    BY DEF ReviewInit
  <2>3. seed = [done |-> seed.done, since |-> seed.since] /\ seed.done = FALSE
    BY <2>1
  <2>4. reviewer = [f \in {"running", "asked", "pending", "stopped"} |-> reviewer[f]]
    BY <2>2
  <2>5. reviewer.pending = {} /\ reviewer.stopped \in BOOLEAN
    BY <2>2
  <2>6. QED BY <2>3, <2>4, <2>5 DEF ReviewInv
<1>2. ReviewInv /\ [ReviewNext]_reviewVars => ReviewInv'
  <2>1. ReviewInv /\ ReviewNext => ReviewInv'
    BY ReviewStep
  <2>2. ReviewInv /\ UNCHANGED reviewVars => ReviewInv'
    BY DEF ReviewInv, reviewVars
  <2>3. QED BY <2>1, <2>2
<1>3. QED BY <1>1, <1>2, PTL DEF ReviewSpec

\* What fires while a review runs is reviewed in its turn, whatever the events
\* and the counts are (review.ts:198-221, supervisor/core.ts:172-195).
THEOREM TriggersAreReviewed == ReviewSpec => TriggerIsReviewed
<1> DEFINE Kept == \A r \in reviewer.pending :
                     \/ r \in reviewer'.pending /\ reviewer'.running # {}
                     \/ r \in reviewer'.running /\ (seed.done => reviewer'.asked)
                     \/ reviewer'.stopped
<1>1. ReviewInv /\ [ReviewNext]_reviewVars => [Kept]_reviewVars
  BY ReviewStep
<1>2. QED BY <1>1, ReviewsAreSound, PTL DEF ReviewSpec, TriggerIsReviewed

(***************************************************************************)
(* One model call.                                                         *)
(***************************************************************************)
StreamSpec == StreamInit /\ [][StreamNext]_streamVars

Stages == {"gate", "opening", "sleeping", "streaming", "over"}
Stops == AnthropicStops \cup {"none", "cancelled"}
Calls == [n : Nat, fragments : Nat]

AdapterOK ==
  /\ adapter = [f \in {"name", "at", "attempt", "stop"} |-> adapter[f]]
  /\ adapter.name \in Providers /\ adapter.at \in Stages
  /\ adapter.attempt \in Nat /\ adapter.stop \in Stops
GotOK == got = [text |-> got.text, calls |-> got.calls] /\ got.calls \in Seq(Calls)
AskedOK == asked = [f \in {"aborted", "outcome", "stop"} |-> asked[f]]

\* Before the stream nothing has been received.
NothingYet ==
  adapter.at \in {"gate", "opening", "sleeping"} =>
    blocks = <<>> /\ got.text = {} /\ got.calls = <<>> /\ adapter.stop = "none"

\* All calls that have begun but the last are whole, and after the last word
\* that one is whole too, unless the output limit cut it off.
Whole(n) == blocks[n] = Fragments
BlocksAreWhole ==
  /\ \A n \in 1 .. Len(blocks) : n < Len(blocks) => Whole(n)
  /\ adapter.stop \notin {"none", "max_output"} => \A n \in 1 .. Len(blocks) : Whole(n)

\* While the answer comes, only Anthropic's adapter gives calls: the first ones
\* in order and whole, and all but perhaps the last.
GivenInOrder ==
  /\ Len(got.calls) <= Len(blocks)
  /\ \A i \in 1 .. Len(got.calls) : got.calls[i] = [n |-> i, fragments |-> Fragments] /\ Whole(i)
  /\ adapter.name # "anthropic" => got.calls = <<>>
  /\ adapter.name = "anthropic" => Len(blocks) <= Len(got.calls) + 1

\* A call that is not over has no outcome.
Underway ==
  adapter.at # "over" =>
    asked.outcome = "none" /\ got.text \subseteq {adapter.attempt} /\ BlocksAreWhole /\ GivenInOrder

StreamInv ==
  /\ AdapterOK /\ GotOK /\ AskedOK /\ blocks \in Seq(Nat)
  /\ NothingYet /\ Underway /\ OneAnswer

\* Among some natural numbers there is a least one.
LEMMA LeastNatural ==
  ASSUME NEW T, T \subseteq Nat, T # {} PROVE \E n \in T : \A m \in T : n <= m
<1> DEFINE R == {ss \in Nat \X Nat : ss[1] < ss[2]}
<1>1. IsWellFoundedOn(R, Nat)
  BY NatLessThanWellFounded DEF OpToRel
<1> HIDE DEF R
<1>2. PICK x \in T : \A y \in T : ~(<<y, x>> \in R)
  BY <1>1, WFMin
<1>3. ASSUME NEW m \in T, m < x PROVE FALSE
  <2>1. <<m, x>> \in R
    BY <1>3 DEF R
  <2>2. QED BY <1>2, <2>1
<1>4. \A m \in T : x <= m
  BY <1>3
<1>5. QED BY <1>4

\* Induction: a set that holds 0 and the successors of its numbers holds all.
LEMMA NaturalInduction ==
  ASSUME NEW S, 0 \in S, \A n \in Nat : n \in S => n + 1 \in S PROVE Nat \subseteq S
<1> SUFFICES ASSUME Nat \ S # {} PROVE FALSE
  OBVIOUS
<1>1. PICK n \in Nat \ S : \A m \in Nat \ S : n <= m
  BY LeastNatural
<1>2. n # 0 /\ n - 1 \in Nat /\ n - 1 \in S
  BY <1>1
<1>3. QED BY <1>1, <1>2

\* What is left to give after the first k calls were given: the others, in order.
LEMMA RestIsTail ==
  ASSUME blocks \in Seq(Nat), NEW k \in Nat, k <= Len(blocks), \A n \in 1 .. Len(blocks) : IsGiven(n) <=> n <= k
  PROVE Rest = [i \in 1 .. (Len(blocks) - k) |-> Call(k + i)]
<1> DEFINE L == Len(blocks)
           Value(f, n) == IF n = 0 THEN <<>> ELSE IF IsGiven(n) THEN f[n - 1] ELSE Append(f[n - 1], Call(n))
           After(n) == [i \in 1 .. (IF n <= k THEN 0 ELSE n - k) |-> Call(k + i)]
           r == [n \in 0 .. L |-> After(n)]
<1>1. L \in Nat
  OBVIOUS
<1>2. \A n \in Nat : n <= k => After(n) = <<>>
  OBVIOUS
<1>3. ASSUME NEW n \in Nat, n >= k PROVE After(n + 1) = Append(After(n), Call(n + 1))
  <2>1. After(n + 1) = [i \in 1 .. (n + 1 - k) |-> Call(k + i)] /\ n + 1 - k \in Nat /\ n - k \in Nat
    BY <1>3
  <2>2. After(n) = [i \in 1 .. (n - k) |-> Call(k + i)]
    BY <1>3
  <2> DEFINE C(i) == Call(k + i)
             S == {C(i) : i \in Nat}
  <2>3. Call(n + 1) = C(n + 1 - k) /\ C(n + 1 - k) \in S
    BY <1>3, <2>1
  <2> HIDE DEF C
  <2>4. After(n) = [i \in 1 .. (n - k) |-> C(i)] /\ After(n + 1) = [i \in 1 .. (n + 1 - k) |-> C(i)]
    BY <2>1, <2>2 DEF C
  <2>5. \A i \in Nat : C(i) \in S
    OBVIOUS
  <2> HIDE DEF S, After
  <2>6. ASSUME NEW m \in Nat PROVE [i \in 1 .. m |-> C(i)] \in Seq(S) /\ Len([i \in 1 .. m |-> C(i)]) = m
    <3>1. \A i \in 1 .. m : C(i) \in S
      BY <2>5
    <3>2. QED BY <3>1
  <2>7. /\ After(n) \in Seq(S) /\ Len(After(n)) = n - k
        /\ After(n + 1) \in Seq(S) /\ Len(After(n + 1)) = n + 1 - k
    BY <2>1, <2>4, <2>6
  <2> DEFINE x == C(n + 1 - k)
             s == Append(After(n), x)
  <2>8. s \in Seq(S) /\ Len(s) = n + 1 - k /\ s[n + 1 - k] = x /\ \A i \in 1 .. (n - k) : s[i] = After(n)[i]
    BY <2>1, <2>3, <2>7, AppendProperties
  <2>9. \A i \in 1 .. (n + 1 - k) : i = n + 1 - k \/ i \in 1 .. (n - k)
    BY <2>1
  <2> HIDE DEF s
  <2>10. \A i \in 1 .. (n + 1 - k) : s[i] = After(n + 1)[i]
    BY <2>4, <2>8, <2>9
  <2>11. s = After(n + 1)
    BY <2>7, <2>8, <2>10, SeqEqual
  <2>12. QED BY <2>3, <2>11 DEF s
<1> HIDE DEF After
<1>4. ASSUME NEW n \in 0 .. L PROVE After(n) = IF n = 0 THEN <<>> ELSE IF IsGiven(n) THEN After(n - 1)
                                               ELSE Append(After(n - 1), Call(n))
  <2>1. CASE n <= k
    <3>1. After(n) = <<>> /\ (n # 0 => IsGiven(n) /\ After(n - 1) = <<>>)
      BY <1>1, <1>2, <2>1
    <3>2. QED BY <3>1
  <2>2. CASE n > k
    <3>1. n # 0 /\ ~IsGiven(n) /\ n - 1 \in Nat /\ n - 1 >= k /\ (n - 1) + 1 = n
      BY <1>1, <2>2
    <3>2. After((n - 1) + 1) = Append(After(n - 1), Call((n - 1) + 1))
      BY <1>3, <3>1
    <3>3. QED BY <3>1, <3>2
  <2>3. QED BY <2>1, <2>2
<1> DEFINE Reads(f) == f = [n \in 0 .. L |-> Value(f, n)]
           f == CHOOSE g : Reads(g)
<1>5. Rest = f[L]
  BY DEF Rest
<1>6. Reads(r)
  <2>1. \A n \in 0 .. L : r[n] = After(n)
    OBVIOUS
  <2>2. \A n \in 0 .. L : n # 0 => r[n - 1] = After(n - 1)
    BY <1>1
  <2> HIDE DEF r
  <2>3. \A n \in 0 .. L : r[n] = Value(r, n)
    BY <1>4, <2>1, <2>2
  <2>4. r = [n \in 0 .. L |-> r[n]]
    BY DEF r
  <2> HIDE DEF Value
  <2>5. QED BY <2>3, <2>4
<1> HIDE DEF r, Reads
<1>7. Reads(f)
  BY <1>6
<1> HIDE DEF f
<1>8. \A n \in 0 .. L : f[n] = Value(f, n)
  BY <1>7 DEF Reads
<1> DEFINE S == {n \in Nat : n <= L => f[n] = After(n)}
<1>9. 0 \in S
  BY <1>1, <1>4, <1>8
<1>10. ASSUME NEW n \in Nat, n \in S PROVE n + 1 \in S
  <2> SUFFICES ASSUME n + 1 <= L PROVE f[n + 1] = After(n + 1)
    OBVIOUS
  <2>1. n + 1 \in 0 .. L /\ n + 1 # 0 /\ (n + 1) - 1 = n /\ f[n] = After(n)
    BY <1>1, <1>10
  <2>2. QED BY <1>4, <1>8, <2>1
<1>11. Nat \subseteq S
  <2> HIDE DEF S
  <2>1. QED BY <1>9, <1>10, NaturalInduction
<1>12. f[L] = After(L)
  BY <1>1, <1>11
<1>13. After(L) = [i \in 1 .. (L - k) |-> Call(k + i)]
  BY <1>1 DEF After
<1>14. QED BY <1>5, <1>12, <1>13

\* The first calls are given, and no other.
LEMMA GivenAreFirst ==
  ASSUME GotOK, blocks \in Seq(Nat), GivenInOrder
  PROVE \A n \in 1 .. Len(blocks) : IsGiven(n) <=> n <= Len(got.calls)
<1>1. Len(got.calls) \in Nat /\ DOMAIN got.calls = 1 .. Len(got.calls)
  BY DEF GotOK
<1>2. \A i \in 1 .. Len(got.calls) : got.calls[i].n = i
  <2>1. \A i \in 1 .. Len(got.calls) : got.calls[i] = [n |-> i, fragments |-> Fragments]
    BY DEF GivenInOrder
  <2>2. ASSUME NEW i \in 1 .. Len(got.calls) PROVE got.calls[i].n = i
    <3>1. got.calls[i] = [n |-> i, fragments |-> Fragments]
      BY <2>1
    <3>2. QED BY <3>1
  <2>3. QED BY <2>2
<1>3. ASSUME NEW n \in 1 .. Len(blocks) PROVE IsGiven(n) <=> n <= Len(got.calls)
  <2>1. CASE n <= Len(got.calls)
    <3>1. n \in DOMAIN got.calls /\ got.calls[n].n = n
      BY <1>1, <1>2, <2>1
    <3>2. QED BY <2>1, <3>1 DEF IsGiven
  <2>2. CASE ~(n <= Len(got.calls))
    BY <1>1, <1>2, <2>2 DEF IsGiven
  <2>3. QED BY <2>1, <2>2
<1>4. QED BY <1>3

\* How a model call returns.
LEMMA Returned ==
  ASSUME AdapterOK, AskedOK, NEW outcome, NEW stop, CallReturns(outcome, stop)
  PROVE /\ AdapterOK' /\ AskedOK'
        /\ adapter'.at = "over" /\ adapter'.name = adapter.name
        /\ adapter'.attempt = adapter.attempt /\ adapter'.stop = adapter.stop
        /\ asked'.outcome \in {outcome, "aborted"} /\ asked'.stop = stop
<1>1. adapter' = [adapter EXCEPT !.at = "over"]
  BY DEF CallReturns
<1>2. /\ adapter'.at = "over" /\ adapter'.name = adapter.name
      /\ adapter'.attempt = adapter.attempt /\ adapter'.stop = adapter.stop
  BY <1>1 DEF AdapterOK
<1>3. AdapterOK'
  BY <1>1, <1>2 DEF AdapterOK, Stages
<1> DEFINE o == IF asked.aborted \/ stop = "cancelled" THEN "aborted" ELSE outcome
<1>4. asked' = [asked EXCEPT !.outcome = o, !.stop = stop] /\ o \in {outcome, "aborted"}
  BY DEF CallReturns
<1> HIDE DEF o
<1>5. AskedOK' /\ asked'.outcome = o /\ asked'.stop = stop
  BY <1>4 DEF AskedOK
<1>6. QED BY <1>2, <1>3, <1>4, <1>5

\* A call that is over without an answer to run keeps the invariant.
LEMMA OverWithout ==
  ASSUME AdapterOK', AskedOK', GotOK', blocks' \in Seq(Nat), adapter'.at = "over", asked'.outcome # "ok"
  PROVE StreamInv'
BY DEF StreamInv, NothingYet, Underway, OneAnswer, RunsCalls

\* A model call that fails is one of those.
LEMMA ThrownKeeps ==
  ASSUME StreamInv, Thrown PROVE StreamInv'
<1>1. CallReturns("provider_error", "none") /\ UNCHANGED <<blocks, got>>
  BY DEF Thrown
<1>2. AdapterOK' /\ AskedOK' /\ adapter'.at = "over" /\ asked'.outcome \in {"provider_error", "aborted"}
  BY <1>1, Returned DEF StreamInv
<1>3. GotOK' /\ blocks' \in Seq(Nat)
  BY <1>1 DEF StreamInv, GotOK
<1>4. QED BY <1>2, <1>3, OverWithout

\* A call that goes on has no answer yet.
LEMMA StillUnderway ==
  ASSUME AdapterOK', AskedOK', GotOK', blocks' \in Seq(Nat), adapter'.at # "over", NothingYet',
         asked'.outcome = "none", got'.text \subseteq {adapter'.attempt}, BlocksAreWhole', GivenInOrder'
  PROVE StreamInv'
BY DEF StreamInv, Underway, OneAnswer, RunsCalls

\* Before the stream there is nothing to be whole or in order.
LEMMA NothingIsInOrder ==
  ASSUME blocks = <<>>, got.calls = <<>> PROVE BlocksAreWhole /\ GivenInOrder
BY DEF BlocksAreWhole, GivenInOrder, Whole

\* From one stage before the stream to the next.
LEMMA StageKeeps ==
  ASSUME StreamInv, adapter.at \in {"gate", "opening", "sleeping"}, UNCHANGED <<blocks, got, asked>>,
         AdapterOK', adapter'.at # "over", adapter'.stop = adapter.stop
  PROVE StreamInv'
<1>1. blocks = <<>> /\ got.text = {} /\ got.calls = <<>> /\ adapter.stop = "none" /\ asked.outcome = "none"
  BY DEF StreamInv, NothingYet, Underway
<1>2. blocks' = <<>> /\ got'.text = {} /\ got'.calls = <<>> /\ adapter'.stop = "none" /\ asked'.outcome = "none"
  BY <1>1
<1>3. AskedOK' /\ GotOK' /\ blocks' \in Seq(Nat)
  BY DEF StreamInv, GotOK, AskedOK
<1>4. NothingYet'
  BY <1>2 DEF NothingYet
<1>5. BlocksAreWhole' /\ GivenInOrder'
  BY <1>2 DEF BlocksAreWhole, GivenInOrder, Whole
<1>6. QED BY <1>2, <1>3, <1>4, <1>5, StillUnderway

\* What holds while the answer comes.
LEMMA WhileStreaming ==
  ASSUME StreamInv, Streaming
  PROVE /\ asked.outcome = "none" /\ got.text \subseteq {adapter.attempt} /\ BlocksAreWhole /\ GivenInOrder
        /\ Len(blocks) \in Nat /\ DOMAIN blocks = 1 .. Len(blocks)
        /\ Len(got.calls) \in Nat /\ Len(got.calls) <= Len(blocks)
BY DEF StreamInv, Underway, Streaming, GotOK, GivenInOrder

\* A call begins, or gets a fragment of its arguments.
LEMMA CallEventKeeps ==
  ASSUME StreamInv, CallEvent PROVE StreamInv'
<1> DEFINE L == Len(blocks)
           k == Len(got.calls)
<1>1. Streaming /\ adapter.stop = "none" /\ UNCHANGED <<adapter, got, asked>>
  BY DEF CallEvent, Receives
<1>2. /\ asked.outcome = "none" /\ got.text \subseteq {adapter.attempt} /\ BlocksAreWhole /\ GivenInOrder
      /\ L \in Nat /\ DOMAIN blocks = 1 .. L /\ k \in Nat /\ k <= L
  BY <1>1, WhileStreaming
<1>3. AdapterOK' /\ GotOK' /\ AskedOK' /\ adapter'.at = "streaming"
  BY <1>1 DEF StreamInv, AdapterOK, GotOK, AskedOK, Streaming
<1>4. NothingYet'
  BY <1>3 DEF NothingYet
<1>5. \A n \in 1 .. L : IsGiven(n) <=> n <= k
  BY <1>2, GivenAreFirst DEF StreamInv
<1>6. CASE Complete /\ blocks' = Append(blocks, 0)
  <2>1. blocks' \in Seq(Nat) /\ Len(blocks') = L + 1 /\ \A n \in 1 .. L : blocks'[n] = blocks[n]
    BY <1>6, AppendProperties DEF StreamInv
  <2>2. \A n \in 1 .. L : Whole(n) /\ (adapter.name = "anthropic" => n <= k)
    BY <1>2, <1>5, <1>6 DEF Complete, Whole
  <2>3. adapter.name = "anthropic" => L <= k
    BY <1>2, <2>2
  <2>4. BlocksAreWhole'
    BY <1>1, <1>2, <2>1, <2>2 DEF BlocksAreWhole, Whole
  <2>5. GivenInOrder'
    BY <1>1, <1>2, <2>1, <2>2, <2>3 DEF GivenInOrder, Whole
  <2>6. QED BY <1>1, <1>2, <1>3, <1>4, <2>1, <2>4, <2>5, StillUnderway
<1>7. CASE blocks # <<>> /\ blocks[L] < Fragments /\ blocks' = [blocks EXCEPT ![L] = @ + 1]
  <2>1. L \in 1 .. L /\ blocks[L] \in Nat
    BY <1>2, <1>7 DEF StreamInv
  <2>2. blocks' \in Seq(Nat) /\ Len(blocks') = L /\ \A n \in 1 .. L : n # L => blocks'[n] = blocks[n]
    <3>1. blocks \in Seq(Nat) /\ blocks[L] + 1 \in Nat
      BY <2>1 DEF StreamInv
    <3>2. blocks' = [blocks EXCEPT ![L] = blocks[L] + 1]
      BY <1>7
    <3> HIDE DEF L
    <3>3. QED BY <3>1, <3>2, <2>1, <1>2, ExceptSeq
  <2>3. ~Whole(L)
    BY <1>7, <2>1, StreamBounds DEF Whole
  <2>4. ~(L \in 1 .. k)
    BY <1>2, <2>3 DEF GivenInOrder
  <2>5. \A n \in 1 .. k : n # L /\ n \in 1 .. L
    <3>1. L \in Nat /\ k \in Nat /\ k <= L
      BY <1>2
    <3> HIDE DEF L, k
    <3>2. QED BY <2>4, <3>1
  <2>6. BlocksAreWhole'
    <3>1. \A n \in 1 .. L : n < L => blocks[n] = Fragments
      BY <1>2 DEF BlocksAreWhole, Whole
    <3>2. \A n \in 1 .. L : n < L => n # L
      <4>1. L \in Nat
        BY <1>2
      <4> HIDE DEF L
      <4>2. QED BY <4>1
    <3>3. adapter'.stop = "none"
      BY <1>1
    <3>4. QED BY <3>1, <3>2, <3>3, <2>2 DEF BlocksAreWhole, Whole
  <2>7. GivenInOrder'
    BY <1>1, <1>2, <2>2, <2>5 DEF GivenInOrder, Whole
  <2>8. QED BY <1>1, <1>2, <1>3, <1>4, <2>2, <2>6, <2>7, StillUnderway
<1>8. QED BY <1>6, <1>7 DEF CallEvent

\* Anthropic's adapter gives a call at its end.
LEMMA BlockStopKeeps ==
  ASSUME StreamInv, BlockStop PROVE StreamInv'
<1> DEFINE L == Len(blocks)
           k == Len(got.calls)
           c == Call(L)
<1>1. /\ Streaming /\ adapter.name = "anthropic" /\ UNCHANGED <<adapter, blocks, asked>>
      /\ blocks # <<>> /\ blocks[L] = Fragments /\ ~IsGiven(L)
      /\ got' = [got EXCEPT !.calls = Append(@, c)]
  BY DEF BlockStop, Receives
<1>2. /\ asked.outcome = "none" /\ got.text \subseteq {adapter.attempt} /\ BlocksAreWhole /\ GivenInOrder
      /\ L \in Nat /\ k \in Nat /\ k <= L
  BY <1>1, WhileStreaming
<1>3. AdapterOK' /\ AskedOK' /\ adapter'.at = "streaming" /\ blocks' \in Seq(Nat)
  BY <1>1 DEF StreamInv, AdapterOK, AskedOK, Streaming
<1>4. NothingYet'
  BY <1>3 DEF NothingYet
<1>5. L \in 1 .. L /\ blocks[L] \in Nat
  BY <1>1, <1>2 DEF StreamInv
<1>6. k + 1 = L
  <2>1. \A n \in 1 .. L : IsGiven(n) <=> n <= k
    BY <1>2, GivenAreFirst DEF StreamInv
  <2>2. L <= k + 1
    BY <1>1, <1>2 DEF GivenInOrder
  <2>3. QED BY <1>1, <1>2, <1>5, <2>1, <2>2
<1>7. c = [n |-> L, fragments |-> Fragments] /\ c \in Calls
  BY <1>1, <1>5 DEF Call, Calls
<1> HIDE DEF c
<1>8. got'.text = got.text /\ got'.calls = Append(got.calls, c) /\ got' = [text |-> got'.text, calls |-> got'.calls]
  BY <1>1 DEF StreamInv, GotOK
<1>9. /\ got'.calls \in Seq(Calls) /\ Len(got'.calls) = k + 1 /\ got'.calls[k + 1] = c
      /\ \A i \in 1 .. k : got'.calls[i] = got.calls[i]
  BY <1>7, <1>8, AppendProperties DEF StreamInv, GotOK
<1>10. GotOK'
  BY <1>8, <1>9 DEF GotOK
<1>11. BlocksAreWhole'
  BY <1>1, <1>2 DEF BlocksAreWhole, Whole
<1>12. GivenInOrder'
  <2>1. \A i \in 1 .. (k + 1) : i = L \/ i \in 1 .. k
    BY <1>2, <1>6
  <2>2. Whole(L) /\ \A i \in 1 .. k : got.calls[i] = [n |-> i, fragments |-> Fragments] /\ Whole(i)
    BY <1>1, <1>2 DEF GivenInOrder, Whole
  <2>3. \A i \in 1 .. (k + 1) : got'.calls[i] = [n |-> i, fragments |-> Fragments] /\ Whole(i)
    BY <2>1, <2>2, <1>6, <1>7, <1>9
  <2>4. QED BY <1>1, <1>6, <1>9, <2>3, <1>2 DEF GivenInOrder, Whole
<1>13. QED BY <1>1, <1>2, <1>3, <1>4, <1>8, <1>10, <1>11, <1>12, StillUnderway

\* The end of the stream: what is left is given after what was given.
LEMMA StreamEndsKeeps ==
  ASSUME StreamInv, StreamEnds PROVE StreamInv'
<1> DEFINE L == Len(blocks)
           k == Len(got.calls)
           stop == StopOf(L)
<1>1. CASE adapter.stop = "none" /\ adapter.name = "openai"
  BY <1>1, ThrownKeeps DEF StreamEnds
<1>2. CASE ~(adapter.stop = "none" /\ adapter.name = "openai")
  <2>1. /\ Streaming /\ got' = [got EXCEPT !.calls = @ \o Rest]
        /\ CallReturns("ok", stop) /\ UNCHANGED blocks
    BY <1>2 DEF StreamEnds
  <2>2. /\ got.text \subseteq {adapter.attempt} /\ BlocksAreWhole /\ GivenInOrder
        /\ L \in Nat /\ k \in Nat /\ k <= L
    BY <2>1, WhileStreaming
  <2>3. /\ AdapterOK' /\ AskedOK' /\ adapter'.at = "over" /\ adapter'.name = adapter.name
        /\ adapter'.attempt = adapter.attempt /\ adapter'.stop = adapter.stop /\ asked'.stop = stop
    BY <2>1, Returned DEF StreamInv
  <2>4. \A n \in 1 .. L : IsGiven(n) <=> n <= k
    BY <2>2, GivenAreFirst DEF StreamInv
  <2>5. Rest = [i \in 1 .. (L - k) |-> Call(k + i)]
    BY <2>2, <2>4, RestIsTail DEF StreamInv
  <2> DEFINE C(i) == Call(k + i)
  <2>6. \A i \in 1 .. (L - k) : C(i) \in Calls /\ C(i) = [n |-> k + i, fragments |-> blocks[k + i]]
    <3>1. ASSUME NEW i \in 1 .. (L - k) PROVE C(i) \in Calls /\ C(i) = [n |-> k + i, fragments |-> blocks[k + i]]
      <4>1. k + i \in 1 .. L /\ k + i \in Nat
        BY <2>2
      <4>2. blocks[k + i] \in Nat
        BY <4>1 DEF StreamInv
      <4>3. QED BY <4>1, <4>2 DEF Call, Calls
    <3>2. QED BY <3>1
  <2> HIDE DEF C
  <2>7. Rest \in Seq(Calls) /\ Len(Rest) = L - k /\ \A i \in 1 .. (L - k) : Rest[i] = C(i)
    <3>1. Rest = [i \in 1 .. (L - k) |-> C(i)]
      BY <2>5 DEF C
    <3>2. L - k \in Nat
      BY <2>2
    <3> HIDE DEF L, k
    <3>3. QED BY <3>1, <3>2, <2>6
  <2>8. got'.text = got.text /\ got'.calls = got.calls \o Rest /\ got' = [text |-> got'.text, calls |-> got'.calls]
    BY <2>1 DEF StreamInv, GotOK
  <2>9. /\ got'.calls \in Seq(Calls) /\ Len(got'.calls) = L
        /\ \A i \in 1 .. L : got'.calls[i] = IF i <= k THEN got.calls[i] ELSE Rest[i - k]
    <3>1. got.calls \in Seq(Calls)
      BY DEF StreamInv, GotOK
    <3>2. got'.calls \in Seq(Calls) /\ Len(got'.calls) = k + Len(Rest)
      BY <3>1, <2>7, <2>8, ConcatProperties
    <3>3. \A i \in 1 .. (k + Len(Rest)) : got'.calls[i] = IF i <= k THEN got.calls[i] ELSE Rest[i - k]
      BY <3>1, <2>7, <2>8, ConcatProperties
    <3>4. k + Len(Rest) = L
      BY <2>2, <2>7
    <3>5. QED BY <3>2, <3>3, <3>4
  <2>10. ASSUME NEW i \in 1 .. L
         PROVE got'.calls[i].n = i /\ got'.calls[i].fragments \in {Fragments, blocks[i]}
    <3>1. CASE i <= k
      <4>1. i \in 1 .. k
        BY <2>2, <3>1
      <4>2. got.calls[i] = [n |-> i, fragments |-> Fragments]
        BY <2>2, <4>1 DEF GivenInOrder
      <4>3. QED BY <2>9, <3>1, <4>2
    <3>2. CASE ~(i <= k)
      <4>1. i - k \in 1 .. (L - k) /\ k + (i - k) = i
        BY <2>2, <3>2
      <4>2. C(i - k) = [n |-> i, fragments |-> blocks[i]]
        BY <2>6, <4>1
      <4>3. got'.calls[i] = C(i - k)
        BY <2>7, <2>9, <3>2, <4>1
      <4>4. QED BY <4>2, <4>3
    <3>3. QED BY <3>1, <3>2
  <2>11. stop \in {"tool_calls", "end"} => EndedEarly' \/ \A i \in 1 .. L : blocks[i] = Fragments
    <3>1. CASE adapter.stop = "none"
      BY <1>2, <2>3, <3>1 DEF EndedEarly
    <3>2. CASE adapter.stop # "none"
      <4>1. stop = adapter.stop
        BY <3>2 DEF StopOf
      <4>2. stop \in {"tool_calls", "end"} => adapter.stop \notin {"none", "max_output"}
        BY <4>1
      <4>3. QED BY <2>2, <4>2 DEF BlocksAreWhole, Whole
    <3>3. QED BY <3>1, <3>2
  <2>12. GotOK' /\ blocks' \in Seq(Nat) /\ Len(blocks') = L /\ DOMAIN got'.calls = 1 .. L
    BY <2>1, <2>8, <2>9 DEF StreamInv, GotOK
  <2>13. OneAnswer'
    <3>1. got'.text \subseteq {adapter'.attempt}
      BY <2>2, <2>3, <2>8
    <3>2. RunsCalls' => \A i \in 1 .. L :
            got'.calls[i].n = i /\ (got'.calls[i].fragments = Fragments \/ EndedEarly')
      BY <2>3, <2>10, <2>11 DEF RunsCalls
    <3>3. Len(got'.calls) = Len(blocks')
      BY <2>9, <2>12
    <3>4. QED BY <2>12, <3>1, <3>2, <3>3 DEF OneAnswer
  <2>14. QED BY <2>3, <2>12, <2>13 DEF StreamInv, NothingYet, Underway
<1>3. QED BY <1>1, <1>2

\* Every step of a model call keeps the invariant.
LEMMA StreamStep ==
  ASSUME StreamInv, [StreamNext]_streamVars PROVE StreamInv'
<1>1. CASE AbortCall
  <2>1. adapter.at # "over" /\ asked' = [asked EXCEPT !.aborted = TRUE] /\ UNCHANGED <<adapter, blocks, got>>
    BY <1>1 DEF AbortCall
  <2>2. AskedOK' /\ asked'.outcome = asked.outcome
    BY <2>1 DEF StreamInv, AskedOK
  <2>3. AdapterOK' /\ GotOK' /\ blocks' \in Seq(Nat) /\ NothingYet'
    BY <2>1 DEF StreamInv, AdapterOK, GotOK, NothingYet
  <2>4. asked.outcome = "none" /\ got.text \subseteq {adapter.attempt} /\ BlocksAreWhole /\ GivenInOrder
    BY <2>1 DEF StreamInv, Underway
  <2>5. got'.text \subseteq {adapter'.attempt} /\ BlocksAreWhole' /\ GivenInOrder'
    BY <2>1, <2>4 DEF BlocksAreWhole, GivenInOrder, Whole
  <2>6. QED BY <2>1, <2>2, <2>3, <2>4, <2>5, StillUnderway
<1>2. CASE GateDecides
  <2>1. CASE adapter' = [adapter EXCEPT !.at = "opening"] /\ UNCHANGED <<blocks, got, asked>>
    <3>1. AdapterOK' /\ adapter'.at = "opening" /\ adapter'.stop = adapter.stop
      BY <2>1 DEF StreamInv, AdapterOK, Stages
    <3>2. QED BY <1>2, <2>1, <3>1, StageKeeps DEF GateDecides
  <2>2. CASE CallReturns("ok", "end") /\ UNCHANGED <<blocks, got>>
    <3>1. AdapterOK' /\ AskedOK' /\ adapter'.at = "over"
      BY <2>2, Returned DEF StreamInv
    <3>2. adapter.at = "gate" /\ blocks = <<>> /\ got.text = {} /\ got.calls = <<>>
      BY <1>2 DEF GateDecides, StreamInv, NothingYet
    <3>3. GotOK' /\ blocks' \in Seq(Nat) /\ got'.text = {} /\ got'.calls = <<>> /\ blocks' = <<>>
      BY <2>2, <3>2 DEF StreamInv, GotOK
    <3>4. OneAnswer'
      BY <3>3 DEF OneAnswer
    <3>5. QED BY <3>1, <3>3, <3>4 DEF StreamInv, NothingYet, Underway
  <2>3. QED BY <1>2, <2>1, <2>2 DEF GateDecides
<1>3. CASE Opens
  <2>1. adapter.at = "opening" /\ adapter' = [adapter EXCEPT !.at = "streaming"] /\ UNCHANGED <<blocks, got, asked>>
    BY <1>3 DEF Opens
  <2>2. AdapterOK' /\ adapter'.at = "streaming" /\ adapter'.stop = adapter.stop
    BY <2>1 DEF StreamInv, AdapterOK, Stages
  <2>3. QED BY <2>1, <2>2, StageKeeps
<1>4. ASSUME NEW transient, OpenFails(transient) PROVE StreamInv'
  <2>1. CASE Thrown
    BY <2>1, ThrownKeeps
  <2>2. CASE /\ adapter' = [adapter EXCEPT !.at = "sleeping", !.attempt = @ + 1]
             /\ UNCHANGED <<blocks, got, asked>>
    <3>1. adapter'.attempt = adapter.attempt + 1 /\ adapter.attempt \in Nat
      BY <2>2 DEF StreamInv, AdapterOK
    <3>2. AdapterOK' /\ adapter'.at = "sleeping" /\ adapter'.stop = adapter.stop
      <4>1. adapter' = [f \in {"name", "at", "attempt", "stop"} |-> adapter'[f]]
        BY <2>2 DEF StreamInv, AdapterOK
      <4>2. adapter'.name = adapter.name /\ adapter'.at = "sleeping" /\ adapter'.stop = adapter.stop
        BY <2>2 DEF StreamInv, AdapterOK
      <4>3. adapter'.attempt \in Nat
        BY <3>1
      <4>4. QED BY <4>1, <4>2, <4>3 DEF StreamInv, AdapterOK, Stages
    <3>3. adapter.at = "opening"
      BY <1>4 DEF OpenFails
    <3>4. QED BY <2>2, <3>2, <3>3, StageKeeps
  <2>3. QED BY <1>4, <2>1, <2>2 DEF OpenFails
<1>5. CASE Wakes
  <2>1. adapter.at = "sleeping" /\ adapter' = [adapter EXCEPT !.at = "opening"] /\ UNCHANGED <<blocks, got, asked>>
    BY <1>5 DEF Wakes
  <2>2. AdapterOK' /\ adapter'.at = "opening" /\ adapter'.stop = adapter.stop
    BY <2>1 DEF StreamInv, AdapterOK, Stages
  <2>3. QED BY <2>1, <2>2, StageKeeps
<1>6. CASE TextDelta
  <2>1. Streaming /\ got' = [got EXCEPT !.text = @ \cup {adapter.attempt}] /\ UNCHANGED <<adapter, blocks, asked>>
    BY <1>6 DEF TextDelta, Receives
  <2>2. asked.outcome = "none" /\ got.text \subseteq {adapter.attempt} /\ BlocksAreWhole /\ GivenInOrder
    BY <2>1, WhileStreaming
  <2>3. /\ got'.text = got.text \cup {adapter.attempt} /\ got'.calls = got.calls
        /\ got' = [text |-> got'.text, calls |-> got'.calls]
    BY <2>1 DEF StreamInv, GotOK
  <2>4. AdapterOK' /\ AskedOK' /\ GotOK' /\ blocks' \in Seq(Nat) /\ adapter'.at = "streaming"
    BY <2>1, <2>3 DEF StreamInv, AdapterOK, AskedOK, GotOK, Streaming
  <2>5. NothingYet'
    BY <2>4 DEF NothingYet
  <2>6. got'.text \subseteq {adapter'.attempt} /\ BlocksAreWhole' /\ GivenInOrder'
    BY <2>1, <2>2, <2>3 DEF BlocksAreWhole, GivenInOrder, Whole
  <2>7. QED BY <2>1, <2>2, <2>4, <2>5, <2>6, StillUnderway
<1>7. CASE CallEvent
  BY <1>7, CallEventKeeps
<1>8. CASE BlockStop
  BY <1>8, BlockStopKeeps
<1>9. CASE StopEvent
  <2>1. PICK stop \in OpenAIStops \cup AnthropicStops :
          /\ Streaming /\ adapter.stop = "none" /\ (stop # "max_output" => Complete)
          /\ adapter' = [adapter EXCEPT !.stop = stop] /\ UNCHANGED <<blocks, got, asked>>
    BY <1>9 DEF StopEvent, Receives
  <2>2. /\ asked.outcome = "none" /\ got.text \subseteq {adapter.attempt} /\ BlocksAreWhole /\ GivenInOrder
        /\ DOMAIN blocks = 1 .. Len(blocks)
    BY <2>1, WhileStreaming
  <2>3. /\ adapter'.name = adapter.name /\ adapter'.at = "streaming" /\ adapter'.attempt = adapter.attempt
        /\ adapter'.stop = stop
    BY <2>1 DEF StreamInv, AdapterOK, Streaming
  <2>4. AdapterOK'
    <3>1. adapter' = [f \in {"name", "at", "attempt", "stop"} |-> adapter'[f]]
      BY <2>1 DEF StreamInv, AdapterOK
    <3>2. stop \in Stops
      BY DEF Stops, AnthropicStops
    <3>3. QED BY <2>3, <3>1, <3>2 DEF StreamInv, AdapterOK, Stages
  <2>5. AskedOK' /\ GotOK' /\ blocks' \in Seq(Nat)
    BY <2>1 DEF StreamInv, AskedOK, GotOK
  <2>6. NothingYet'
    BY <2>3 DEF NothingYet
  <2>7. BlocksAreWhole'
    <3>1. \A n \in 1 .. Len(blocks) : n < Len(blocks) => Whole(n)
      BY <2>2 DEF BlocksAreWhole
    <3>2. adapter'.stop \notin {"none", "max_output"} => \A n \in 1 .. Len(blocks) : Whole(n)
      BY <2>1, <2>2, <2>3 DEF Complete, Whole
    <3>3. QED BY <2>1, <3>1, <3>2 DEF BlocksAreWhole, Whole
  <2>8. GivenInOrder' /\ got'.text \subseteq {adapter'.attempt}
    BY <2>1, <2>2, <2>3 DEF GivenInOrder, Whole
  <2>9. QED BY <2>1, <2>2, <2>3, <2>4, <2>5, <2>6, <2>7, <2>8, StillUnderway
<1>10. CASE StreamEnds
  BY <1>10, StreamEndsKeeps
<1>11. CASE StreamBreaks
  BY <1>11, ThrownKeeps DEF StreamBreaks
<1>12. CASE SeesAbort
  <2>1. CallReturns("aborted", "cancelled") /\ UNCHANGED <<blocks, got>>
    BY <1>12 DEF SeesAbort
  <2>2. AdapterOK' /\ AskedOK' /\ adapter'.at = "over" /\ asked'.outcome = "aborted"
    BY <2>1, Returned DEF StreamInv
  <2>3. GotOK' /\ blocks' \in Seq(Nat)
    BY <2>1 DEF StreamInv, GotOK
  <2>4. QED BY <2>2, <2>3, OverWithout
<1>13. CASE UNCHANGED streamVars
  BY <1>13 DEF streamVars, StreamInv, AdapterOK, GotOK, AskedOK, NothingYet, Underway, OneAnswer,
       RunsCalls, EndedEarly, BlocksAreWhole, GivenInOrder, Whole
<1>14. QED
  BY <1>1, <1>2, <1>3, <1>4, <1>5, <1>6, <1>7, <1>8, <1>9, <1>10, <1>11, <1>12, <1>13 DEF StreamNext

\* A model call is sound in every reachable state: what was given is in order,
\* whole and of the attempt under way.
THEOREM StreamIsSound == StreamSpec => []StreamInv
<1>1. StreamInit => StreamInv
  <2> SUFFICES ASSUME StreamInit PROVE StreamInv
    OBVIOUS
  <2>1. AdapterOK /\ adapter.at = "gate" /\ adapter.stop = "none"
    BY DEF StreamInit, AdapterOK, Stages, Stops, Providers
  <2>2. blocks = <<>> /\ got = [text |-> {}, calls |-> <<>>]
        /\ asked = [aborted |-> FALSE, outcome |-> "none", stop |-> "none"]
    BY DEF StreamInit
  <2>3. <<>> \in Seq(Nat) /\ <<>> \in Seq(Calls)
    OBVIOUS
  <2>4. GotOK /\ blocks \in Seq(Nat) /\ got.text = {} /\ got.calls = <<>>
    BY <2>2, <2>3 DEF GotOK
  <2>5. AskedOK /\ asked.outcome = "none"
    BY <2>2 DEF AskedOK
  <2>6. BlocksAreWhole /\ GivenInOrder
    BY <2>2, <2>4, NothingIsInOrder
  <2>7. NothingYet /\ Underway /\ OneAnswer
    BY <2>1, <2>2, <2>4, <2>5, <2>6 DEF NothingYet, Underway, OneAnswer, RunsCalls
  <2>8. QED BY <2>1, <2>4, <2>5, <2>7 DEF StreamInv
<1>2. StreamInv /\ [StreamNext]_streamVars => StreamInv'
  BY StreamStep
<1>3. QED BY <1>1, <1>2, PTL DEF StreamSpec

\* The agent runs the calls the model made, each once, in order and whole, from
\* one attempt, for any number of retries, calls and fragments
\* (openai.ts:99-165, anthropic.ts:159-260, zai.ts:113-183, retry.ts:91-107).
THEOREM AnswersAreOne == StreamSpec => []OneAnswer
<1>1. StreamInv => OneAnswer
  BY DEF StreamInv
<1>2. QED BY <1>1, StreamIsSound, PTL

(***************************************************************************)
(* The ACP client's line.                                                  *)
(***************************************************************************)
\* A nonempty set of numbers has a least one.
LEMMA LeastOne ==
  ASSUME NEW I, I \subseteq Nat, I # {}
  PROVE Min(I) \in I
BY LeastNatural DEF Min

\* The queue after a sequence of lines is the queue after its last line.
LEMMA QueuedOneByOne ==
  ASSUME NEW w, NEW lines, Len(lines) \in Nat
  PROVE \E f : /\ f[0] = w /\ QueuedAll(w, lines) = f[Len(lines)]
               /\ \A n \in 1 .. Len(lines) : f[n] = Queued(f[n - 1], lines[n])
<1> DEFINE L == Len(lines)
           Q(v, n) == Queued(v, lines[n])
           Reads(g, k) == g = [n \in 0 .. k |-> IF n = 0 THEN w ELSE Q(g[n - 1], n)]
           S == {k \in Nat : \E g : Reads(g, k)}
<1>1. QueuedAll(w, lines) = (CHOOSE g : Reads(g, L))[L]
  BY DEF QueuedAll
<1> HIDE DEF Q, L
<1>2. 0 \in S
  <2> DEFINE g == [n \in 0 .. 0 |-> w]
  <2>1. Reads(g, 0)
    OBVIOUS
  <2>2. QED BY <2>1
<1>3. ASSUME NEW k \in Nat, k \in S PROVE k + 1 \in S
  <2>1. PICK f : Reads(f, k)
    BY <1>3
  <2> HIDE DEF Reads
  <2> DEFINE g == [n \in 0 .. (k + 1) |-> IF n <= k THEN f[n] ELSE Q(f[k], k + 1)]
  <2>2. \A n \in 0 .. k : f[n] = IF n = 0 THEN w ELSE Q(f[n - 1], n)
    BY <2>1 DEF Reads
  <2>3. \A n \in 0 .. (k + 1) : g[n] = IF n <= k THEN f[n] ELSE Q(f[k], k + 1)
    OBVIOUS
  <2>4. g = [n \in 0 .. (k + 1) |-> g[n]]
    OBVIOUS
  <2> HIDE DEF g
  <2>5. ASSUME NEW n \in 0 .. (k + 1) PROVE g[n] = IF n = 0 THEN w ELSE Q(g[n - 1], n)
    <3>1. CASE n <= k
      <4>1. n \in 0 .. k /\ (n # 0 => n - 1 \in 0 .. (k + 1) /\ n - 1 <= k)
        BY <3>1
      <4>2. g[n] = f[n] /\ (n # 0 => g[n - 1] = f[n - 1])
        BY <2>3, <3>1, <4>1
      <4>3. QED BY <2>2, <4>1, <4>2
    <3>2. CASE ~(n <= k)
      <4>1. n = k + 1 /\ n # 0 /\ n - 1 = k /\ k \in 0 .. (k + 1) /\ k <= k
        BY <3>2
      <4>2. g[n] = Q(f[k], n) /\ g[k] = f[k]
        BY <2>3, <3>2, <4>1
      <4>3. QED BY <4>1, <4>2
    <3>3. QED BY <3>1, <3>2
  <2>6. Reads(g, k + 1)
    BY <2>4, <2>5 DEF Reads
  <2>7. QED BY <2>6
<1>4. Nat \subseteq S
  <2> HIDE DEF S
  <2>1. QED BY <1>2, <1>3, NaturalInduction
<1>5. L \in Nat /\ L \in 0 .. L /\ 0 \in 0 .. L
  BY DEF L
<1> DEFINE f == CHOOSE g : Reads(g, L)
<1>6. Reads(f, L)
  <2>1. \E g : Reads(g, L)
    BY <1>4, <1>5
  <2> HIDE DEF Reads
  <2>2. QED BY <2>1
<1> HIDE DEF f
<1>7. \A n \in 0 .. L : f[n] = IF n = 0 THEN w ELSE Q(f[n - 1], n)
  BY <1>6
<1>8. \A n \in 1 .. L : n \in 0 .. L /\ n # 0
  BY <1>5
<1>9. \A n \in 1 .. L : f[n] = Queued(f[n - 1], lines[n])
  BY <1>7, <1>8 DEF Q
<1>10. f[0] = w /\ QueuedAll(w, lines) = f[L]
  BY <1>1, <1>5, <1>7 DEF f
<1>11. QED BY <1>9, <1>10 DEF L
ClientLines == [kind : {"update", "answer", "request"}, n : Int]

WriterOK(w) ==
  /\ w = [f \in {"queue", "current", "burst", "dead"} |-> w[f]]
  /\ w.queue \in Seq(ClientLines) /\ w.current \in Seq(ClientLines) /\ Len(w.current) <= 1
  /\ w.burst \in Nat /\ w.dead \in BOOLEAN

\* The lines queued or being written.
Held(w) == ToSet(w.queue \o w.current)

\* Every line of s is queued or being written, or it is an update that the
\* burst has counted as dropped.
Kept(s, w) == \A l \in s : l \in Held(w) \/ (Droppable(l) /\ w.burst > 0 /\ Writing(w))

\* A line is held when it is in the queue or on its way out.
LEMMA HeldIs ==
  ASSUME NEW q \in Seq(ClientLines), NEW c \in Seq(ClientLines), NEW l
  PROVE l \in ToSet(q \o c) <=> (\E i \in 1 .. Len(q) : l = q[i]) \/ (\E i \in 1 .. Len(c) : l = c[i])
<1> DEFINE s == q \o c
<1>1. /\ s \in Seq(ClientLines) /\ Len(s) = Len(q) + Len(c) /\ Len(q) \in Nat /\ Len(c) \in Nat
      /\ \A i \in 1 .. Len(q) + Len(c) : s[i] = IF i <= Len(q) THEN q[i] ELSE c[i - Len(q)]
  BY ConcatProperties
<1>2. l \in ToSet(s) <=> \E i \in 1 .. Len(q) + Len(c) : l = s[i]
  BY <1>1 DEF ToSet
<1> HIDE DEF s
<1>3. ASSUME NEW i \in 1 .. Len(q) PROVE s[i] = q[i] /\ i \in 1 .. Len(q) + Len(c)
  BY <1>1
<1>4. ASSUME NEW i \in 1 .. Len(c) PROVE s[Len(q) + i] = c[i] /\ Len(q) + i \in 1 .. Len(q) + Len(c)
  <2>1. Len(q) + i \in 1 .. Len(q) + Len(c) /\ ~(Len(q) + i <= Len(q)) /\ (Len(q) + i) - Len(q) = i
    BY <1>1
  <2>2. QED BY <1>1, <2>1
<1>5. ASSUME NEW i \in 1 .. Len(q) + Len(c)
      PROVE (i \in 1 .. Len(q) /\ s[i] = q[i]) \/ (i - Len(q) \in 1 .. Len(c) /\ s[i] = c[i - Len(q)])
  BY <1>1
<1>6. QED BY <1>2, <1>3, <1>4, <1>5 DEF s

\* Removing one element of a queue leaves the others.
LEMMA RemovedOne ==
  ASSUME NEW q \in Seq(ClientLines), NEW at \in 1 .. Len(q)
  PROVE /\ RemoveAt(q, at) \in Seq(ClientLines) /\ Len(RemoveAt(q, at)) = Len(q) - 1
        /\ \A i \in 1 .. Len(q) : i = at \/ \E j \in 1 .. Len(q) - 1 : RemoveAt(q, at)[j] = q[i]
<1> DEFINE L == Len(q)
           a == SubSeq(q, 1, at - 1)
           b == SubSeq(q, at + 1, L)
           r == RemoveAt(q, at)
<1>1. L \in Nat /\ at \in Nat /\ 1 <= at /\ at <= L /\ \A i \in 1 .. L : q[i] \in ClientLines
  OBVIOUS
<1>2. a \in Seq(ClientLines) /\ Len(a) = at - 1 /\ \A i \in 1 .. at - 1 : a[i] = q[i]
  <2>1. at - 1 \in Int /\ 1 \in Int /\ (\A i \in 1 .. at - 1 : q[i] \in ClientLines) /\ (at - 1) - 1 + 1 = at - 1
    BY <1>1
  <2>2. /\ SubSeq(q, 1, at - 1) \in Seq(ClientLines)
        /\ Len(SubSeq(q, 1, at - 1)) = (IF 1 <= at - 1 THEN (at - 1) - 1 + 1 ELSE 0)
        /\ \A i \in 1 .. (at - 1) - 1 + 1 : SubSeq(q, 1, at - 1)[i] = q[1 + i - 1]
    BY <2>1, SubSeqProperties
  <2>3. \A i \in 1 .. at - 1 : 1 + i - 1 = i
    BY <1>1
  <2>4. (IF 1 <= at - 1 THEN (at - 1) - 1 + 1 ELSE 0) = at - 1
    BY <1>1
  <2>5. QED BY <2>1, <2>2, <2>3, <2>4
<1>3. b \in Seq(ClientLines) /\ Len(b) = L - at /\ \A i \in 1 .. L - at : b[i] = q[at + i]
  <2>1. at + 1 \in Int /\ L \in Int /\ (\A i \in at + 1 .. L : q[i] \in ClientLines) /\ L - (at + 1) + 1 = L - at
    BY <1>1
  <2>2. /\ b \in Seq(ClientLines)
        /\ Len(b) = (IF at + 1 <= L THEN L - (at + 1) + 1 ELSE 0)
        /\ \A i \in 1 .. L - (at + 1) + 1 : b[i] = q[at + 1 + i - 1]
    BY <2>1, SubSeqProperties
  <2>3. \A i \in 1 .. L - at : at + 1 + i - 1 = at + i
    BY <1>1
  <2>4. (IF at + 1 <= L THEN L - (at + 1) + 1 ELSE 0) = L - at
    BY <1>1
  <2> HIDE DEF b
  <2>5. QED BY <2>1, <2>2, <2>3, <2>4
<1>4. r = a \o b
  BY DEF RemoveAt
<1> HIDE DEF a, b, r
<1>5. /\ r \in Seq(ClientLines) /\ Len(r) = Len(a) + Len(b)
      /\ \A i \in 1 .. Len(a) + Len(b) : r[i] = IF i <= Len(a) THEN a[i] ELSE b[i - Len(a)]
  BY <1>2, <1>3, <1>4, ConcatProperties
<1>6. (at - 1) + (L - at) = L - 1
  BY <1>1
<1> HIDE DEF L
<1>7. ASSUME NEW i \in 1 .. L, i # at PROVE \E j \in 1 .. L - 1 : r[j] = q[i]
  <2>1. CASE i < at
    <3>1. i \in 1 .. at - 1 /\ i \in 1 .. L - 1 /\ i <= at - 1
      BY <1>1, <2>1
    <3>2. r[i] = a[i] /\ a[i] = q[i]
      BY <1>2, <1>3, <1>5, <1>6, <3>1
    <3>3. QED BY <3>1, <3>2
  <2>2. CASE i > at
    <3>1. /\ i - 1 \in 1 .. L - 1 /\ ~(i - 1 <= at - 1) /\ (i - 1) - (at - 1) \in 1 .. L - at
          /\ at + ((i - 1) - (at - 1)) = i
      BY <1>1, <2>2
    <3>2. r[i - 1] = b[(i - 1) - (at - 1)] /\ b[(i - 1) - (at - 1)] = q[i]
      BY <1>2, <1>3, <1>5, <1>6, <3>1
    <3>3. QED BY <3>1, <3>2
  <2>3. QED BY <1>1, <1>7, <2>1, <2>2
<1>8. QED BY <1>2, <1>3, <1>5, <1>6, <1>7 DEF r, L

\* What one line does to the queue of a living connection: the queue writes,
\* and every line it held, and the new one, is kept.
LEMMA QueuedKeeps ==
  ASSUME NEW w, WriterOK(w), NEW l \in ClientLines, ~w.dead
  PROVE LET v == Queued(w, l)
        IN  WriterOK(v) /\ ~v.dead /\ Writing(v) /\ v.burst >= w.burst /\ Kept(Held(w) \cup {l}, v)
<1> DEFINE v == Queued(w, l)
           at == DroppedAt(w)
           room == IF at = 0 THEN w.queue ELSE RemoveAt(w.queue, at)
<1>0. w.queue \in Seq(ClientLines) /\ w.current \in Seq(ClientLines) /\ w.burst \in Nat /\ Len(w.queue) \in Nat
  BY DEF WriterOK
<1>1. CASE ~Writing(w)
  <2>1. v = [w EXCEPT !.current = <<l>>]
    BY <1>1 DEF Queued
  <2>2. v.queue = w.queue /\ v.current = <<l>> /\ v.burst = w.burst /\ v.dead = w.dead
        /\ v = [f \in {"queue", "current", "burst", "dead"} |-> v[f]]
    BY <2>1 DEF WriterOK
  <2> HIDE DEF v
  <2>3. v.current \in Seq(ClientLines) /\ Len(v.current) = 1 /\ v.current[1] = l /\ v.current # <<>>
    BY <2>2
  <2>4. \A x : x \in Held(w) \cup {l} => x \in Held(v)
    <3>1. \A i \in 1 .. Len(w.current) : FALSE
      BY <1>1 DEF Writing
    <3>2. ASSUME NEW x, x \in Held(w) PROVE \E i \in 1 .. Len(w.queue) : x = w.queue[i]
      BY <1>0, <3>1, <3>2, HeldIs DEF Held
    <3>3. ASSUME NEW x, x = l \/ \E i \in 1 .. Len(v.queue) : x = v.queue[i] PROVE x \in Held(v)
      <4>1. x = l => \E i \in 1 .. Len(v.current) : x = v.current[i]
        BY <2>3
      <4>2. v.queue \in Seq(ClientLines)
        BY <1>0, <2>2
      <4>3. QED BY <2>3, <3>3, <4>1, <4>2, HeldIs DEF Held
    <3>4. QED BY <2>2, <3>2, <3>3
  <2>5. WriterOK(v)
    BY <2>2, <2>3 DEF WriterOK
  <2>6. v.burst >= w.burst
    BY <1>0, <2>2
  <2>7. QED BY <2>2, <2>3, <2>4, <2>5, <2>6 DEF Kept, Writing, v
<1>2. CASE Writing(w)
  <2>1. v = [w EXCEPT !.queue = Append(room, l), !.burst = w.burst + Len(w.queue) - Len(room)]
    BY <1>2 DEF Queued
  <2>2. /\ v.queue = Append(room, l) /\ v.current = w.current /\ v.dead = w.dead
        /\ v.burst = w.burst + Len(w.queue) - Len(room)
        /\ v = [f \in {"queue", "current", "burst", "dead"} |-> v[f]]
    BY <2>1 DEF WriterOK
  <2>3. at = 0 \/ (at \in 1 .. Len(w.queue) /\ Droppable(w.queue[at]))
    <3> DEFINE I == {i \in 1 .. Len(w.queue) : Droppable(w.queue[i])}
    <3>1. at = 0 \/ (I # {} /\ at = Min(I))
      BY DEF DroppedAt, SelectInSeq
    <3>2. I \subseteq Nat
      OBVIOUS
    <3>3. I # {} => Min(I) \in I
      <4> HIDE DEF I
      <4>1. QED BY <3>2, LeastOne
    <3>4. QED BY <3>1, <3>3
  <2> HIDE DEF at
  <2>4. /\ room \in Seq(ClientLines) /\ Len(room) <= Len(w.queue) /\ Len(room) \in Nat
        /\ \A i \in 1 .. Len(w.queue) :
             \/ \E j \in 1 .. Len(room) : room[j] = w.queue[i]
             \/ Droppable(w.queue[i]) /\ Len(room) < Len(w.queue)
    <3>1. CASE at = 0
      <4>1. room = w.queue
        BY <3>1
      <4>2. QED BY <1>0, <4>1
    <3>2. CASE at # 0
      <4>1. room = RemoveAt(w.queue, at) /\ at \in 1 .. Len(w.queue) /\ Droppable(w.queue[at])
        BY <2>3, <3>2
      <4>2. /\ room \in Seq(ClientLines) /\ Len(room) = Len(w.queue) - 1
            /\ \A i \in 1 .. Len(w.queue) : i = at \/ \E j \in 1 .. Len(w.queue) - 1 : room[j] = w.queue[i]
        BY <1>0, <4>1, RemovedOne
      <4>3. Len(room) \in Nat /\ Len(room) < Len(w.queue) /\ Len(room) <= Len(w.queue)
        BY <1>0, <4>1, <4>2
      <4> HIDE DEF room
      <4>4. \A i \in 1 .. Len(w.queue) : i = at => Droppable(w.queue[i])
        BY <4>1
      <4>5. QED BY <4>2, <4>3, <4>4
    <3>3. QED BY <3>1, <3>2
  <2> HIDE DEF room, v
  <2>5. /\ v.queue \in Seq(ClientLines) /\ Len(v.queue) = Len(room) + 1
        /\ (\A i \in 1 .. Len(room) : v.queue[i] = room[i]) /\ v.queue[Len(room) + 1] = l
    BY <2>2, <2>4, AppendProperties
  <2>6. v.burst \in Nat /\ v.burst >= w.burst /\ (Len(room) < Len(w.queue) => v.burst > 0)
    BY <1>0, <2>2, <2>4
  <2>7. WriterOK(v) /\ ~v.dead /\ Writing(v)
    BY <1>2, <2>2, <2>5, <2>6 DEF WriterOK, Writing
  <2>8. \A x : x \in Held(v) <=> (\E i \in 1 .. Len(v.queue) : x = v.queue[i])
                                 \/ (\E i \in 1 .. Len(w.current) : x = w.current[i])
    <3>1. v.queue \in Seq(ClientLines) /\ w.current \in Seq(ClientLines) /\ Held(v) = ToSet(v.queue \o w.current)
      BY <1>0, <2>2, <2>5 DEF Held
    <3>2. QED BY <3>1, HeldIs
  <2>9. \A i \in 1 .. Len(room) : i \in 1 .. Len(v.queue)
    BY <2>4, <2>5
  <2>10. l \in Held(v)
    <3>1. Len(room) + 1 \in 1 .. Len(v.queue)
      BY <2>4, <2>5
    <3>2. QED BY <2>5, <2>8, <3>1
  <2>11. ASSUME NEW x \in Held(w) PROVE x \in Held(v) \/ (Droppable(x) /\ v.burst > 0 /\ Writing(v))
    <3>1. \/ \E i \in 1 .. Len(w.queue) : x = w.queue[i]
          \/ \E i \in 1 .. Len(w.current) : x = w.current[i]
      BY <1>0, HeldIs DEF Held
    <3>2. CASE \E i \in 1 .. Len(w.current) : x = w.current[i]
      BY <2>8, <3>2
    <3>3. CASE \E i \in 1 .. Len(w.queue) : x = w.queue[i]
      <4>1. PICK i \in 1 .. Len(w.queue) : x = w.queue[i]
        BY <3>3
      <4>2. CASE \E j \in 1 .. Len(room) : room[j] = w.queue[i]
        <5>1. PICK j \in 1 .. Len(room) : room[j] = w.queue[i]
          BY <4>2
        <5>2. j \in 1 .. Len(v.queue) /\ v.queue[j] = x
          BY <2>5, <2>9, <4>1, <5>1
        <5>3. QED BY <2>8, <5>2
      <4>3. CASE Droppable(w.queue[i]) /\ Len(room) < Len(w.queue)
        BY <2>6, <2>7, <4>1, <4>3
      <4>4. QED BY <2>4, <4>1, <4>2, <4>3
    <3>4. QED BY <3>1, <3>2, <3>3
  <2>12. Kept(Held(w) \cup {l}, v)
    BY <2>10, <2>11 DEF Kept
  <2>13. QED BY <2>6, <2>7, <2>12 DEF v
<1>3. QED BY <1>1, <1>2

\* The same for a sequence of lines: nothing but updates is dropped, and a
\* dropped update is counted by a burst that still has lines to write.
LEMMA AllQueuedKeeps ==
  ASSUME NEW w, WriterOK(w), NEW lines \in Seq(ClientLines), ~w.dead
  PROVE LET v == QueuedAll(w, lines)
        IN  /\ WriterOK(v) /\ ~v.dead /\ v.burst >= w.burst
            /\ Writing(w) => Writing(v)
            /\ Kept(Held(w) \cup ToSet(lines), v)
<1> DEFINE L == Len(lines)
<1>1. L \in Nat /\ \A n \in 1 .. L : lines[n] \in ClientLines
  OBVIOUS
<1>2. PICK f : /\ f[0] = w /\ QueuedAll(w, lines) = f[L]
               /\ \A n \in 1 .. L : f[n] = Queued(f[n - 1], lines[n])
  BY <1>1, QueuedOneByOne
<1> DEFINE Sofar(n) == {lines[i] : i \in 1 .. n}
           Good(n) == /\ WriterOK(f[n]) /\ ~f[n].dead /\ f[n].burst >= w.burst
                      /\ Writing(w) => Writing(f[n])
                      /\ Kept(Held(w) \cup Sofar(n), f[n])
           S == {n \in Nat : n <= L => Good(n)}
<1>3. Good(0)
  <2>1. w.burst \in Nat
    BY DEF WriterOK
  <2>2. Kept(Held(w) \cup Sofar(0), w)
    BY DEF Kept
  <2>3. QED BY <1>2, <2>1, <2>2
<1>4. ASSUME NEW n \in Nat, n \in S PROVE n + 1 \in S
  <2> SUFFICES ASSUME n + 1 <= L PROVE Good(n + 1)
    OBVIOUS
  <2>1. n + 1 \in 1 .. L /\ (n + 1) - 1 = n /\ n <= L
    BY <1>1
  <2>2. Good(n)
    BY <1>4, <2>1
  <2> DEFINE u == f[n]
             v == f[n + 1]
             l == lines[n + 1]
  <2>3. v = Queued(u, l) /\ l \in ClientLines
    BY <1>1, <1>2, <2>1
  <2>4. WriterOK(v) /\ ~v.dead /\ Writing(v) /\ v.burst >= u.burst /\ Kept(Held(u) \cup {l}, v)
    BY <2>2, <2>3, QueuedKeeps
  <2>5. Sofar(n + 1) = Sofar(n) \cup {l}
    <3>1. \A i \in 1 .. n + 1 : i = n + 1 \/ i \in 1 .. n
      OBVIOUS
    <3>2. \A i \in 1 .. n : i \in 1 .. n + 1
      OBVIOUS
    <3>3. n + 1 \in 1 .. n + 1
      OBVIOUS
    <3>4. QED BY <3>1, <3>2, <3>3
  <2>6. v.burst \in Nat /\ u.burst \in Nat /\ w.burst \in Nat
    BY <2>2, <2>4 DEF WriterOK
  <2>7. u.burst > 0 => v.burst > 0
    BY <2>4, <2>6
  <2>8. v.burst >= w.burst
    BY <2>2, <2>4, <2>6
  <2> HIDE DEF u, v, l, Sofar
  <2>9. Kept(Held(w) \cup Sofar(n), u)
    BY <2>2 DEF u
  <2>10. Kept(Held(w) \cup Sofar(n + 1), v)
    BY <2>4, <2>5, <2>7, <2>9 DEF Kept
  <2>11. QED BY <2>4, <2>8, <2>10 DEF v
<1>5. Nat \subseteq S
  <2>1. 0 \in S
    BY <1>3
  <2> HIDE DEF S
  <2>2. QED BY <1>4, <2>1, NaturalInduction
<1>6. Good(L)
  <2>1. L \in S
    BY <1>1, <1>5
  <2>2. L <= L
    BY <1>1
  <2> HIDE DEF Good
  <2>3. QED BY <2>1, <2>2
<1>7. Sofar(L) = ToSet(lines)
  <2>1. DOMAIN lines = 1 .. L
    OBVIOUS
  <2>2. QED BY <2>1 DEF ToSet
<1>8. QED BY <1>2, <1>6, <1>7

\* A dead connection takes no line.
LEMMA DeadTakesNone ==
  ASSUME NEW w, NEW lines, Len(lines) \in Nat, w.dead PROVE QueuedAll(w, lines) = w
<1> DEFINE L == Len(lines)
<1>1. PICK f : /\ f[0] = w /\ QueuedAll(w, lines) = f[L]
               /\ \A n \in 1 .. L : f[n] = Queued(f[n - 1], lines[n])
  BY QueuedOneByOne
<1> DEFINE S == {n \in Nat : n <= L => f[n] = w}
<1>2. 0 \in S
  BY <1>1
<1>3. ASSUME NEW n \in Nat, n \in S PROVE n + 1 \in S
  <2> SUFFICES ASSUME n + 1 <= L PROVE f[n + 1] = w
    OBVIOUS
  <2>1. n + 1 \in 1 .. L /\ (n + 1) - 1 = n /\ f[n] = w
    BY <1>3
  <2>2. f[n + 1] = Queued(w, lines[n + 1])
    BY <1>1, <2>1
  <2>3. QED BY <2>2 DEF Queued
<1>4. Nat \subseteq S
  <2> HIDE DEF S
  <2>1. QED BY <1>2, <1>3, NaturalInduction
<1>5. L \in S /\ L <= L
  BY <1>4
<1>6. QED BY <1>1, <1>5

\* What is no longer held after new lines were queued is counted by the burst.
LEMMA DroppedIsCounted ==
  ASSUME NEW w, WriterOK(w), NEW lines \in Seq(ClientLines), ~w.dead
  PROVE LET v == QueuedAll(w, lines) IN Dropped(w, lines, v) # {} => v.burst > 0 /\ Writing(v)
<1> DEFINE v == QueuedAll(w, lines)
<1> SUFFICES ASSUME NEW n \in Dropped(w, lines, v) PROVE v.burst > 0 /\ Writing(v)
  OBVIOUS
<1> HIDE DEF v
<1>1. /\ n \in {l.n : l \in {m \in Held(w) : Droppable(m)}} \cup {l.n : l \in {m \in ToSet(lines) : Droppable(m)}}
      /\ n \notin {l.n : l \in {m \in Held(v) : Droppable(m)}}
  BY DEF Dropped, UpdatesOf, Held
<1>2. PICK l \in Held(w) \cup ToSet(lines) : Droppable(l) /\ l.n = n
  BY <1>1
<1>3. l \notin Held(v)
  BY <1>1, <1>2
<1>4. Kept(Held(w) \cup ToSet(lines), v)
  BY AllQueuedKeeps DEF v
<1>5. QED BY <1>3, <1>4 DEF Kept

LinkOK ==
  /\ link = [f \in {"seq", "gap", "lines", "next", "pending", "written"} |-> link[f]]
  /\ link.seq \in Nat /\ link.lines \in Nat /\ link.next \in Nat
  /\ session = [f \in {"events", "replay"} |-> session[f]]
  /\ session.events \in Nat /\ session.replay \in Nat

\* What the client was asked and answered, and the two halves of the property.
Owed(k) == {Answer(n) : n \in 1 .. k.lines} \cup {Question(n) : n \in 1 .. k.next}
NoneMissing(w, k) == Owed(k) \subseteq k.written \cup Held(w)
LossTold(w, k, gone) == gone # {} => k.gap \/ (w.burst > 0 /\ Writing(w))

LineInv ==
  /\ WriterOK(writer) /\ LinkOK
  /\ ~writer.dead => NoneMissing(writer, link) /\ LossTold(writer, link, lost)

\* New lines on a connection whose gap stays: what was held or written is
\* still, and what they push out is counted.
LEMMA EnqueueKeeps ==
  ASSUME LineInv, NEW lines \in Seq(ClientLines), Enqueues(lines), link'.gap = link.gap,
         link'.written = link.written, Owed(link)' \subseteq Owed(link) \cup ToSet(lines)
  PROVE /\ WriterOK(writer)'
        /\ (~writer.dead => NoneMissing(writer, link) /\ LossTold(writer, link, lost))'
<1>0. Len(lines) \in Nat
  OBVIOUS
<1>1. CASE writer.dead
  <2>1. writer' = writer
    BY <1>0, <1>1, DeadTakesNone DEF Enqueues
  <2>2. QED BY <1>1, <2>1 DEF LineInv, WriterOK
<1>2. CASE ~writer.dead
  <2> DEFINE v == QueuedAll(writer, lines)
  <2>1. writer' = v /\ lost' = lost \cup Dropped(writer, lines, v)
    BY <1>2 DEF Enqueues
  <2>2. /\ WriterOK(v) /\ ~v.dead /\ v.burst >= writer.burst /\ (Writing(writer) => Writing(v))
        /\ Kept(Held(writer) \cup ToSet(lines), v)
    BY <1>2, AllQueuedKeeps DEF LineInv
  <2>3. Dropped(writer, lines, v) # {} => v.burst > 0 /\ Writing(v)
    BY <1>2, DroppedIsCounted DEF LineInv
  <2> HIDE DEF v
  <2>4. v.burst \in Nat /\ writer.burst \in Nat
    BY <2>2 DEF WriterOK, LineInv
  <2>5. writer.burst > 0 => v.burst > 0
    BY <2>2, <2>4
  <2>6. LossTold(writer, link, lost)
    BY <1>2 DEF LineInv
  <2>7. lost' # {} => link'.gap \/ (v.burst > 0 /\ Writing(v))
    BY <2>1, <2>2, <2>3, <2>5, <2>6 DEF LossTold
  <2>8. NoneMissing(writer, link)
    BY <1>2 DEF LineInv
  <2>9. ASSUME NEW l \in Owed(link)' PROVE l \in link'.written \cup Held(v)
    <3>1. l \in link.written \cup Held(writer) \cup ToSet(lines)
      BY <2>8 DEF NoneMissing
    <3>2. ~Droppable(l)
      BY DEF Owed, Answer, Question, Droppable
    <3>3. QED BY <2>2, <3>1, <3>2 DEF Kept
  <2>10. NoneMissing(writer, link)'
    BY <2>1, <2>9 DEF NoneMissing, Held
  <2>11. LossTold(writer, link, lost)'
    BY <2>1, <2>7 DEF LossTold, Writing
  <2>12. WriterOK(writer)'
    BY <2>1, <2>2 DEF WriterOK
  <2>13. QED BY <2>10, <2>11, <2>12
<1>3. QED BY <1>1, <1>2

\* The updates of an event are lines, numbered from the link's sequence.
LEMMA NumberedAreLines ==
  ASSUME NEW from \in Nat, NEW count \in Nat
  PROVE /\ Numbered(from, count) \in Seq(ClientLines) /\ Len(Numbered(from, count)) = count
        /\ \A l \in ToSet(Numbered(from, count)) : Droppable(l)
<1> DEFINE s == Numbered(from, count)
<1>1. s = [i \in 1 .. count |-> Update(from + i)]
  BY DEF Numbered
<1>2. \A i \in 1 .. count : Update(from + i) \in ClientLines /\ Droppable(Update(from + i))
  BY DEF Update, ClientLines, Droppable
<1> HIDE DEF s
<1>3. s \in Seq(ClientLines) /\ Len(s) = count /\ DOMAIN s = 1 .. count
  <2> HIDE DEF ClientLines
  <2>1. QED BY <1>1, <1>2
<1>4. QED BY <1>1, <1>2, <1>3 DEF ToSet, s

\* A step preserves the types, and the two halves of the property.
LEMMA LineStep == ASSUME LineInv, [AcpNext]_acpVars PROVE LineInv'
<1>0. /\ writer = [f \in {"queue", "current", "burst", "dead"} |-> writer[f]]
      /\ link = [f \in {"seq", "gap", "lines", "next", "pending", "written"} |-> link[f]]
      /\ writer.queue \in Seq(ClientLines) /\ writer.current \in Seq(ClientLines) /\ Len(writer.current) <= 1
  BY DEF LineInv, WriterOK, LinkOK
<1>1. CASE LineWritten
  <2> DEFINE q == writer.queue
             c == writer.current
             x == Head(c)
  <2>1. /\ c # <<>> /\ c \in Seq(ClientLines) /\ q \in Seq(ClientLines) /\ Len(c) = 1 /\ x = c[1] /\ x \in ClientLines
        /\ \A i \in 1 .. Len(c) : c[i] = x
    <3>1. c # <<>> /\ Len(c) \in Nat /\ Len(c) # 0
      BY <1>0, <1>1 DEF LineWritten, Writing
    <3>2. Len(c) = 1
      BY <1>0, <3>1
    <3>3. QED BY <1>0, <3>1, <3>2
  <2>2. /\ writer' = [writer EXCEPT !.current = IF q = <<>> THEN <<>> ELSE <<Head(q)>>,
                                    !.queue = IF q = <<>> THEN q ELSE Tail(q),
                                    !.burst = IF q = <<>> THEN 0 ELSE writer.burst]
        /\ link' = [link EXCEPT !.gap = link.gap \/ (q = <<>> /\ writer.burst > 0),
                                !.written = link.written \cup ({x} \ {l \in ToSet(c) : Droppable(l)})]
        /\ session' = session /\ lost' = lost
    BY <1>1 DEF LineWritten
  <2>3. /\ writer' = [f \in {"queue", "current", "burst", "dead"} |-> writer'[f]]
        /\ writer'.current = (IF q = <<>> THEN <<>> ELSE <<Head(q)>>)
        /\ writer'.queue = (IF q = <<>> THEN q ELSE Tail(q))
        /\ writer'.burst = (IF q = <<>> THEN 0 ELSE writer.burst)
        /\ writer'.dead = writer.dead
    BY <1>0, <2>2
  <2>4. /\ link' = [f \in {"seq", "gap", "lines", "next", "pending", "written"} |-> link'[f]]
        /\ link'.gap = (link.gap \/ (q = <<>> /\ writer.burst > 0))
        /\ link'.written = link.written \cup ({x} \ {l \in ToSet(c) : Droppable(l)})
        /\ link'.seq = link.seq /\ link'.lines = link.lines /\ link'.next = link.next
    BY <1>0, <2>2
  <2> HIDE DEF q, c
  <2>5. q # <<>> => /\ Tail(q) \in Seq(ClientLines) /\ Head(q) = q[1] /\ Head(q) \in ClientLines /\ Len(q) \in Nat
                    /\ Len(Tail(q)) = Len(q) - 1 /\ \A i \in 1 .. Len(q) - 1 : Tail(q)[i] = q[i + 1]
    BY <2>1, HeadTailProperties
  <2>6. writer'.queue \in Seq(ClientLines)
    BY <2>1, <2>3, <2>5
  <2>7. writer'.current \in Seq(ClientLines) /\ Len(writer'.current) <= 1
    <3>1. CASE q = <<>>
      BY <2>3, <3>1
    <3>2. CASE q # <<>>
      <4>1. writer'.current = <<Head(q)>> /\ Head(q) \in ClientLines
        BY <2>3, <2>5, <3>2
      <4>2. QED BY <4>1
    <3>3. QED BY <3>1, <3>2
  <2>8. writer'.burst \in Nat /\ writer'.dead \in BOOLEAN
    BY <2>3 DEF LineInv, WriterOK
  <2>9. WriterOK(writer)'
    BY <2>3, <2>6, <2>7, <2>8 DEF WriterOK
  <2>10. LinkOK'
    BY <2>2, <2>4 DEF LinkOK, LineInv
  <2>11. ASSUME NEW l \in Held(writer), ~Droppable(l) PROVE l \in link'.written \/ l \in Held(writer)'
    <3>1. (\E i \in 1 .. Len(q) : l = q[i]) \/ (\E i \in 1 .. Len(c) : l = c[i])
      BY <2>1, HeldIs DEF Held, q, c
    <3>2. CASE \E i \in 1 .. Len(c) : l = c[i]
      <4>1. l = x
        BY <2>1, <3>2
      <4>2. QED BY <2>4, <2>11, <4>1
    <3>3. CASE \E i \in 1 .. Len(q) : l = q[i]
      <4>1. PICK i \in 1 .. Len(q) : l = q[i]
        BY <3>3
      <4>2. q # <<>>
        BY <4>1
      <4>3. writer'.queue = Tail(q) /\ writer'.current = <<Head(q)>>
        BY <2>3, <4>2
      <4>4. CASE i = 1
        <5>1. 1 \in 1 .. Len(writer'.current) /\ writer'.current[1] = l
          BY <2>5, <4>1, <4>2, <4>3, <4>4
        <5>2. QED BY <2>6, <2>7, <5>1, HeldIs DEF Held
      <4>5. CASE i # 1
        <5>1. i - 1 \in 1 .. Len(q) - 1 /\ (i - 1) + 1 = i
          BY <2>5, <4>1, <4>2, <4>5
        <5>2. i - 1 \in 1 .. Len(writer'.queue) /\ writer'.queue[i - 1] = l
          BY <2>5, <4>1, <4>2, <4>3, <5>1
        <5>3. QED BY <2>6, <2>7, <5>2, HeldIs DEF Held
      <4>6. QED BY <4>4, <4>5
    <3>4. QED BY <3>1, <3>2, <3>3
  <2>12. ASSUME ~writer.dead PROVE NoneMissing(writer, link)'
    <3>1. Owed(link)' = Owed(link)
      BY <2>4 DEF Owed
    <3>2. \A l \in Owed(link) : l \in link.written \/ (l \in Held(writer) /\ ~Droppable(l))
      BY <2>12 DEF LineInv, NoneMissing, Owed, Answer, Question, Droppable
    <3>3. link.written \subseteq link'.written
      BY <2>4
    <3> HIDE DEF x
    <3>4. \A l \in Owed(link) : l \in link'.written \/ l \in Held(writer)'
      BY <2>11, <3>2, <3>3
    <3>5. QED BY <3>1, <3>4 DEF NoneMissing
  <2>13. ASSUME ~writer.dead PROVE LossTold(writer, link, lost)'
    <3>1. lost # {} => link.gap \/ writer.burst > 0
      BY <2>13 DEF LineInv, LossTold
    <3>2. CASE q = <<>>
      BY <2>2, <2>4, <3>1, <3>2 DEF LossTold
    <3>3. CASE q # <<>>
      <4>1. writer'.burst = writer.burst /\ Writing(writer')
        BY <2>3, <3>3 DEF Writing
      <4>2. link'.gap <=> link.gap
        BY <2>4, <3>3
      <4>3. QED BY <2>2, <3>1, <4>1, <4>2 DEF LossTold, Writing
    <3>4. QED BY <3>2, <3>3
  <2>14. QED BY <2>3, <2>9, <2>10, <2>12, <2>13 DEF LineInv
<1>2. CASE WriteFails
  <2>1. writer' = [writer EXCEPT !.dead = TRUE, !.queue = <<>>, !.current = <<>>]
        /\ link' = link /\ session' = session
    BY <1>2 DEF WriteFails
  <2>2. /\ writer' = [f \in {"queue", "current", "burst", "dead"} |-> writer'[f]]
        /\ writer'.queue = <<>> /\ writer'.current = <<>> /\ writer'.dead = TRUE /\ writer'.burst = writer.burst
    BY <1>0, <2>1
  <2>3. <<>> \in Seq(ClientLines) /\ Len(<<>>) <= 1
    OBVIOUS
  <2>4. writer'.burst \in Nat
    BY <2>2 DEF LineInv, WriterOK
  <2>5. WriterOK(writer)'
    BY <2>2, <2>3, <2>4 DEF WriterOK
  <2>6. LinkOK'
    BY <2>1 DEF LineInv, LinkOK
  <2>7. QED BY <2>2, <2>5, <2>6 DEF LineInv
<1>3. ASSUME NEW type \in EventTypes, OnSessionEvent(type) PROVE LineInv'
  <2> DEFINE replay == IF link.gap THEN session'.replay ELSE 0
             count == replay + Translated(type, FALSE)
             lines == Numbered(link.seq, count)
             v == QueuedAll(writer, lines)
  <2>1. session' = Stored(session, type)
    BY <1>3 DEF OnSessionEvent
  <2>2. Translated(type, TRUE) \in Nat /\ Translated(type, FALSE) \in Nat
    BY DEF Translated
  <2>3. /\ session' = [f \in {"events", "replay"} |-> session'[f]]
        /\ session'.events \in Nat /\ session'.replay \in Nat
    <3>1. session.events \in Nat /\ session.replay \in Nat
      BY DEF LineInv, LinkOK
    <3>2. /\ session' = [f \in {"events", "replay"} |-> session'[f]] /\ session'.events = session.events + 1
          /\ session'.replay = session.replay + (IF type \in {"turn_finished", "error"} THEN 0 ELSE Translated(type, TRUE))
      BY <2>1 DEF Stored
    <3> DEFINE more == IF type \in {"turn_finished", "error"} THEN 0 ELSE Translated(type, TRUE)
    <3>3. more \in Nat
      BY <2>2
    <3> HIDE DEF more
    <3>4. session.events + 1 \in Nat /\ session.replay + more \in Nat
      BY <3>1, <3>3
    <3>5. QED BY <3>2, <3>4 DEF more
  <2>4. count \in Nat /\ link.seq \in Nat
    <3>1. replay \in Nat
      BY <2>3
    <3> HIDE DEF replay
    <3>2. \A m, n \in Nat : m + n \in Nat
      OBVIOUS
    <3>3. count \in Nat
      BY <2>2, <3>1, <3>2
    <3>4. QED BY <3>3 DEF LineInv, LinkOK
  <2>5. /\ writer' = v
        /\ link' = [link EXCEPT !.gap = FALSE, !.seq = link.seq + Len(lines)]
        /\ lost' = IF writer.dead THEN lost
                   ELSE (IF link.gap THEN {} ELSE lost) \cup Dropped(writer, lines, writer')
    BY <1>3 DEF OnSessionEvent
  <2> HIDE DEF count
  <2>6. lines \in Seq(ClientLines) /\ Len(lines) = count
    BY <2>4, NumberedAreLines
  <2> HIDE DEF lines
  <2>7. /\ link' = [f \in {"seq", "gap", "lines", "next", "pending", "written"} |-> link'[f]]
        /\ link'.gap = FALSE /\ link'.seq = link.seq + Len(lines)
        /\ link'.lines = link.lines /\ link'.next = link.next /\ link'.written = link.written
    BY <1>0, <2>5
  <2>8. LinkOK'
    BY <2>3, <2>4, <2>6, <2>7 DEF LineInv, LinkOK
  <2>9. CASE writer.dead
    <3>1. writer' = writer
      BY <2>4, <2>5, <2>6, <2>9, DeadTakesNone
    <3>2. QED BY <2>8, <2>9, <3>1 DEF LineInv, WriterOK
  <2>10. CASE ~writer.dead
    <3>1. /\ WriterOK(v) /\ ~v.dead /\ v.burst >= writer.burst /\ (Writing(writer) => Writing(v))
          /\ Kept(Held(writer) \cup ToSet(lines), v)
      BY <2>6, <2>10, AllQueuedKeeps DEF LineInv
    <3>2. Dropped(writer, lines, v) # {} => v.burst > 0 /\ Writing(v)
      BY <2>6, <2>10, DroppedIsCounted DEF LineInv
    <3> HIDE DEF v
    <3>3. v.burst \in Nat /\ writer.burst \in Nat
      BY <3>1 DEF WriterOK, LineInv
    <3>4. writer.burst > 0 => v.burst > 0
      BY <3>1, <3>3
    <3>5. lost # {} => link.gap \/ (writer.burst > 0 /\ Writing(writer))
      BY <2>10 DEF LineInv, LossTold
    <3>6. lost' = (IF link.gap THEN {} ELSE lost) \cup Dropped(writer, lines, v)
      BY <2>5, <2>10
    <3>7. lost' # {} => v.burst > 0 /\ Writing(v)
      BY <3>1, <3>2, <3>4, <3>5, <3>6
    <3>8. ASSUME NEW l \in Owed(link)' PROVE l \in link'.written \cup Held(v)
      <4>1. l \in link.written \cup Held(writer)
        BY <2>7, <2>10 DEF LineInv, NoneMissing, Owed
      <4>2. ~Droppable(l)
        BY DEF Owed, Answer, Question, Droppable
      <4>3. QED BY <2>7, <3>1, <4>1, <4>2 DEF Kept
    <3>9. NoneMissing(writer, link)'
      BY <2>5, <3>8 DEF NoneMissing, Held
    <3>10. LossTold(writer, link, lost)'
      BY <2>5, <3>7 DEF LossTold, Writing
    <3>11. WriterOK(writer)'
      BY <2>5, <3>1 DEF WriterOK
    <3>12. QED BY <2>8, <3>9, <3>10, <3>11 DEF LineInv
  <2>11. QED BY <2>9, <2>10
<1>4. CASE OnErrorWhileIdle
  <2>1. writer' = writer /\ link' = link /\ lost' = lost /\ session' = Stored(session, "error")
    BY <1>4 DEF OnErrorWhileIdle
  <2>2. /\ session' = [f \in {"events", "replay"} |-> session'[f]]
        /\ session'.events = session.events + 1 /\ session'.replay = session.replay + 0
    BY <2>1 DEF Stored
  <2>3. LinkOK'
    BY <2>1, <2>2 DEF LineInv, LinkOK
  <2>4. WriterOK(writer)'
    BY <2>1 DEF LineInv, WriterOK
  <2>5. QED BY <2>1, <2>3, <2>4 DEF LineInv, NoneMissing, LossTold, Owed, Held, Writing
<1>5. CASE FeedRequest
  <2> DEFINE l == Answer(link.lines + 1)
  <2>0. link.lines \in Nat /\ link.next \in Nat
    BY DEF LineInv, LinkOK
  <2>1. Enqueues(<<l>>) /\ link' = [link EXCEPT !.lines = link.lines + 1] /\ session' = session
    BY <1>5 DEF FeedRequest
  <2>2. l \in ClientLines
    BY <2>0 DEF Answer, ClientLines
  <2>3. /\ link' = [f \in {"seq", "gap", "lines", "next", "pending", "written"} |-> link'[f]]
        /\ link'.gap = link.gap /\ link'.seq = link.seq
        /\ link'.lines = link.lines + 1 /\ link'.next = link.next /\ link'.written = link.written
    BY <1>0, <2>1
  <2>4. LinkOK'
    BY <2>0, <2>1, <2>3 DEF LineInv, LinkOK
  <2>5. Owed(link)' \subseteq Owed(link) \cup {l}
    <3>1. \A n \in 1 .. link.lines + 1 : n = link.lines + 1 \/ n \in 1 .. link.lines
      BY <2>0
    <3>2. QED BY <2>3, <3>1 DEF Owed
  <2>6. ToSet(<<l>>) = {l} /\ <<l>> \in Seq(ClientLines)
    <3> HIDE DEF l
    <3>1. QED BY <2>2 DEF ToSet
  <2> HIDE DEF l
  <2>7. /\ WriterOK(writer)'
        /\ (~writer.dead => NoneMissing(writer, link) /\ LossTold(writer, link, lost))'
    BY <2>1, <2>3, <2>5, <2>6, EnqueueKeeps
  <2>8. QED BY <2>4, <2>7 DEF LineInv
<1>6. CASE AskClient
  <2> DEFINE l == Question(link.next + 1)
  <2>0. link.lines \in Nat /\ link.next \in Nat
    BY DEF LineInv, LinkOK
  <2>1. /\ Enqueues(<<l>>) /\ session' = session
        /\ link' = [link EXCEPT !.next = link.next + 1, !.pending = link.pending \cup {link.next + 1}]
    BY <1>6 DEF AskClient
  <2>2. l \in ClientLines
    BY <2>0 DEF Question, ClientLines
  <2>3. /\ link' = [f \in {"seq", "gap", "lines", "next", "pending", "written"} |-> link'[f]]
        /\ link'.gap = link.gap /\ link'.seq = link.seq
        /\ link'.lines = link.lines /\ link'.next = link.next + 1 /\ link'.written = link.written
    BY <1>0, <2>1
  <2>4. LinkOK'
    BY <2>0, <2>1, <2>3 DEF LineInv, LinkOK
  <2>5. Owed(link)' \subseteq Owed(link) \cup {l}
    <3>1. \A n \in 1 .. link.next + 1 : n = link.next + 1 \/ n \in 1 .. link.next
      BY <2>0
    <3>2. QED BY <2>3, <3>1 DEF Owed
  <2>6. ToSet(<<l>>) = {l} /\ <<l>> \in Seq(ClientLines)
    <3> HIDE DEF l
    <3>1. QED BY <2>2 DEF ToSet
  <2> HIDE DEF l
  <2>7. /\ WriterOK(writer)'
        /\ (~writer.dead => NoneMissing(writer, link) /\ LossTold(writer, link, lost))'
    BY <2>1, <2>3, <2>5, <2>6, EnqueueKeeps
  <2>8. QED BY <2>4, <2>7 DEF LineInv
<1>7. ASSUME NEW gone, link' = [link EXCEPT !.pending = gone], UNCHANGED <<writer, session, lost>> PROVE LineInv'
  <2>1. /\ link' = [f \in {"seq", "gap", "lines", "next", "pending", "written"} |-> link'[f]]
        /\ link'.gap = link.gap /\ link'.seq = link.seq
        /\ link'.lines = link.lines /\ link'.next = link.next /\ link'.written = link.written
    BY <1>0, <1>7
  <2>2. LinkOK'
    BY <1>7, <2>1 DEF LineInv, LinkOK
  <2>3. WriterOK(writer)'
    BY <1>7 DEF LineInv, WriterOK
  <2>4. writer' = writer /\ lost' = lost
    BY <1>7
  <2>5. ASSUME ~writer.dead PROVE NoneMissing(writer, link)' /\ LossTold(writer, link, lost)'
    <3>1. NoneMissing(writer, link) /\ LossTold(writer, link, lost)
      BY <2>5 DEF LineInv
    <3>2. NoneMissing(writer, link)'
      BY <2>1, <2>4, <3>1 DEF NoneMissing, Owed, Held
    <3>3. LossTold(writer, link, lost)'
      BY <2>1, <2>4, <3>1 DEF LossTold, Writing
    <3>4. QED BY <3>2, <3>3
  <2>6. QED BY <2>2, <2>3, <2>4, <2>5 DEF LineInv
<1>8. ASSUME NEW id \in 1 .. MaxLines, FeedResponse(id) PROVE LineInv'
  BY <1>7, <1>8 DEF FeedResponse
<1>9. CASE CancelPending
  BY <1>7, <1>9 DEF CancelPending
<1>10. CASE UNCHANGED acpVars
  <2>1. writer' = writer /\ link' = link /\ session' = session /\ lost' = lost
    BY <1>10 DEF acpVars
  <2>2. QED BY <2>1 DEF LineInv, WriterOK, LinkOK, NoneMissing, LossTold, Owed, Held, Writing
<1>11. QED BY <1>1, <1>2, <1>3, <1>4, <1>5, <1>6, <1>8, <1>9, <1>10 DEF AcpNext

\* As long as the client's pipe works, nothing is lost in silence: an answer
\* or a request is written or queued, and a dropped update is still to be
\* reported or has set the gap that makes the next event replay the session
\* (connection.ts:101-136, server.ts:346-350).  For a queue of any length and
\* any number of lines and events.
THEOREM NoSilentLoss == AcpConnectionSpec => []NothingLostSilently
<1>1. AcpInit => LineInv
  <2> SUFFICES ASSUME AcpInit PROVE LineInv
    OBVIOUS
  <2>1. /\ writer = [queue |-> <<>>, current |-> <<>>, burst |-> 0, dead |-> FALSE]
        /\ link = [seq |-> 0, gap |-> FALSE, lines |-> 0, next |-> 0, pending |-> {}, written |-> {}]
        /\ session = [events |-> 0, replay |-> 0] /\ lost = {}
    BY DEF AcpInit
  <2>2. WriterOK(writer)
    BY <2>1 DEF WriterOK
  <2>3. LinkOK
    BY <2>1 DEF LinkOK
  <2>4. NoneMissing(writer, link)
    <3>1. 1 .. 0 = {}
      OBVIOUS
    <3>2. QED BY <2>1, <3>1 DEF NoneMissing, Owed
  <2>5. LossTold(writer, link, lost)
    BY <2>1 DEF LossTold
  <2>6. QED BY <2>2, <2>3, <2>4, <2>5 DEF LineInv
<1>2. LineInv => NothingLostSilently
  BY DEF LineInv, NothingLostSilently, NoneMissing, LossTold, Owed, Held
<1>3. QED BY <1>1, <1>2, LineStep, PTL DEF AcpConnectionSpec

(***************************************************************************)
(* The memory store: the map is the fold of the files, but for the writes  *)
(* that are between a file and the map.                                    *)
(***************************************************************************)
LineType == [id : Nat \ {0}, text : Texts, scope : Scopes, uses : Nat, deleted : BOOLEAN]
LiveLine == [id : Nat \ {0}, text : Texts, scope : Scopes, uses : Nat, deleted : {FALSE}]
Proposal == [text : Texts, scope : Scopes]

MapOK(m) ==
  /\ m = [i \in DOMAIN m |-> m[i]]
  /\ \A i \in DOMAIN m : m[i] \in LiveLine /\ m[i].id = i

FilesOK(fs) ==
  /\ fs = [s \in Scopes |-> fs[s]]
  /\ \A s \in Scopes : fs[s] \in Seq(LineType) /\ \A k \in 1 .. Len(fs[s]) : fs[s][k].scope = s

TaskOK(t, m, begun) ==
  /\ t = [f \in {"n", "kind", "pc", "todo", "line"} |-> t[f]]
  /\ t.n \in 1 .. begun
  /\ t.pc \in {"model", "gate", "ack", "written"}
  /\ t.kind \in {"extract", "retrieve"}
  /\ t.todo \in IF t.kind = "retrieve" THEN Seq(DOMAIN m) ELSE Seq(Proposal)
  /\ t.pc # "model" => t.line \in LiveLine

TasksOK(ts, m, begun) ==
  /\ \A t \in ts : TaskOK(t, m, begun)
  /\ \A t, u \in ts : t.n = u.n => t = u

\* The lines that are written, remembered or under way.
Known(m, fs, ts) ==
  {m[i] : i \in DOMAIN m} \cup {t.line : t \in {u \in ts : u.pc # "model"}}
    \cup UNION {{fs[s][k] : k \in 1 .. Len(fs[s])} : s \in Scopes}

\* An id stands for one text of one file, and is counted.
OneStory(lines) == \A x, y \in lines : x.id = y.id => x.text = y.text /\ x.scope = y.scope
Counted(lines, c) == \A x \in lines : x.id <= c

\* x is what the files say last of its id.
IsLastLine(fs, x) ==
  \E k \in 1 .. Len(fs[x.scope]) :
    fs[x.scope][k] = x /\ \A j \in k + 1 .. Len(fs[x.scope]) : fs[x.scope][j].id # x.id

Pending(ts) == {t \in ts : t.pc = "written"}
NonePending(ts, id) == \A t \in Pending(ts) : t.line.id # id

\* The appends, in their order, whose continuation has not run.
WrittenOK(ts, w) ==
  /\ w \in Seq(Nat)
  /\ \A k \in 1 .. Len(w) : \E t \in Pending(ts) : t.n = w[k]
  /\ \A t \in Pending(ts) : \E k \in 1 .. Len(w) : w[k] = t.n
  /\ \A k, l \in 1 .. Len(w) : w[k] = w[l] => k = l

\* No append of the same id came later.
IsNewest(t, ts, w) ==
  \A u \in Pending(ts), k, l \in 1 .. Len(w) :
    w[k] = t.n /\ w[l] = u.n /\ u.line.id = t.line.id => l <= k

FoldOK(m, fs, ts, w) ==
  /\ \A i \in DOMAIN m : NonePending(ts, i) => IsLastLine(fs, m[i])
  /\ \A x \in LineType : IsLastLine(fs, x) /\ ~x.deleted /\ NonePending(ts, x.id) => x.id \in DOMAIN m
  /\ \A t \in Pending(ts) : IsNewest(t, ts, w) => IsLastLine(fs, t.line)

MemInv(m, c, b, fs, ts, w) ==
  /\ MapOK(m) /\ c \in Nat /\ b \in Nat
  /\ FilesOK(fs) /\ TasksOK(ts, m, b) /\ WrittenOK(ts, w)
  /\ OneStory(Known(m, fs, ts)) /\ Counted(Known(m, fs, ts), c)
  /\ FoldOK(m, fs, ts, w)

StoreInv ==
  /\ store = [f \in {"map", "counter", "opens", "begun"} |-> store[f]]
  /\ MemInv(store.map, store.counter, store.begun, files, tasks, written)

\* The files say one thing last of an id.
LEMMA LastIsOne ==
  ASSUME NEW fs, FilesOK(fs), NEW x, NEW y, IsLastLine(fs, x), IsLastLine(fs, y),
         x.id = y.id, x.scope = y.scope, x.scope \in Scopes
  PROVE x = y
<1> DEFINE f == fs[x.scope]
<1>1. PICK k \in 1 .. Len(f) : f[k] = x /\ \A j \in k + 1 .. Len(f) : f[j].id # x.id
  BY DEF IsLastLine
<1>2. PICK l \in 1 .. Len(f) : f[l] = y /\ \A j \in l + 1 .. Len(f) : f[j].id # y.id
  BY DEF IsLastLine
<1>3. ~(k < l) /\ ~(l < k)
  BY <1>1, <1>2
<1>4. QED BY <1>1, <1>2, <1>3

\* A task that has written nothing that is not in the map can go.
LEMMA TaskGoes ==
  ASSUME NEW m, NEW c, NEW b, NEW fs, NEW ts, NEW w, MemInv(m, c, b, fs, ts, w),
         NEW t \in ts, t.pc # "written"
  PROVE MemInv(m, c, b, fs, ts \ {t}, w)
<1> DEFINE us == ts \ {t}
<1>1. Pending(us) = Pending(ts)
  BY DEF Pending
<1>2. Known(m, fs, us) \subseteq Known(m, fs, ts)
  BY DEF Known
<1>3. TasksOK(us, m, b)
  BY DEF MemInv, TasksOK
<1> HIDE DEF us
<1>4. WrittenOK(us, w)
  BY <1>1 DEF MemInv, WrittenOK
<1>5. OneStory(Known(m, fs, us)) /\ Counted(Known(m, fs, us), c)
  BY <1>2 DEF MemInv, OneStory, Counted
<1>6. \A i : NonePending(us, i) <=> NonePending(ts, i)
  BY <1>1 DEF NonePending
<1>7. \A u : IsNewest(u, us, w) <=> IsNewest(u, ts, w)
  BY <1>1 DEF IsNewest
<1>8. FoldOK(m, fs, us, w)
  BY <1>1, <1>6, <1>7 DEF MemInv, FoldOK
<1>9. QED BY <1>3, <1>4, <1>5, <1>8 DEF MemInv, us

\* What is known is lines.
LEMMA KnownAreLines ==
  ASSUME NEW m, NEW fs, NEW ts, NEW b, MapOK(m), FilesOK(fs), TasksOK(ts, m, b)
  PROVE Known(m, fs, ts) \subseteq LineType
<1> SUFFICES ASSUME NEW x \in Known(m, fs, ts) PROVE x \in LineType
  OBVIOUS
<1>1. LiveLine \subseteq LineType
  BY DEF LiveLine, LineType
<1>2. CASE x \in {m[i] : i \in DOMAIN m}
  BY <1>1, <1>2 DEF MapOK
<1>3. CASE x \in {t.line : t \in {u \in ts : u.pc # "model"}}
  BY <1>1, <1>3 DEF TasksOK, TaskOK
<1>4. CASE x \in UNION {{fs[s][k] : k \in 1 .. Len(fs[s])} : s \in Scopes}
  <2>1. PICK s \in Scopes : \E k \in 1 .. Len(fs[s]) : x = fs[s][k]
    BY <1>4
  <2>2. fs[s] \in Seq(LineType)
    BY DEF FilesOK
  <2>3. QED BY <2>1, <2>2
<1>5. QED BY <1>2, <1>3, <1>4 DEF Known

\* A task that is new, or goes on, with a line that fits what is known.
LEMMA TaskComes ==
  ASSUME NEW m, NEW c, NEW b, NEW fs, NEW ts, NEW w, MemInv(m, c, b, fs, ts, w),
         NEW t, TaskOK(t, m, b), t.pc # "written", \A u \in ts : u.n # t.n,
         NEW d \in Nat, c <= d,
         t.pc # "model" => /\ t.line.id <= d
                           /\ \A x \in Known(m, fs, ts) : x.id = t.line.id =>
                                x.text = t.line.text /\ x.scope = t.line.scope
  PROVE MemInv(m, d, b, fs, ts \cup {t}, w)
<1> DEFINE us == ts \cup {t}
           K == Known(m, fs, ts)
<1>1. Pending(us) = Pending(ts)
  BY DEF Pending
<1>2. Known(m, fs, us) = K \cup {u.line : u \in {v \in {t} : v.pc # "model"}}
  BY DEF Known
<1>3. TasksOK(us, m, b)
  BY DEF MemInv, TasksOK
<1> HIDE DEF us
<1>4. WrittenOK(us, w)
  BY <1>1 DEF MemInv, WrittenOK
<1>5. OneStory(Known(m, fs, us))
  <2> SUFFICES ASSUME NEW x \in Known(m, fs, us), NEW y \in Known(m, fs, us), x.id = y.id
               PROVE x.text = y.text /\ x.scope = y.scope
    BY DEF OneStory
  <2>1. OneStory(K)
    BY DEF MemInv
  <2> HIDE DEF K
  <2>2. x \in K \/ (x = t.line /\ t.pc # "model")
    BY <1>2
  <2>3. y \in K \/ (y = t.line /\ t.pc # "model")
    BY <1>2
  <2>4. \A z \in K : t.pc # "model" /\ z.id = t.line.id => z.text = t.line.text /\ z.scope = t.line.scope
    BY DEF K
  <2>5. QED BY <2>1, <2>2, <2>3, <2>4 DEF OneStory
<1>6. Counted(Known(m, fs, us), d)
  <2> SUFFICES ASSUME NEW x \in Known(m, fs, us) PROVE x.id <= d
    BY DEF Counted
  <2>1. CASE x \in K
    <3>1. x.id <= c /\ c \in Nat
      BY <2>1 DEF MemInv, Counted
    <3>2. x.id \in Nat
      BY <2>1, KnownAreLines DEF MemInv, K, LineType
    <3>3. QED BY <3>1, <3>2
  <2>2. CASE x = t.line /\ t.pc # "model"
    BY <2>2
  <2>3. QED BY <1>2, <2>1, <2>2
<1>7. \A i : NonePending(us, i) <=> NonePending(ts, i)
  BY <1>1 DEF NonePending
<1>8. \A u : IsNewest(u, us, w) <=> IsNewest(u, ts, w)
  BY <1>1 DEF IsNewest
<1>9. FoldOK(m, fs, us, w)
  BY <1>1, <1>7, <1>8 DEF MemInv, FoldOK
<1>10. QED BY <1>3, <1>4, <1>5, <1>6, <1>9 DEF MemInv, us

\* A touched or a new memory fits what is known.
LEMMA LineFits ==
  ASSUME NEW m, NEW c, NEW b, NEW fs, NEW ts, NEW w, MemInv(m, c, b, fs, ts, w),
         NEW kind, NEW item \in IF kind = "retrieve" THEN DOMAIN m ELSE Proposal,
         NEW line \in LineOf(kind, item, m, c)
  PROVE /\ line \in LiveLine
        /\ \A x \in Known(m, fs, ts) : x.id = line.id => x.text = line.text /\ x.scope = line.scope
<1>1. /\ c \in Nat /\ OneStory(Known(m, fs, ts)) /\ Counted(Known(m, fs, ts), c)
      /\ \A i \in DOMAIN m : m[i] \in LiveLine /\ m[i] \in Known(m, fs, ts)
  BY DEF MemInv, MapOK, Known
<1>2. ASSUME NEW i \in DOMAIN m, line = Touched(m, i)
      PROVE /\ line \in LiveLine
            /\ \A x \in Known(m, fs, ts) : x.id = line.id => x.text = line.text /\ x.scope = line.scope
  <2> DEFINE old == m[i]
  <2>1. line = [old EXCEPT !.uses = @ + 1] /\ old \in LiveLine /\ old \in Known(m, fs, ts)
    BY <1>1, <1>2 DEF Touched
  <2> HIDE DEF old
  <2>2. line \in LiveLine /\ line.id = old.id /\ line.text = old.text /\ line.scope = old.scope
    <3> DEFINE n == old.uses + 1
    <3>1. n \in Nat /\ line = [old EXCEPT !.uses = n]
      BY <2>1 DEF LiveLine
    <3> HIDE DEF n
    <3>2. QED BY <2>1, <3>1 DEF LiveLine
  <2>3. QED BY <1>1, <2>1, <2>2 DEF OneStory
<1>3. CASE kind = "retrieve"
  BY <1>2, <1>3 DEF LineOf
<1>4. CASE kind # "retrieve" /\ line = Line(NewId(c), item.text, item.scope, 0, FALSE)
  <2>1. item \in Proposal
    BY <1>4
  <2>2. line \in LiveLine /\ line.id = c + 1
    BY <1>1, <1>4, <2>1 DEF Line, NewId, LiveLine, Proposal
  <2>3. ASSUME NEW x \in Known(m, fs, ts) PROVE x.id # c + 1
    BY <1>1 DEF Counted
  <2>4. QED BY <2>2, <2>3
<1>5. CASE kind # "retrieve" /\ \E i \in DOMAIN m : line = Touched(m, i)
  BY <1>2, <1>5
<1>6. QED BY <1>3, <1>4, <1>5 DEF LineOf

\* A task goes on with its next item, or is done.
LEMMA TaskGoesOn ==
  ASSUME store = [f \in {"map", "counter", "opens", "begun"} |-> store[f]],
         NEW m, NEW fs, NEW w, NEW t, MemInv(m, store.counter, store.begun, fs, Others(t), w),
         t = [f \in {"n", "kind", "pc", "todo", "line"} |-> t[f]],
         t.n \in 1 .. store.begun, t.kind \in {"extract", "retrieve"},
         \A u \in Others(t) : u.n # t.n,
         NEW todo \in IF t.kind = "retrieve" THEN Seq(DOMAIN m) ELSE Seq(Proposal),
         GoesOn(t, todo, m)
  PROVE /\ store' = [f \in {"map", "counter", "opens", "begun"} |-> store'[f]]
        /\ MemInv(store'.map, store'.counter, store'.begun, fs, tasks', w)
<1> DEFINE c == store.counter
           Items == IF t.kind = "retrieve" THEN DOMAIN m ELSE Proposal
<1>0. todo \in Seq(Items)
  OBVIOUS
<1>1. CASE todo = <<>>
  <2>1. tasks' = Others(t) /\ store' = [store EXCEPT !.map = m]
    BY <1>1 DEF GoesOn
  <2>2. /\ store' = [f \in {"map", "counter", "opens", "begun"} |-> store'[f]]
        /\ store'.map = m /\ store'.counter = store.counter /\ store'.begun = store.begun
    BY <2>1
  <2>3. QED BY <2>1, <2>2
<1>2. CASE todo # <<>>
  <2>1. PICK line \in LineOf(t.kind, Head(todo), m, c) :
          /\ tasks' = Others(t) \cup {[t EXCEPT !.pc = "gate", !.todo = Tail(todo), !.line = line]}
          /\ store' = [store EXCEPT !.map = m, !.counter = IF line.id > @ THEN line.id ELSE @]
    BY <1>2 DEF GoesOn
  <2> DEFINE d == IF line.id > c THEN line.id ELSE c
             u == [t EXCEPT !.pc = "gate", !.todo = Tail(todo), !.line = line]
  <2>2. /\ store' = [f \in {"map", "counter", "opens", "begun"} |-> store'[f]]
        /\ store'.map = m /\ store'.counter = d /\ store'.begun = store.begun
    BY <2>1
  <2>3. Head(todo) \in Items /\ Tail(todo) \in Seq(Items)
    <3> HIDE DEF Items
    <3>1. QED BY <1>0, <1>2
  <2>4. /\ line \in LiveLine
        /\ \A x \in Known(m, fs, Others(t)) : x.id = line.id => x.text = line.text /\ x.scope = line.scope
    BY <2>3, LineFits
  <2>5. line.id \in Nat /\ c \in Nat
    BY <2>4 DEF LiveLine, MemInv
  <2>6. d \in Nat /\ c <= d /\ line.id <= d
    BY <2>5
  <2> HIDE DEF d
  <2>7. /\ u = [f \in {"n", "kind", "pc", "todo", "line"} |-> u[f]]
        /\ u.n = t.n /\ u.kind = t.kind /\ u.pc = "gate" /\ u.todo = Tail(todo) /\ u.line = line
    OBVIOUS
  <2> HIDE DEF u
  <2>8. TaskOK(u, m, store.begun)
    BY <2>3, <2>4, <2>7 DEF TaskOK
  <2>9. MemInv(m, d, store.begun, fs, Others(t) \cup {u}, w)
    BY <2>4, <2>6, <2>7, <2>8, TaskComes
  <2>10. tasks' = Others(t) \cup {u}
    BY <2>1 DEF u
  <2>11. QED BY <2>2, <2>9, <2>10
<1>3. QED BY <1>1, <1>2

Appended(fs, gs, line) == gs = [fs EXCEPT ![line.scope] = Append(@, line)]

\* A line is appended: it is what its file says last of its id, and nothing else changes.
LEMMA LineAppended ==
  ASSUME NEW fs, FilesOK(fs), NEW line \in LineType, NEW gs, Appended(fs, gs, line)
  PROVE /\ FilesOK(gs) /\ IsLastLine(gs, line)
        /\ \A x : x.scope \in Scopes /\ x.id # line.id => (IsLastLine(gs, x) <=> IsLastLine(fs, x))
        /\ \A s \in Scopes : \A k \in 1 .. Len(gs[s]) :
             gs[s][k] = line \/ (k \in 1 .. Len(fs[s]) /\ gs[s][k] = fs[s][k])
        /\ \A s \in Scopes : \A k \in 1 .. Len(fs[s]) : k \in 1 .. Len(gs[s]) /\ gs[s][k] = fs[s][k]
<1> DEFINE z == line.scope
           f == fs[z]
           g == gs[z]
<1>1. z \in Scopes /\ f \in Seq(LineType) /\ gs = [s \in Scopes |-> gs[s]]
      /\ g = Append(f, line) /\ \A s \in Scopes \ {z} : gs[s] = fs[s]
  BY DEF FilesOK, LineType, Appended
<1>2. /\ Len(f) \in Nat /\ g \in Seq(LineType) /\ Len(g) = Len(f) + 1 /\ g[Len(f) + 1] = line
      /\ \A k \in 1 .. Len(f) : g[k] = f[k]
  <2> HIDE DEF f, g
  <2>1. QED BY <1>1
<1>3. FilesOK(gs)
  <2>1. \A k \in 1 .. Len(g) : g[k].scope = z
    BY <1>1, <1>2 DEF FilesOK
  <2>2. QED BY <1>1, <1>2, <2>1 DEF FilesOK
<1>4. IsLastLine(gs, line)
  BY <1>1, <1>2 DEF IsLastLine
<1>5. ASSUME NEW x, x.scope \in Scopes, x.id # line.id PROVE IsLastLine(gs, x) <=> IsLastLine(fs, x)
  <2>1. CASE x.scope # z
    BY <1>1, <1>5, <2>1 DEF IsLastLine
  <2>2. CASE x.scope = z
    <3> HIDE DEF f, g
    <3>1. IsLastLine(gs, x) <=> \E k \in 1 .. Len(g) : g[k] = x /\ \A j \in k + 1 .. Len(g) : g[j].id # x.id
      BY <2>2 DEF IsLastLine, g
    <3>2. IsLastLine(fs, x) <=> \E k \in 1 .. Len(f) : f[k] = x /\ \A j \in k + 1 .. Len(f) : f[j].id # x.id
      BY <2>2 DEF IsLastLine, f
    <3>3. QED BY <1>2, <1>5, <3>1, <3>2
  <2>3. QED BY <2>1, <2>2
<1>6. \A s \in Scopes : \A k \in 1 .. Len(gs[s]) :
        gs[s][k] = line \/ (k \in 1 .. Len(fs[s]) /\ gs[s][k] = fs[s][k])
  BY <1>1, <1>2
<1>7. \A s \in Scopes : \A k \in 1 .. Len(fs[s]) : k \in 1 .. Len(gs[s]) /\ gs[s][k] = fs[s][k]
  BY <1>1, <1>2
<1>8. QED BY <1>3, <1>4, <1>5, <1>6, <1>7

\* A line is in its file, and not yet in the map.
LEMMA AppendKeeps ==
  ASSUME NEW m, NEW c, NEW b, NEW fs, NEW ts, NEW w, MemInv(m, c, b, fs, ts, w),
         NEW t \in ts, t.pc = "ack", NEW u, u = [t EXCEPT !.pc = "written"],
         NEW gs, Appended(fs, gs, t.line)
  PROVE MemInv(m, c, b, gs, (ts \ {t}) \cup {u}, Append(w, t.n))
<1> DEFINE us == (ts \ {t}) \cup {u}
           v == Append(w, t.n)
<1>1. /\ MapOK(m) /\ c \in Nat /\ b \in Nat /\ FilesOK(fs) /\ TasksOK(ts, m, b) /\ WrittenOK(ts, w)
      /\ OneStory(Known(m, fs, ts)) /\ Counted(Known(m, fs, ts), c) /\ FoldOK(m, fs, ts, w)
  BY DEF MemInv
<1>2. TaskOK(t, m, b) /\ t.line \in LiveLine /\ t.line \in LineType /\ t.n \in Nat
  <2>1. TaskOK(t, m, b)
    BY <1>1 DEF TasksOK
  <2>2. LiveLine \subseteq LineType
    BY DEF LiveLine, LineType
  <2>3. QED BY <1>1, <2>1, <2>2 DEF TaskOK
<1>3. /\ u = [f \in {"n", "kind", "pc", "todo", "line"} |-> u[f]]
      /\ u.n = t.n /\ u.kind = t.kind /\ u.pc = "written" /\ u.todo = t.todo /\ u.line = t.line
  BY <1>2 DEF TaskOK
<1>4. /\ FilesOK(gs) /\ IsLastLine(gs, t.line)
      /\ \A x : x.scope \in Scopes /\ x.id # t.line.id => (IsLastLine(gs, x) <=> IsLastLine(fs, x))
      /\ \A s \in Scopes : \A k \in 1 .. Len(gs[s]) :
           gs[s][k] = t.line \/ (k \in 1 .. Len(fs[s]) /\ gs[s][k] = fs[s][k])
  <2> DEFINE line == t.line
  <2>1. line \in LineType /\ Appended(fs, gs, line)
    BY <1>2
  <2> HIDE DEF line
  <2>2. /\ FilesOK(gs) /\ IsLastLine(gs, line)
        /\ \A x : x.scope \in Scopes /\ x.id # line.id => (IsLastLine(gs, x) <=> IsLastLine(fs, x))
        /\ \A s \in Scopes : \A k \in 1 .. Len(gs[s]) :
             gs[s][k] = line \/ (k \in 1 .. Len(fs[s]) /\ gs[s][k] = fs[s][k])
    <3>1. FilesOK(fs)
      BY <1>1
    <3>2. QED BY <2>1, <3>1, LineAppended
  <2>3. QED BY <2>2 DEF line
<1>5. TasksOK(us, m, b)
  <2>1. TaskOK(u, m, b)
    BY <1>2, <1>3 DEF TaskOK
  <2>2. \A q \in us : TaskOK(q, m, b)
    BY <1>1, <2>1 DEF TasksOK
  <2>3. ASSUME NEW q \in us, NEW r \in us, q.n = r.n PROVE q = r
    <3>1. (q \in ts /\ q # t) \/ q = u
      OBVIOUS
    <3>2. (r \in ts /\ r # t) \/ r = u
      OBVIOUS
    <3>3. \A p \in ts : p.n = t.n => p = t
      BY <1>1 DEF TasksOK
    <3>4. \A p, s \in ts : p.n = s.n => p = s
      BY <1>1 DEF TasksOK
    <3>5. u.n = t.n
      BY <1>3
    <3> HIDE DEF us
    <3>6. QED BY <2>3, <3>1, <3>2, <3>3, <3>4, <3>5
  <2>4. QED BY <2>2, <2>3 DEF TasksOK
<1>6. Known(m, gs, us) \subseteq Known(m, fs, ts)
  <2>1. t.line \in Known(m, fs, ts)
    BY DEF Known
  <2> SUFFICES ASSUME NEW x \in Known(m, gs, us) PROVE x \in Known(m, fs, ts)
    OBVIOUS
  <2>2. CASE x \in {m[i] : i \in DOMAIN m}
    BY <2>2 DEF Known
  <2>3. CASE x \in {r.line : r \in {q \in us : q.pc # "model"}}
    BY <1>3, <2>1, <2>3 DEF Known
  <2>4. CASE x \in UNION {{gs[s][k] : k \in 1 .. Len(gs[s])} : s \in Scopes}
    <3>1. PICK s \in Scopes : \E k \in 1 .. Len(gs[s]) : x = gs[s][k]
      BY <2>4
    <3>2. x = t.line \/ \E k \in 1 .. Len(fs[s]) : x = fs[s][k]
      BY <1>4, <3>1
    <3>3. QED BY <2>1, <3>2 DEF Known
  <2>5. QED BY <2>2, <2>3, <2>4 DEF Known
<1>7. OneStory(Known(m, gs, us)) /\ Counted(Known(m, gs, us), c)
  BY <1>1, <1>6 DEF OneStory, Counted
<1>8. Pending(us) = Pending(ts) \cup {u} /\ t \notin Pending(ts)
  BY <1>3 DEF Pending
<1>9. /\ w \in Seq(Nat) /\ Len(w) \in Nat /\ v \in Seq(Nat) /\ Len(v) = Len(w) + 1 /\ v[Len(w) + 1] = t.n
      /\ \A k \in 1 .. Len(w) : v[k] = w[k] /\ w[k] # t.n
  <2>1. w \in Seq(Nat) /\ \A k \in 1 .. Len(w) : \E q \in Pending(ts) : q.n = w[k]
    BY <1>1 DEF WrittenOK
  <2>2. \A q \in Pending(ts) : q.n # t.n
    BY <1>1, <1>8 DEF TasksOK, Pending
  <2>3. QED BY <1>2, <2>1, <2>2
<1> HIDE DEF v, us
<1>e. Len(w) + 1 \in 1 .. Len(v)
  BY <1>9
<1>10. WrittenOK(us, v)
  <2>1. \A k \in 1 .. Len(v) : \E q \in Pending(us) : q.n = v[k]
    <3> SUFFICES ASSUME NEW k \in 1 .. Len(v) PROVE \E q \in Pending(us) : q.n = v[k]
      OBVIOUS
    <3>1. CASE k = Len(w) + 1
      BY <1>3, <1>8, <1>9, <3>1
    <3>2. CASE k \in 1 .. Len(w)
      BY <1>1, <1>8, <1>9, <3>2 DEF WrittenOK
    <3>3. QED BY <1>9, <3>1, <3>2
  <2>2. \A q \in Pending(us) : \E k \in 1 .. Len(v) : v[k] = q.n
    <3> SUFFICES ASSUME NEW q \in Pending(us) PROVE \E k \in 1 .. Len(v) : v[k] = q.n
      OBVIOUS
    <3>1. CASE q = u
      <4>1. v[Len(w) + 1] = q.n
        BY <1>3, <1>9, <3>1
      <4>2. QED BY <1>e, <4>1
    <3>2. CASE q \in Pending(ts)
      <4>1. PICK k \in 1 .. Len(w) : w[k] = q.n
        BY <1>1, <3>2 DEF WrittenOK
      <4>2. k \in 1 .. Len(v) /\ v[k] = q.n
        BY <1>9, <4>1
      <4>3. QED BY <4>2
    <3>3. QED BY <1>8, <3>1, <3>2
  <2>3. ASSUME NEW k \in 1 .. Len(v), NEW l \in 1 .. Len(v), v[k] = v[l] PROVE k = l
    <3>1. (k \in 1 .. Len(w) /\ v[k] = w[k] /\ w[k] # t.n) \/ (k = Len(w) + 1 /\ v[k] = t.n)
      BY <1>9
    <3>2. (l \in 1 .. Len(w) /\ v[l] = w[l] /\ w[l] # t.n) \/ (l = Len(w) + 1 /\ v[l] = t.n)
      BY <1>9
    <3>3. \A i, j \in 1 .. Len(w) : w[i] = w[j] => i = j
      BY <1>1 DEF WrittenOK
    <3>4. QED BY <2>3, <3>1, <3>2, <3>3
  <2>4. QED BY <1>9, <2>1, <2>2, <2>3 DEF WrittenOK
<1>11. \A i : NonePending(us, i) <=> NonePending(ts, i) /\ i # t.line.id
  BY <1>3, <1>8 DEF NonePending
<1>12. FoldOK(m, gs, us, v)
  <2>1. ASSUME NEW i \in DOMAIN m, NonePending(us, i) PROVE IsLastLine(gs, m[i])
    <3>1. IsLastLine(fs, m[i]) /\ i # t.line.id
      BY <1>1, <1>11, <2>1 DEF FoldOK
    <3>2. m[i].id = i /\ m[i].scope \in Scopes
      BY <1>1 DEF MapOK, LiveLine
    <3>3. QED BY <1>4, <3>1, <3>2
  <2>2. ASSUME NEW x \in LineType, IsLastLine(gs, x), ~x.deleted, NonePending(us, x.id) PROVE x.id \in DOMAIN m
    <3>1. NonePending(ts, x.id) /\ x.id # t.line.id
      BY <1>11, <2>2
    <3>2. x.scope \in Scopes
      BY DEF LineType
    <3>3. IsLastLine(fs, x)
      BY <1>4, <2>2, <3>1, <3>2
    <3>4. QED BY <1>1, <2>2, <3>1, <3>3 DEF FoldOK
  <2>3. ASSUME NEW q \in Pending(us), IsNewest(q, us, v) PROVE IsLastLine(gs, q.line)
    <3>1. CASE q = u
      BY <1>3, <1>4, <3>1
    <3>2. CASE q \in Pending(ts)
      <4>1. PICK k \in 1 .. Len(w) : w[k] = q.n
        BY <1>1, <3>2 DEF WrittenOK
      <4>2. q.line.id # t.line.id
        <5>1. k \in 1 .. Len(v) /\ v[k] = q.n
          BY <1>9, <4>1
        <5>4. v[Len(w) + 1] = u.n /\ u \in Pending(us)
          BY <1>3, <1>8, <1>9
        <5>2. u.line.id = q.line.id => Len(w) + 1 <= k
          BY <1>e, <2>3, <5>1, <5>4 DEF IsNewest
        <5>3. QED BY <1>3, <1>9, <4>1, <5>2
      <4>3. IsNewest(q, ts, w)
        <5> SUFFICES ASSUME NEW r \in Pending(ts), NEW i \in 1 .. Len(w), NEW j \in 1 .. Len(w),
                            w[i] = q.n, w[j] = r.n, r.line.id = q.line.id
                     PROVE j <= i
          BY DEF IsNewest
        <5>1. i \in 1 .. Len(v) /\ j \in 1 .. Len(v) /\ v[i] = q.n /\ v[j] = r.n /\ r \in Pending(us)
          BY <1>8, <1>9
        <5>2. QED BY <2>3, <5>1 DEF IsNewest
      <4>4. IsLastLine(fs, q.line)
        BY <1>1, <3>2, <4>3 DEF FoldOK
      <4>5. q.line.scope \in Scopes
        BY <1>1, <3>2 DEF TasksOK, TaskOK, Pending, LiveLine
      <4>6. QED BY <1>4, <4>2, <4>4, <4>5
    <3>3. QED BY <1>8, <3>1, <3>2
  <2>4. QED BY <2>1, <2>2, <2>3 DEF FoldOK
<1>13. QED BY <1>1, <1>4, <1>5, <1>7, <1>10, <1>12 DEF MemInv, us, v

\* The continuation after the oldest append: the map says what its line says.
LEMMA RememberKeeps ==
  ASSUME NEW m, NEW c, NEW b, NEW fs, NEW ts, NEW w, MemInv(m, c, b, fs, ts, w),
         NEW t \in ts, w # <<>>, t.n = Head(w),
         NEW o, o = [i \in DOMAIN m \cup {t.line.id} |-> IF i = t.line.id THEN t.line ELSE m[i]]
  PROVE t.pc = "written" /\ MemInv(o, c, b, fs, ts \ {t}, Tail(w))
<1> DEFINE us == ts \ {t}
           v == Tail(w)
<1>1. /\ MapOK(m) /\ c \in Nat /\ b \in Nat /\ FilesOK(fs) /\ TasksOK(ts, m, b) /\ WrittenOK(ts, w)
      /\ OneStory(Known(m, fs, ts)) /\ Counted(Known(m, fs, ts), c) /\ FoldOK(m, fs, ts, w)
  BY DEF MemInv
<1>2. /\ w \in Seq(Nat) /\ Len(w) \in Nat /\ Len(w) > 0 /\ w[1] = t.n
      /\ v \in Seq(Nat) /\ Len(v) = Len(w) - 1 /\ \A k \in 1 .. Len(v) : v[k] = w[k + 1]
  <2>1. w \in Seq(Nat)
    BY <1>1 DEF WrittenOK
  <2>2. QED BY <2>1
<1>3. t \in Pending(ts) /\ t.pc = "written" /\ TaskOK(t, m, b) /\ t.line \in LiveLine
  <2>1. PICK q \in Pending(ts) : q.n = t.n
    BY <1>1, <1>2 DEF WrittenOK
  <2>2. q = t
    BY <1>1, <2>1 DEF TasksOK, Pending
  <2>3. QED BY <1>1, <2>1, <2>2 DEF TasksOK, TaskOK, Pending
<1>4. MapOK(o) /\ DOMAIN m \subseteq DOMAIN o
  BY <1>1, <1>3 DEF MapOK
<1>5. TasksOK(us, o, b)
  <2>1. ASSUME NEW q \in us PROVE TaskOK(q, o, b)
    <3>1. TaskOK(q, m, b)
      BY <1>1 DEF TasksOK
    <3>2. Seq(DOMAIN m) \subseteq Seq(DOMAIN o)
      BY <1>4
    <3>3. QED BY <3>1, <3>2 DEF TaskOK
  <2>2. QED BY <1>1, <2>1 DEF TasksOK
<1>6. Known(o, fs, us) \subseteq Known(m, fs, ts)
  BY <1>3 DEF Known
<1>7. OneStory(Known(o, fs, us)) /\ Counted(Known(o, fs, us), c)
  BY <1>1, <1>6 DEF OneStory, Counted
<1>8. Pending(us) = Pending(ts) \ {t} /\ \A q \in Pending(us) : q.n # t.n
  BY <1>1 DEF Pending, TasksOK
<1> HIDE DEF us, v
<1>f. 1 \in 1 .. Len(w) /\ \A k \in 1 .. Len(w) : w[k] = t.n => k = 1
  <2>1. 1 \in 1 .. Len(w)
    BY <1>2
  <2>2. \A i, j \in 1 .. Len(w) : w[i] = w[j] => i = j
    BY <1>1 DEF WrittenOK
  <2>3. QED BY <1>2, <2>1, <2>2
<1>9. WrittenOK(us, v)
  <2>1. ASSUME NEW k \in 1 .. Len(v) PROVE \E q \in Pending(us) : q.n = v[k]
    <3>1. k + 1 \in 1 .. Len(w) /\ k + 1 # 1
      <4>1. Len(w) \in Nat /\ Len(v) = Len(w) - 1
        BY <1>2
      <4> DEFINE n == Len(w)
      <4>2. n \in Nat /\ k \in 1 .. n - 1
        BY <4>1
      <4> HIDE DEF n
      <4>3. k + 1 \in 1 .. n /\ k + 1 # 1
        BY <4>2
      <4>4. QED BY <4>3 DEF n
    <3>5. v[k] = w[k + 1]
      BY <1>2
    <3>2. PICK q \in Pending(ts) : q.n = w[k + 1]
      BY <1>1, <3>1 DEF WrittenOK
    <3>3. q # t
      <4>1. w[k + 1] # t.n
        BY <1>f, <3>1
      <4>2. QED BY <3>2, <4>1
    <3>4. QED BY <1>8, <3>2, <3>3, <3>5
  <2>2. ASSUME NEW q \in Pending(us) PROVE \E k \in 1 .. Len(v) : v[k] = q.n
    <3>1. PICK k \in 1 .. Len(w) : w[k] = q.n
      BY <1>1, <1>8 DEF WrittenOK
    <3>2. k # 1
      BY <1>2, <1>8, <3>1
    <3>3. k - 1 \in 1 .. Len(v) /\ v[k - 1] = w[k - 1 + 1] /\ k - 1 + 1 = k
      BY <1>2, <3>2
    <3>4. QED BY <3>1, <3>3
  <2>3. ASSUME NEW k \in 1 .. Len(v), NEW l \in 1 .. Len(v), v[k] = v[l] PROVE k = l
    <3>4. k + 1 \in 1 .. Len(w) /\ l + 1 \in 1 .. Len(w)
      <4>1. Len(v) = Len(w) - 1 /\ Len(w) \in Nat
        BY <1>2
      <4> DEFINE n == Len(w)
                 e == Len(v)
      <4>2. k \in 1 .. e /\ l \in 1 .. e /\ e = n - 1 /\ n \in Nat
        BY <2>3, <4>1
      <4> HIDE DEF n, e
      <4>3. k + 1 \in 1 .. n /\ l + 1 \in 1 .. n
        BY <4>2
      <4>4. QED BY <4>3 DEF n
    <3>5. v[k] = w[k + 1] /\ v[l] = w[l + 1]
      BY <1>2, <2>3
    <3>1. k + 1 \in 1 .. Len(w) /\ l + 1 \in 1 .. Len(w) /\ w[k + 1] = w[l + 1]
      BY <2>3, <3>4, <3>5
    <3>2. k + 1 = l + 1
      BY <1>1, <3>1 DEF WrittenOK
    <3>3. QED BY <3>2
  <2>4. QED BY <1>2, <2>1, <2>2, <2>3 DEF WrittenOK
<1>10. \A i : i # t.line.id => (NonePending(us, i) <=> NonePending(ts, i))
  BY <1>8 DEF NonePending
<1>11. FoldOK(o, fs, us, v)
  <2>1. ASSUME NEW i \in DOMAIN o, NonePending(us, i) PROVE IsLastLine(fs, o[i])
    <3>1. CASE i = t.line.id
      <4>1. IsNewest(t, ts, w)
        <5> SUFFICES ASSUME NEW r \in Pending(ts), NEW k \in 1 .. Len(w), NEW j \in 1 .. Len(w),
                            w[k] = t.n, w[j] = r.n, r.line.id = t.line.id
                     PROVE j <= k
          BY DEF IsNewest
        <5>1. r = t
          BY <1>8, <2>1, <3>1 DEF NonePending
        <5>2. j = k
          BY <1>1, <5>1 DEF WrittenOK
        <5>3. QED BY <5>2
      <4>2. QED BY <1>1, <1>3, <3>1, <4>1 DEF FoldOK
    <3>2. CASE i # t.line.id
      BY <1>1, <1>10, <2>1, <3>2 DEF FoldOK
    <3>3. QED BY <3>1, <3>2
  <2>2. ASSUME NEW x \in LineType, IsLastLine(fs, x), ~x.deleted, NonePending(us, x.id) PROVE x.id \in DOMAIN o
    <3>1. CASE x.id = t.line.id
      BY <3>1
    <3>2. CASE x.id # t.line.id
      BY <1>1, <1>4, <1>10, <2>2, <3>2 DEF FoldOK
    <3>3. QED BY <3>1, <3>2
  <2>3. ASSUME NEW q \in Pending(us), IsNewest(q, us, v) PROVE IsLastLine(fs, q.line)
    <3>1. IsNewest(q, ts, w)
      <4> SUFFICES ASSUME NEW r \in Pending(ts), NEW k \in 1 .. Len(w), NEW j \in 1 .. Len(w),
                          w[k] = q.n, w[j] = r.n, r.line.id = q.line.id
                   PROVE j <= k
        BY DEF IsNewest
      <4>1. k # 1
        BY <1>2, <1>8
      <4>2. CASE j = 1
        BY <4>2
      <4>3. CASE j # 1
        <5>1. /\ k - 1 \in 1 .. Len(v) /\ j - 1 \in 1 .. Len(v) /\ k - 1 + 1 = k /\ j - 1 + 1 = j
              /\ v[k - 1] = w[k - 1 + 1] /\ v[j - 1] = w[j - 1 + 1]
          BY <1>2, <4>1, <4>3
        <5>2. r \in Pending(us)
          <6>1. r # t
            BY <1>f, <4>3
          <6>2. QED BY <1>8, <6>1
        <5>3. j - 1 <= k - 1
          BY <2>3, <5>1, <5>2 DEF IsNewest
        <5>4. QED BY <5>3
      <4>4. QED BY <4>2, <4>3
    <3>2. QED BY <1>1, <1>8, <3>1 DEF FoldOK
  <2>4. QED BY <2>1, <2>2, <2>3 DEF FoldOK
<1>12. QED BY <1>1, <1>3, <1>4, <1>5, <1>7, <1>9, <1>11 DEF MemInv, us, v

\* Bounded natural numbers have a greatest one.
LEMMA GreatestNatural ==
  ASSUME NEW T, T \subseteq Nat, T # {}, NEW c \in Nat, \A n \in T : n <= c
  PROVE Max(T) \in T /\ \A n \in T : n <= Max(T)
<1> DEFINE U == {c - n : n \in T}
<1>1. U \subseteq Nat /\ U # {}
  <2>1. \A n \in T : c - n \in Nat
    OBVIOUS
  <2>2. PICK n \in T : TRUE
    OBVIOUS
  <2>3. c - n \in U
    BY <2>2
  <2>4. QED BY <2>1, <2>3
<1>2. PICK l \in U : \A u \in U : l <= u
  BY <1>1, LeastNatural
<1>3. PICK g \in T : l = c - g
  BY <1>2
<1>4. \A n \in T : n <= g
  <2> SUFFICES ASSUME NEW n \in T PROVE n <= g
    OBVIOUS
  <2>1. c - n \in U
    OBVIOUS
  <2>2. l <= c - n
    BY <1>2, <2>1
  <2>3. n \in Nat /\ g \in Nat
    BY <1>3
  <2>4. QED BY <1>3, <2>2, <2>3
<1>5. \E g1 \in T : \A n \in T : g1 >= n
  <2>1. \A n \in T : g >= n
    BY <1>3, <1>4
  <2>2. QED BY <2>1
<1>6. Max(T) \in T /\ \A n \in T : Max(T) >= n
  <2> HIDE DEF U
  <2>1. QED BY <1>5 DEF Max
<1>7. QED BY <1>6

\* The last line of an id.
LEMMA LastOfIsLast ==
  ASSUME NEW lines \in Seq(LineType), NEW id \in IdsOf(lines)
  PROVE \E k \in 1 .. Len(lines) :
          /\ lines[k] = LastOf(lines, id) /\ lines[k].id = id
          /\ \A j \in k + 1 .. Len(lines) : lines[j].id # id
<1> DEFINE I == {i \in 1 .. Len(lines) : lines[i].id = id}
           g == Max(I)
<1>1. I \subseteq Nat /\ I # {} /\ Len(lines) \in Nat /\ \A i \in I : i <= Len(lines)
  BY DEF IdsOf
<1>2. LastOf(lines, id) = lines[g]
  <2>1. SelectLastInSeq(lines, LAMBDA l : l.id = id) = g
    BY <1>1 DEF SelectLastInSeq
  <2>2. QED BY <2>1 DEF LastOf
<1>3. g \in I /\ \A i \in I : i <= g
  <2> HIDE DEF I
  <2>1. QED BY <1>1, GreatestNatural
<1> HIDE DEF g
<1>4. g \in 1 .. Len(lines) /\ lines[g].id = id
  BY <1>3
<1>5. \A j \in g + 1 .. Len(lines) : lines[j].id # id
  <2> SUFFICES ASSUME NEW j \in g + 1 .. Len(lines), lines[j].id = id PROVE FALSE
    OBVIOUS
  <2>1. j \in I
    BY <1>1, <1>4
  <2>2. j <= g
    BY <1>3, <2>1
  <2>3. QED BY <1>4, <2>2
<1>6. QED BY <1>2, <1>4, <1>5

AreLines(fs, lines) == lines = fs.global \o fs.workspace

\* The lines of the files, in the order of the fold.
LEMMA LinesAre ==
  ASSUME NEW fs, FilesOK(fs), NEW lines, AreLines(fs, lines)
  PROVE /\ lines \in Seq(LineType)
        /\ \A s \in Scopes : \A k \in 1 .. Len(fs[s]) :
             \E i \in 1 .. Len(lines) : lines[i] = fs[s][k]
        /\ \A i \in 1 .. Len(lines) : \E s \in Scopes : \E k \in 1 .. Len(fs[s]) :
             /\ lines[i] = fs[s][k] /\ fs[s][k].scope = s
             /\ \A j \in k + 1 .. Len(fs[s]) : \E l \in i + 1 .. Len(lines) : lines[l] = fs[s][j]
<1> DEFINE g == fs["global"]
           h == fs["workspace"]
<1>1. g \in Seq(LineType) /\ h \in Seq(LineType) /\ lines = g \o h
  BY DEF FilesOK, Scopes, AreLines
<1>2. /\ \A k \in 1 .. Len(g) : g[k].scope = "global"
      /\ \A k \in 1 .. Len(h) : h[k].scope = "workspace"
  BY DEF FilesOK, Scopes
<1>3. Scopes = {"workspace", "global"}
  BY DEF Scopes
<1>4. /\ lines \in Seq(LineType) /\ Len(g) \in Nat /\ Len(h) \in Nat /\ Len(lines) = Len(g) + Len(h)
      /\ \A k \in 1 .. Len(g) : lines[k] = g[k]
      /\ \A k \in 1 .. Len(h) : lines[Len(g) + k] = h[k]
  <2> HIDE DEF g, h
  <2>1. QED BY <1>1
<1> DEFINE a == Len(g)
           b == Len(h)
<1>5. a \in Nat /\ b \in Nat /\ Len(lines) = a + b
  BY <1>4
<1>6. ASSUME NEW k \in 1 .. a PROVE k \in 1 .. Len(lines) /\ lines[k] = g[k]
  <2>1. lines[k] = g[k]
    BY <1>4
  <2> HIDE DEF a, b
  <2>2. QED BY <1>5, <2>1
<1>7. ASSUME NEW k \in 1 .. b PROVE a + k \in 1 .. Len(lines) /\ lines[a + k] = h[k]
  <2>1. lines[a + k] = h[k]
    BY <1>4
  <2> HIDE DEF a, b
  <2>2. QED BY <1>5, <2>1
<1>8. ASSUME NEW i \in 1 .. Len(lines)
      PROVE \/ i \in 1 .. a
            \/ \E k \in 1 .. b : i = a + k
  <2> HIDE DEF a, b
  <2>1. CASE i > a
    <3>1. i - a \in 1 .. b /\ i = a + (i - a)
      BY <1>5, <2>1
    <3>2. QED BY <3>1
  <2>2. QED BY <1>5, <2>1
<1>9. ASSUME NEW s \in Scopes, NEW k \in 1 .. Len(fs[s])
      PROVE \E i \in 1 .. Len(lines) : lines[i] = fs[s][k]
  <2>1. CASE s = "global"
    BY <1>6, <2>1
  <2>2. CASE s = "workspace"
    BY <1>7, <2>2
  <2>3. QED BY <1>3, <2>1, <2>2
<1>10. ASSUME NEW i \in 1 .. Len(lines)
       PROVE \E s \in Scopes : \E k \in 1 .. Len(fs[s]) :
             /\ lines[i] = fs[s][k] /\ fs[s][k].scope = s
             /\ \A j \in k + 1 .. Len(fs[s]) : \E l \in i + 1 .. Len(lines) : lines[l] = fs[s][j]
  <2>1. CASE i \in 1 .. a
    <3>1. lines[i] = g[i] /\ g[i].scope = "global"
      BY <1>2, <1>6, <2>1
    <3>2. ASSUME NEW j \in i + 1 .. a PROVE j \in i + 1 .. Len(lines) /\ lines[j] = g[j]
      <4>1. j \in 1 .. a
        <5> HIDE DEF a
        <5>1. QED BY <1>5, <2>1
      <4>2. j \in 1 .. Len(lines) /\ lines[j] = g[j]
        BY <1>6, <4>1
      <4> HIDE DEF a
      <4>3. QED BY <1>5, <4>2
    <3>3. \A j \in i + 1 .. a : \E l \in i + 1 .. Len(lines) : lines[l] = g[j]
      BY <3>2
    <3>4. QED BY <1>3, <2>1, <3>1, <3>3
  <2>2. ASSUME NEW k \in 1 .. b, i = a + k
        PROVE \E s \in Scopes : \E q \in 1 .. Len(fs[s]) :
             /\ lines[i] = fs[s][q] /\ fs[s][q].scope = s
             /\ \A j \in q + 1 .. Len(fs[s]) : \E l \in i + 1 .. Len(lines) : lines[l] = fs[s][j]
    <3>1. lines[i] = h[k] /\ h[k].scope = "workspace"
      BY <1>2, <1>7, <2>2
    <3>2. ASSUME NEW j \in k + 1 .. b PROVE a + j \in i + 1 .. Len(lines) /\ lines[a + j] = h[j]
      <4>1. j \in 1 .. b
        <5> HIDE DEF b
        <5>1. QED BY <1>5
      <4>2. a + j \in 1 .. Len(lines) /\ lines[a + j] = h[j]
        BY <1>7, <4>1
      <4> HIDE DEF a, b
      <4>3. QED BY <1>5, <2>2, <4>1, <4>2
    <3>3. \A j \in k + 1 .. b : \E l \in i + 1 .. Len(lines) : lines[l] = h[j]
      BY <3>2
    <3>4. QED BY <1>3, <3>1, <3>3
  <2>3. QED BY <1>8, <2>1, <2>2
<1>11. QED BY <1>4, <1>9, <1>10

\* The last line of an id in the fold is the last one of its file.
LEMMA FoldOfFiles ==
  ASSUME NEW fs, FilesOK(fs), NEW lines, AreLines(fs, lines),
         \A i, j \in 1 .. Len(lines) : lines[i].id = lines[j].id => lines[i].scope = lines[j].scope
  PROVE /\ \A id \in IdsOf(lines) : /\ LastOf(lines, id) \in LineType /\ LastOf(lines, id).id = id
                                    /\ IsLastLine(fs, LastOf(lines, id))
        /\ \A x : x.scope \in Scopes /\ IsLastLine(fs, x) => x.id \in IdsOf(lines) /\ x = LastOf(lines, x.id)
<1>1. /\ lines \in Seq(LineType)
      /\ \A i \in 1 .. Len(lines) : \E s \in Scopes : \E k \in 1 .. Len(fs[s]) :
           /\ lines[i] = fs[s][k] /\ fs[s][k].scope = s
           /\ \A j \in k + 1 .. Len(fs[s]) : \E l \in i + 1 .. Len(lines) : lines[l] = fs[s][j]
  BY LinesAre
<1>2. ASSUME NEW id \in IdsOf(lines)
      PROVE /\ LastOf(lines, id) \in LineType /\ LastOf(lines, id).id = id
            /\ IsLastLine(fs, LastOf(lines, id))
            /\ \E i \in 1 .. Len(lines) : LastOf(lines, id) = lines[i]
  <2>1. PICK i \in 1 .. Len(lines) :
          /\ lines[i] = LastOf(lines, id) /\ lines[i].id = id
          /\ \A j \in i + 1 .. Len(lines) : lines[j].id # id
    BY <1>1, LastOfIsLast
  <2>2. PICK s \in Scopes : \E k \in 1 .. Len(fs[s]) :
             /\ lines[i] = fs[s][k] /\ fs[s][k].scope = s
             /\ \A j \in k + 1 .. Len(fs[s]) : \E l \in i + 1 .. Len(lines) : lines[l] = fs[s][j]
    BY <1>1
  <2>3. PICK k \in 1 .. Len(fs[s]) :
             /\ lines[i] = fs[s][k] /\ fs[s][k].scope = s
             /\ \A j \in k + 1 .. Len(fs[s]) : \E l \in i + 1 .. Len(lines) : lines[l] = fs[s][j]
    BY <2>2
  <2> DEFINE x == LastOf(lines, id)
  <2>6. x = lines[i] /\ lines[i].id = id
    BY <2>1
  <2> HIDE DEF x
  <2>9. lines[i] \in LineType
    BY <1>1
  <2>4. x = fs[s][k] /\ x.scope = s /\ x.id = id /\ x \in LineType
    BY <2>3, <2>6, <2>9
  <2>5. ASSUME NEW j \in k + 1 .. Len(fs[s]) PROVE fs[s][j].id # id
    <3>1. PICK l \in i + 1 .. Len(lines) : lines[l] = fs[s][j]
      BY <2>3
    <3>2. lines[l].id # id
      BY <2>1
    <3>3. QED BY <3>1, <3>2
  <2>7. IsLastLine(fs, x)
    BY <2>4, <2>5 DEF IsLastLine
  <2>8. QED BY <2>4, <2>6, <2>7 DEF x
<1>3. ASSUME NEW x, x.scope \in Scopes, IsLastLine(fs, x) PROVE x.id \in IdsOf(lines) /\ x = LastOf(lines, x.id)
  <2>1. PICK k \in 1 .. Len(fs[x.scope]) : fs[x.scope][k] = x
    BY <1>3 DEF IsLastLine
  <2>2. PICK i \in 1 .. Len(lines) : lines[i] = x
    BY <1>3, <2>1, LinesAre
  <2>3. DOMAIN lines = 1 .. Len(lines)
    BY <1>1
  <2>4. x.id \in IdsOf(lines)
    BY <2>2, <2>3 DEF IdsOf
  <2> DEFINE y == LastOf(lines, x.id)
  <2>5. y.id = x.id /\ IsLastLine(fs, y) /\ \E j \in 1 .. Len(lines) : y = lines[j]
    BY <1>2, <2>4
  <2> HIDE DEF y
  <2>6. y.scope = x.scope
    <3>1. PICK j \in 1 .. Len(lines) : y = lines[j]
      BY <2>5
    <3>2. lines[i].id = lines[j].id
      BY <2>2, <2>5, <3>1
    <3>3. lines[i].scope = lines[j].scope
      BY <3>2
    <3>4. QED BY <2>2, <3>1, <3>3
  <2>7. x = y
    BY <1>3, <2>5, <2>6, LastIsOne
  <2>8. QED BY <2>4, <2>7 DEF y
<1>4. QED BY <1>2, <1>3

\* A finite set as a sequence of its members.
LEMMA SetAsSequence ==
  ASSUME NEW ids, IsFiniteSet(ids)
  PROVE LET q == SetToSeq(ids)
        IN  /\ q \in [1 .. Cardinality(ids) -> ids] /\ Cardinality(ids) \in Nat
            /\ \A i \in ids : \E k \in 1 .. Cardinality(ids) : q[k] = i
<1> DEFINE n == Cardinality(ids)
           q == SetToSeq(ids)
<1>1. n \in Nat /\ ExistsBijection(1 .. n, ids)
  BY FS_CardinalityType
<1>2. \E f \in [1 .. n -> ids] : IsInjective(f)
  <2>1. PICK f \in Bijection(1 .. n, ids) : TRUE
    BY <1>1 DEF ExistsBijection
  <2>2. f \in [1 .. n -> ids] /\ IsInjective(f)
    BY <2>1 DEF Bijection, Injection, IsInjective
  <2>3. QED BY <2>2
<1>3. q \in [1 .. n -> ids] /\ IsInjective(q)
  <2> HIDE DEF n
  <2>1. q = CHOOSE f \in [1 .. n -> ids] : IsInjective(f)
    BY DEF SetToSeq, n
  <2>2. QED BY <1>2, <2>1
<1>4. q \in Injection(1 .. n, ids)
  BY <1>3 DEF Injection, IsInjective
<1>5. Cardinality(1 .. n) = n
  BY <1>1, FS_Interval
<1>6. q \in Surjection(1 .. n, ids)
  <2> HIDE DEF q
  <2>1. (Cardinality(1 .. n) = Cardinality(ids)) <=> q \in Surjection(1 .. n, ids)
    BY <1>4, FS_Injection
  <2>2. QED BY <1>5, <2>1
<1>7. QED BY <1>1, <1>3, <1>6 DEF Surjection

Buried(line) == [line EXCEPT !.deleted = TRUE]

\* One tombstone for each memory that retention removes, in the file it is in.
LEMMA TombstonesAre ==
  ASSUME NEW map, NEW expired, IsFiniteSet(expired), NEW scope
  PROVE LET ts == Tombstones(map, expired, scope)
        IN  /\ Len(ts) \in Nat /\ ts = [k \in 1 .. Len(ts) |-> ts[k]]
            /\ \A k \in 1 .. Len(ts) : \E i \in expired : map[i].scope = scope /\ ts[k] = Buried(map[i])
            /\ \A i \in expired : map[i].scope = scope => \E k \in 1 .. Len(ts) : ts[k] = Buried(map[i])
<1> DEFINE ids == {i \in expired : map[i].scope = scope}
           n == Cardinality(ids)
           q == SetToSeq(ids)
           ts == Tombstones(map, expired, scope)
<1>1. IsFiniteSet(ids)
  BY FS_Subset
<1>2. q \in [1 .. n -> ids] /\ n \in Nat /\ \A i \in ids : \E k \in 1 .. n : q[k] = i
  <2> HIDE DEF ids
  <2>1. QED BY <1>1, SetAsSequence
<1>3. ts = [k \in DOMAIN q |-> Buried(map[q[k]])]
  BY DEF Tombstones, Buried
<1> HIDE DEF n, q, ts
<1>4. DOMAIN q = 1 .. n
  BY <1>2
<1>5. ts = [k \in 1 .. n |-> Buried(map[q[k]])]
  BY <1>3, <1>4
<1>6. Len(ts) = n /\ DOMAIN ts = 1 .. n
  BY <1>2, <1>5
<1>7. ASSUME NEW k \in 1 .. n PROVE \E i \in expired : map[i].scope = scope /\ ts[k] = Buried(map[i])
  <2>1. q[k] \in ids /\ ts[k] = Buried(map[q[k]])
    BY <1>2, <1>5
  <2>2. QED BY <2>1
<1>8. ASSUME NEW i \in expired, map[i].scope = scope PROVE \E k \in 1 .. n : ts[k] = Buried(map[i])
  <2>1. PICK k \in 1 .. n : q[k] = i
    BY <1>2, <1>8
  <2>2. QED BY <1>5, <2>1
<1>9. ts = [k \in 1 .. Len(ts) |-> ts[k]]
  BY <1>5, <1>6
<1>10. QED BY <1>2, <1>6, <1>7, <1>8, <1>9 DEF ts

Joined(f, ts, g) == g = f \o ts

\* What a file says after a restart: what it said, and the tombstones.
LEMMA ReopenedFile ==
  ASSUME NEW fs, FilesOK(fs), NEW map, NEW expired, IsFiniteSet(expired), expired \subseteq DOMAIN map,
         \A i \in DOMAIN map : map[i] \in LiveLine /\ map[i].id = i,
         NEW s \in Scopes, NEW g, Joined(fs[s], Tombstones(map, expired, s), g)
  PROVE /\ g \in Seq(LineType)
        /\ Len(fs[s]) \in Nat /\ Len(g) \in Nat /\ Len(fs[s]) <= Len(g)
        /\ \A k \in 1 .. Len(fs[s]) : g[k] = fs[s][k]
        /\ \A k \in Len(fs[s]) + 1 .. Len(g) : \E i \in expired : map[i].scope = s /\ g[k] = Buried(map[i])
        /\ \A i \in expired : map[i].scope = s => \E k \in Len(fs[s]) + 1 .. Len(g) : g[k] = Buried(map[i])
<1> DEFINE f == fs[s]
           ts == Tombstones(map, expired, s)
           a == Len(f)
           n == Len(ts)
<1>1. f \in Seq(LineType) /\ a \in Nat
  BY DEF FilesOK
<1>2. /\ n \in Nat /\ ts = [k \in 1 .. n |-> ts[k]]
      /\ \A k \in 1 .. n : \E i \in expired : map[i].scope = s /\ ts[k] = Buried(map[i])
      /\ \A i \in expired : map[i].scope = s => \E k \in 1 .. n : ts[k] = Buried(map[i])
  BY TombstonesAre
<1> HIDE DEF ts, f
<1>3. ASSUME NEW line \in LiveLine PROVE Buried(line) \in LineType
  BY DEF Buried, LiveLine, LineType
<1>4. \A k \in 1 .. n : ts[k] \in LineType
  BY <1>2, <1>3
<1>5. ts \in Seq(LineType)
  BY <1>2, <1>4
<1>6. g = f \o ts
  BY DEF f, ts, Joined
<1>7. /\ g \in Seq(LineType) /\ Len(g) = a + n
      /\ \A k \in 1 .. a : g[k] = f[k]
      /\ \A k \in 1 .. n : g[a + k] = ts[k]
  BY <1>1, <1>2, <1>5, <1>6
<1> HIDE DEF a, n
<1>8. ASSUME NEW k \in a + 1 .. Len(g) PROVE \E i \in expired : map[i].scope = s /\ g[k] = Buried(map[i])
  <2> DEFINE l == k - a
  <2>1. l \in 1 .. n /\ a + l = k
    BY <1>1, <1>2, <1>7
  <2> HIDE DEF l
  <2>2. g[k] = ts[l]
    BY <1>7, <2>1
  <2>3. QED BY <1>2, <2>1, <2>2
<1>9. ASSUME NEW i \in expired, map[i].scope = s PROVE \E k \in a + 1 .. Len(g) : g[k] = Buried(map[i])
  <2>1. PICK l \in 1 .. n : ts[l] = Buried(map[i])
    BY <1>2, <1>9
  <2>2. a + l \in a + 1 .. Len(g)
    BY <1>1, <1>2, <1>7
  <2>3. g[a + l] = Buried(map[i])
    BY <1>7, <2>1
  <2>4. QED BY <2>2, <2>3
<1>10. Len(g) \in Nat /\ a <= Len(g)
  BY <1>1, <1>2, <1>7
<1>11. QED BY <1>1, <1>7, <1>8, <1>9, <1>10 DEF f, a

\* The fold of the files: live lines, each the last of its id.
LEMMA FoldIs ==
  ASSUME NEW fs, FilesOK(fs), NEW lines, AreLines(fs, lines), NEW c \in Nat,
         OneStory({lines[i] : i \in 1 .. Len(lines)}), Counted({lines[i] : i \in 1 .. Len(lines)}, c)
  PROVE LET map == Fold(lines)
        IN  /\ MapOK(map) /\ DOMAIN map \subseteq 1 .. c
            /\ \A i \in DOMAIN map : IsLastLine(fs, map[i])
            /\ \A x \in LineType : IsLastLine(fs, x) /\ ~x.deleted => x.id \in DOMAIN map /\ map[x.id] = x
<1> DEFINE D == {i \in IdsOf(lines) : ~LastOf(lines, i).deleted}
           map == Fold(lines)
<1>1. \A i, j \in 1 .. Len(lines) : lines[i].id = lines[j].id => lines[i].scope = lines[j].scope
  BY DEF OneStory
<1>2. /\ \A id \in IdsOf(lines) : /\ LastOf(lines, id) \in LineType /\ LastOf(lines, id).id = id
                                  /\ IsLastLine(fs, LastOf(lines, id))
      /\ \A x : x.scope \in Scopes /\ IsLastLine(fs, x) => x.id \in IdsOf(lines) /\ x = LastOf(lines, x.id)
  BY <1>1, FoldOfFiles
<1>3. map = [id \in D |-> LastOf(lines, id)]
  BY DEF Fold
<1> HIDE DEF map
<1>4. DOMAIN map = D /\ \A i \in D : map[i] = LastOf(lines, i)
  BY <1>3
<1>5. ASSUME NEW i \in D PROVE map[i] \in LiveLine /\ map[i].id = i /\ IsLastLine(fs, map[i])
  <2>1. map[i] \in LineType /\ ~map[i].deleted /\ map[i].id = i /\ IsLastLine(fs, map[i])
    BY <1>2, <1>4
  <2>2. QED BY <2>1 DEF LineType, LiveLine
<1>6. lines \in Seq(LineType) /\ DOMAIN lines = 1 .. Len(lines)
  <2>1. lines \in Seq(LineType)
    BY LinesAre
  <2>2. QED BY <2>1
<1>7. ASSUME NEW i \in D PROVE i \in 1 .. c
  <2>1. PICK k \in 1 .. Len(lines) : lines[k].id = i
    BY <1>6 DEF IdsOf
  <2>4. lines[k].id <= c
    BY DEF Counted
  <2>5. lines[k] \in LineType
    BY <1>6
  <2>2. lines[k].id \in Nat \ {0} /\ lines[k].id <= c
    BY <2>4, <2>5 DEF LineType
  <2>3. QED BY <2>1, <2>2
<1>8. ASSUME NEW x \in LineType, IsLastLine(fs, x), ~x.deleted PROVE x.id \in D /\ map[x.id] = x
  <2>1. x.scope \in Scopes
    BY DEF LineType
  <2>2. x.id \in IdsOf(lines) /\ x = LastOf(lines, x.id)
    BY <1>2, <1>8, <2>1
  <2>3. QED BY <1>4, <1>8, <2>2
<1>9. map = [i \in DOMAIN map |-> map[i]]
  BY <1>3
<1> HIDE DEF D
<1>10. QED BY <1>4, <1>5, <1>7, <1>8, <1>9 DEF MapOK, map

\* What counts for the next id.
LEMMA CounterCounts ==
  ASSUME NEW lines \in Seq(LineType), NEW c \in Nat, Counted({lines[i] : i \in 1 .. Len(lines)}, c)
  PROVE Counter(lines) \in Nat /\ \A i \in 1 .. Len(lines) : lines[i].id <= Counter(lines)
<1> DEFINE T == IdsOf(lines) \cup {0}
<1>1. ASSUME NEW i \in 1 .. Len(lines) PROVE lines[i].id \in Nat /\ lines[i].id <= c /\ lines[i].id \in T
  <2>1. lines[i].id <= c
    BY DEF Counted
  <2>2. lines[i] \in LineType /\ i \in DOMAIN lines
    OBVIOUS
  <2>3. lines[i].id \in Nat
    BY <2>2 DEF LineType
  <2>4. lines[i].id \in IdsOf(lines)
    BY <2>2 DEF IdsOf
  <2>5. QED BY <2>1, <2>3, <2>4
<1>5. IdsOf(lines) = {lines[i].id : i \in 1 .. Len(lines)}
  BY DEF IdsOf
<1>2. T \subseteq Nat /\ T # {} /\ \A n \in T : n <= c
  BY <1>1, <1>5
<1> HIDE DEF T
<1>3. Max(T) \in T /\ \A n \in T : n <= Max(T)
  BY <1>2, GreatestNatural
<1>4. QED BY <1>1, <1>2, <1>3 DEF Counter, T

\* The lines of the files are known.
LEMMA LinesKnown ==
  ASSUME NEW m, NEW fs, FilesOK(fs), NEW ts, NEW c, OneStory(Known(m, fs, ts)), Counted(Known(m, fs, ts), c),
         NEW lines, AreLines(fs, lines)
  PROVE OneStory({lines[i] : i \in 1 .. Len(lines)}) /\ Counted({lines[i] : i \in 1 .. Len(lines)}, c)
<1> DEFINE S == {lines[i] : i \in 1 .. Len(lines)}
<1>9. FilesOK(fs) /\ AreLines(fs, lines)
  OBVIOUS
<1> HIDE DEF S
<1>0. /\ lines \in Seq(LineType)
      /\ \A i \in 1 .. Len(lines) : \E s \in Scopes : \E k \in 1 .. Len(fs[s]) :
           /\ lines[i] = fs[s][k] /\ fs[s][k].scope = s
           /\ \A j \in k + 1 .. Len(fs[s]) : \E l \in i + 1 .. Len(lines) : lines[l] = fs[s][j]
  BY ONLY <1>9, LinesAre
<1>1. ASSUME NEW i \in 1 .. Len(lines) PROVE lines[i] \in Known(m, fs, ts)
  <2>2. PICK s \in Scopes : \E k \in 1 .. Len(fs[s]) : lines[i] = fs[s][k]
    BY <1>0
  <2>3. QED BY <2>2 DEF Known
<1>2. S \subseteq Known(m, fs, ts)
  BY <1>1 DEF S
<1>3. OneStory(S) /\ Counted(S, c)
  BY <1>2 DEF OneStory, Counted
<1>4. QED BY <1>3 DEF S

\* The store is opened: what retention does not remove is the fold of the files,
\* and what it removes has a tombstone at the end of its file.
LEMMA Reopened ==
  ASSUME StoreInv, NEW old, NEW opens, Open(old, opens), tasks' = {}, written' = <<>>
  PROVE StoreInv'
<1> DEFINE fs == files
           lines == Lines
           map == Fold(lines)
           expired == old \cap DOMAIN map
           gs == files'
           o == [i \in DOMAIN map \ expired |-> map[i]]
           c == store.counter
           d == Counter(lines)
<1>1. /\ MemInv(store.map, c, store.begun, fs, tasks, written)
      /\ c \in Nat /\ store.begun \in Nat /\ FilesOK(fs)
      /\ OneStory(Known(store.map, fs, tasks)) /\ Counted(Known(store.map, fs, tasks), c)
  BY DEF StoreInv, MemInv
<1>2. /\ gs = [s \in Scopes |-> fs[s] \o Tombstones(map, expired, s)]
      /\ store' = [map |-> o, opens |-> opens, counter |-> d, begun |-> store.begun]
  BY DEF Open
<1>3. AreLines(fs, lines)
  BY DEF AreLines, Lines
<1> HIDE DEF lines, fs, gs, c, d
<1>4. OneStory({lines[i] : i \in 1 .. Len(lines)}) /\ Counted({lines[i] : i \in 1 .. Len(lines)}, c)
  BY <1>1, <1>3, LinesKnown
<1>5. /\ MapOK(map) /\ DOMAIN map \subseteq 1 .. c
      /\ \A i \in DOMAIN map : IsLastLine(fs, map[i])
      /\ \A x \in LineType : IsLastLine(fs, x) /\ ~x.deleted => x.id \in DOMAIN map /\ map[x.id] = x
  BY <1>1, <1>3, <1>4, FoldIs
<1> HIDE DEF map
<1>6. \A i \in DOMAIN map : map[i] \in LiveLine /\ map[i].id = i
  BY <1>5 DEF MapOK
<1>7. IsFiniteSet(expired)
  <2>1. IsFiniteSet(1 .. c)
    BY <1>1, FS_Interval
  <2>2. expired \in SUBSET (1 .. c)
    BY <1>5
  <2>3. QED BY <2>1, <2>2, FS_Subset
<1>8. expired \subseteq DOMAIN map
  OBVIOUS
<1> HIDE DEF expired
<1>9. ASSUME NEW s \in Scopes
      PROVE /\ gs[s] \in Seq(LineType)
            /\ Len(fs[s]) \in Nat /\ Len(gs[s]) \in Nat /\ Len(fs[s]) <= Len(gs[s])
            /\ \A k \in 1 .. Len(fs[s]) : gs[s][k] = fs[s][k]
            /\ \A k \in Len(fs[s]) + 1 .. Len(gs[s]) : \E i \in expired : map[i].scope = s /\ gs[s][k] = Buried(map[i])
            /\ \A i \in expired : map[i].scope = s =>
                 \E k \in Len(fs[s]) + 1 .. Len(gs[s]) : gs[s][k] = Buried(map[i])
  <2>1. Joined(fs[s], Tombstones(map, expired, s), gs[s])
    BY <1>2 DEF Joined
  <2>2. QED BY <1>1, <1>6, <1>7, <1>8, <2>1, ReopenedFile
<1>10. ASSUME NEW line \in LiveLine
       PROVE LET x == Buried(line)
             IN x.id = line.id /\ x.text = line.text /\ x.scope = line.scope /\ x.deleted = TRUE
  BY DEF Buried, LiveLine
<1>11. ASSUME NEW s \in Scopes, NEW k \in 1 .. Len(gs[s])
       PROVE \/ k \in 1 .. Len(fs[s]) /\ gs[s][k] = fs[s][k]
             \/ \E i \in expired : map[i].scope = s /\ gs[s][k] = Buried(map[i])
  <2>1. CASE k <= Len(fs[s])
    <3>1. k \in 1 .. Len(fs[s])
      BY <1>9, <2>1
    <3>2. QED BY <1>9, <3>1
  <2>2. CASE ~(k <= Len(fs[s]))
    <3>1. k \in Len(fs[s]) + 1 .. Len(gs[s])
      <4>1. Len(fs[s]) \in Nat /\ Len(gs[s]) \in Nat
        BY <1>9
      <4>2. QED BY <2>2, <4>1
    <3>2. QED BY <1>9, <3>1
  <2>3. QED BY <2>1, <2>2
<1>12. FilesOK(gs)
  <2>1. gs = [s \in Scopes |-> gs[s]]
    BY <1>2
  <2>2. ASSUME NEW s \in Scopes, NEW k \in 1 .. Len(gs[s]) PROVE gs[s][k].scope = s
    <3>1. CASE k \in 1 .. Len(fs[s]) /\ gs[s][k] = fs[s][k]
      BY <1>1, <3>1 DEF FilesOK
    <3>2. ASSUME NEW i \in expired, map[i].scope = s, gs[s][k] = Buried(map[i]) PROVE gs[s][k].scope = s
      BY <1>6, <1>8, <1>10, <3>2
    <3>3. QED BY <1>11, <3>1, <3>2
  <2>3. QED BY <1>9, <2>1, <2>2 DEF FilesOK
<1>13. /\ DOMAIN o = DOMAIN map \ expired /\ \A i \in DOMAIN o : o[i] = map[i]
       /\ o = [i \in DOMAIN o |-> o[i]]
  OBVIOUS
<1> HIDE DEF o
<1>14. MapOK(o)
  BY <1>6, <1>13 DEF MapOK
<1> DEFINE F == UNION {{fs[s][k] : k \in 1 .. Len(fs[s])} : s \in Scopes}
<1>15. F \subseteq Known(store.map, fs, tasks) /\ OneStory(F)
  BY <1>1 DEF Known, OneStory
<1>16. ASSUME NEW i \in DOMAIN map PROVE map[i] \in F
  <2> DEFINE s == map[i].scope
  <2>1. PICK k \in 1 .. Len(fs[s]) : fs[s][k] = map[i]
    BY <1>5 DEF IsLastLine
  <2>2. s \in Scopes
    BY <1>6 DEF LiveLine
  <2>3. QED BY <2>1, <2>2
<1>17. ASSUME NEW x \in Known(o, gs, {})
       PROVE \E y \in F : y.id = x.id /\ y.text = x.text /\ y.scope = x.scope
  <2>1. CASE x \in {o[i] : i \in DOMAIN o}
    BY <1>13, <1>16, <2>1
  <2>2. CASE x \in UNION {{gs[s][k] : k \in 1 .. Len(gs[s])} : s \in Scopes}
    <3>1. PICK s \in Scopes : \E k \in 1 .. Len(gs[s]) : x = gs[s][k]
      BY <2>2
    <3>2. PICK k \in 1 .. Len(gs[s]) : x = gs[s][k]
      BY <3>1
    <3>3. CASE k \in 1 .. Len(fs[s]) /\ gs[s][k] = fs[s][k]
      BY <3>2, <3>3
    <3>4. ASSUME NEW i \in expired, x = Buried(map[i])
          PROVE \E y \in F : y.id = x.id /\ y.text = x.text /\ y.scope = x.scope
      <4>1. map[i] \in F /\ map[i] \in LiveLine
        BY <1>6, <1>8, <1>16
      <4> HIDE DEF F
      <4>2. x.id = map[i].id /\ x.text = map[i].text /\ x.scope = map[i].scope
        BY <1>10, <3>4, <4>1
      <4>3. QED BY <4>1, <4>2
    <3>5. QED BY <1>11, <3>2, <3>3, <3>4
  <2>3. QED BY <2>1, <2>2 DEF Known
<1>18. OneStory(Known(o, gs, {}))
  <2> HIDE DEF F
  <2> SUFFICES ASSUME NEW x \in Known(o, gs, {}), NEW y \in Known(o, gs, {}), x.id = y.id
               PROVE x.text = y.text /\ x.scope = y.scope
    BY DEF OneStory
  <2>1. PICK p \in F : p.id = x.id /\ p.text = x.text /\ p.scope = x.scope
    BY <1>17
  <2>2. PICK q \in F : q.id = y.id /\ q.text = y.text /\ q.scope = y.scope
    BY <1>17
  <2>3. p.text = q.text /\ p.scope = q.scope
    BY <1>15, <2>1, <2>2 DEF OneStory
  <2>4. QED BY <2>1, <2>2, <2>3
<1>19. d \in Nat /\ Counted(Known(o, gs, {}), d)
  <2>1. lines \in Seq(LineType)
    BY <1>1, <1>3, LinesAre
  <2>2. d \in Nat /\ \A i \in 1 .. Len(lines) : lines[i].id <= d
    BY <1>1, <1>4, <2>1, CounterCounts DEF d
  <2>3. \A s \in Scopes : \A k \in 1 .. Len(fs[s]) : \E i \in 1 .. Len(lines) : lines[i] = fs[s][k]
    BY <1>1, <1>3, LinesAre
  <2>4. ASSUME NEW y \in F PROVE y.id <= d
    <3>1. PICK s \in Scopes : \E k \in 1 .. Len(fs[s]) : y = fs[s][k]
      OBVIOUS
    <3>2. PICK i \in 1 .. Len(lines) : lines[i] = y
      BY <2>3, <3>1
    <3>3. QED BY <2>2, <3>2
  <2> HIDE DEF F
  <2>5. QED BY <1>17, <2>2, <2>4 DEF Counted
<1>20. Pending({}) = {} /\ WrittenOK({}, <<>>)
  BY DEF Pending, WrittenOK
<1>21. FoldOK(o, gs, {}, <<>>)
  <2>1. ASSUME NEW i \in DOMAIN o PROVE IsLastLine(gs, o[i])
    <3> DEFINE x == o[i]
    <3>1. x = map[i] /\ i \in DOMAIN map /\ i \notin expired
      BY <1>13
    <3>2. x.id = i /\ x.scope \in Scopes /\ IsLastLine(fs, x)
      BY <1>5, <1>6, <3>1 DEF LiveLine
    <3> HIDE DEF x
    <3>3. PICK k \in 1 .. Len(fs[x.scope]) :
            fs[x.scope][k] = x /\ \A j \in k + 1 .. Len(fs[x.scope]) : fs[x.scope][j].id # x.id
      BY <3>2 DEF IsLastLine
    <3>4. k \in 1 .. Len(gs[x.scope]) /\ gs[x.scope][k] = x
      BY <1>9, <3>2, <3>3
    <3>5. ASSUME NEW j \in k + 1 .. Len(gs[x.scope]) PROVE gs[x.scope][j].id # x.id
      <4>1. j \in 1 .. Len(gs[x.scope])
        BY <3>4
      <4>2. CASE j \in 1 .. Len(fs[x.scope]) /\ gs[x.scope][j] = fs[x.scope][j]
        <5>1. j \in k + 1 .. Len(fs[x.scope])
          BY <4>2
        <5>2. QED BY <3>3, <4>2, <5>1
      <4>3. ASSUME NEW q \in expired, gs[x.scope][j] = Buried(map[q]) PROVE gs[x.scope][j].id # x.id
        <5>1. map[q] \in LiveLine /\ map[q].id = q
          BY <1>6, <1>8
        <5>2. gs[x.scope][j].id = q
          BY <1>10, <4>3, <5>1
        <5>3. QED BY <3>1, <3>2, <5>2
      <4>4. QED BY <1>11, <3>2, <4>1, <4>2, <4>3
    <3>6. IsLastLine(gs, x)
      BY <3>4, <3>5 DEF IsLastLine
    <3>7. QED BY <3>6 DEF x
  <2>2. ASSUME NEW x \in LineType, IsLastLine(gs, x), ~x.deleted PROVE x.id \in DOMAIN o
    <3> DEFINE s == x.scope
    <3>1. s \in Scopes
      BY DEF LineType
    <3>2. PICK k \in 1 .. Len(gs[s]) : gs[s][k] = x /\ \A j \in k + 1 .. Len(gs[s]) : gs[s][j].id # x.id
      BY <2>2 DEF IsLastLine
    <3> HIDE DEF s
    <3>3. ~\E i \in expired : gs[s][k] = Buried(map[i])
      <4> SUFFICES ASSUME NEW i \in expired, x = Buried(map[i]) PROVE FALSE
        BY <3>2
      <4>1. map[i] \in LiveLine
        BY <1>6, <1>8
      <4>2. QED BY <1>10, <2>2, <4>1
    <3>4. k \in 1 .. Len(fs[s]) /\ fs[s][k] = x
      BY <1>11, <3>1, <3>2, <3>3
    <3>5. ASSUME NEW j \in k + 1 .. Len(fs[s]) PROVE fs[s][j].id # x.id
      <4>1. Len(fs[s]) \in Nat /\ Len(gs[s]) \in Nat /\ Len(fs[s]) <= Len(gs[s])
        BY <1>9, <3>1
      <4>2. j \in 1 .. Len(fs[s]) /\ j \in k + 1 .. Len(gs[s])
        BY <4>1
      <4>3. gs[s][j] = fs[s][j]
        BY <1>9, <3>1, <4>2
      <4>4. QED BY <3>2, <4>2, <4>3
    <3>6. IsLastLine(fs, x)
      BY <3>4, <3>5 DEF IsLastLine, s
    <3>7. x.id \in DOMAIN map /\ map[x.id] = x
      BY <1>5, <2>2, <3>6
    <3>8. ASSUME x.id \in expired PROVE FALSE
      <4>1. PICK j \in Len(fs[s]) + 1 .. Len(gs[s]) : gs[s][j] = Buried(map[x.id])
        BY <1>9, <3>1, <3>7, <3>8 DEF s
      <4>2. gs[s][j].id = x.id
        BY <1>6, <1>10, <3>7, <4>1
      <4>3. Len(fs[s]) \in Nat
        BY <1>9, <3>1
      <4>4. j \in k + 1 .. Len(gs[s])
        BY <3>4, <4>3
      <4>5. QED BY <3>2, <4>2, <4>4
    <3>9. QED BY <1>13, <3>7, <3>8
  <2>3. QED BY <1>20, <2>1, <2>2 DEF FoldOK
<1>22. TasksOK({}, o, store.begun)
  BY DEF TasksOK
<1>23. MemInv(o, d, store.begun, gs, {}, <<>>)
  BY <1>1, <1>12, <1>14, <1>18, <1>19, <1>20, <1>21, <1>22 DEF MemInv
<1>24. /\ store' = [f \in {"map", "counter", "opens", "begun"} |-> store'[f]]
       /\ store'.map = o /\ store'.counter = d /\ store'.begun = store.begun
  BY <1>2
<1>25. QED BY <1>23, <1>24 DEF StoreInv, gs

\* An extraction or a retrieval begins.
LEMMA BeginKeeps ==
  ASSUME StoreInv, NEW kind \in {"extract", "retrieve"}, TaskBegins(kind) PROVE StoreInv'
<1> DEFINE n == store.begun + 1
           t == [n |-> n, kind |-> kind, pc |-> "model", todo |-> <<>>, line |-> NoLine]
           m == store.map
           c == store.counter
<1>1. /\ store = [f \in {"map", "counter", "opens", "begun"} |-> store[f]]
      /\ MemInv(m, c, store.begun, files, tasks, written) /\ TasksOK(tasks, m, store.begun)
      /\ c \in Nat /\ store.begun \in Nat
  BY DEF StoreInv, MemInv
<1>2. /\ store' = [store EXCEPT !.begun = @ + 1]
      /\ tasks' = tasks \cup {[n |-> store'.begun, kind |-> kind, pc |-> "model", todo |-> <<>>, line |-> NoLine]}
      /\ files' = files /\ written' = written
  BY DEF TaskBegins
<1>3. /\ store' = [f \in {"map", "counter", "opens", "begun"} |-> store'[f]]
      /\ store'.map = m /\ store'.counter = c /\ store'.begun = n
  BY <1>1, <1>2
<1>4. tasks' = tasks \cup {t}
  BY <1>2, <1>3
<1>5. /\ t = [f \in {"n", "kind", "pc", "todo", "line"} |-> t[f]]
      /\ t.n = n /\ t.kind = kind /\ t.pc = "model" /\ t.todo = <<>>
  OBVIOUS
<1> HIDE DEF m, c, t
<1>6. n \in Nat /\ n \in 1 .. n /\ store.begun <= n /\ ~(n \in 1 .. store.begun)
  BY <1>1
<1> HIDE DEF n
<1>7. ASSUME NEW u \in tasks PROVE TaskOK(u, m, n) /\ u.n # n
  <2>1. TaskOK(u, m, store.begun)
    BY <1>1 DEF TasksOK
  <2>2. 1 .. store.begun \subseteq 1 .. n
    BY <1>1, <1>6
  <2>3. QED BY <1>6, <2>1, <2>2 DEF TaskOK
<1>8. MemInv(m, c, n, files, tasks, written)
  <2>1. TasksOK(tasks, m, n)
    BY <1>1, <1>7 DEF TasksOK
  <2>2. QED BY <1>1, <1>6, <2>1 DEF MemInv
<1>9. TaskOK(t, m, n)
  <2>1. <<>> \in Seq(DOMAIN m) /\ <<>> \in Seq(Proposal)
    OBVIOUS
  <2>2. t.todo \in IF t.kind = "retrieve" THEN Seq(DOMAIN m) ELSE Seq(Proposal)
    BY <1>5, <2>1
  <2>3. QED BY <1>5, <1>6, <2>2 DEF TaskOK
<1>10. MemInv(m, c, n, files, tasks \cup {t}, written)
  <2>1. c \in Nat /\ c <= c /\ t.pc # "written" /\ ~(t.pc # "model") /\ \A u \in tasks : u.n # t.n
    BY <1>1, <1>5, <1>7
  <2>2. QED BY <1>8, <1>9, <2>1, TaskComes
<1>11. QED BY <1>2, <1>3, <1>4, <1>10 DEF StoreInv

\* A task that is not written goes, or goes on with what is left.
LEMMA OthersKeep ==
  ASSUME StoreInv, NEW t \in tasks, t.pc # "written"
  PROVE /\ MemInv(store.map, store.counter, store.begun, files, Others(t), written)
        /\ TaskOK(t, store.map, store.begun)
        /\ \A u \in Others(t) : u.n # t.n
<1>1. /\ MemInv(store.map, store.counter, store.begun, files, tasks, written)
      /\ TasksOK(tasks, store.map, store.begun)
  BY DEF StoreInv, MemInv
<1>2. MemInv(store.map, store.counter, store.begun, files, tasks \ {t}, written)
  BY <1>1, TaskGoes
<1>3. QED BY <1>1, <1>2 DEF Others, TasksOK

LEMMA UnwrittenGoesOn ==
  ASSUME StoreInv, NEW t \in tasks, t.pc # "written",
         NEW todo \in IF t.kind = "retrieve" THEN Seq(DOMAIN store.map) ELSE Seq(Proposal),
         GoesOn(t, todo, store.map), UNCHANGED <<files, written>>
  PROVE StoreInv'
<1> DEFINE m == store.map
<1>1. /\ store = [f \in {"map", "counter", "opens", "begun"} |-> store[f]]
      /\ files' = files /\ written' = written
  BY DEF StoreInv
<1>2. /\ MemInv(m, store.counter, store.begun, files, Others(t), written)
      /\ TaskOK(t, m, store.begun) /\ \A u \in Others(t) : u.n # t.n
  BY OthersKeep
<1>3. GoesOn(t, todo, m) /\ todo \in IF t.kind = "retrieve" THEN Seq(DOMAIN m) ELSE Seq(Proposal)
  OBVIOUS
<1> HIDE DEF m
<1>4. /\ t = [f \in {"n", "kind", "pc", "todo", "line"} |-> t[f]]
      /\ t.n \in 1 .. store.begun /\ t.kind \in {"extract", "retrieve"}
  BY <1>2 DEF TaskOK
<1>5. /\ store' = [f \in {"map", "counter", "opens", "begun"} |-> store'[f]]
      /\ MemInv(store'.map, store'.counter, store'.begun, files, tasks', written)
  BY <1>1, <1>2, <1>3, <1>4, TaskGoesOn
<1>6. QED BY <1>1, <1>5 DEF StoreInv

\* The model answers with what to touch or to write.
LEMMA AnswerKeeps ==
  ASSUME StoreInv, NEW t \in tasks, ModelAnswers(t) PROVE StoreInv'
<1>1. t.pc = "model" /\ UNCHANGED <<files, written>>
  BY DEF ModelAnswers
<1>2. PICK todo \in (IF t.kind = "retrieve" THEN Selections ELSE Proposals) : GoesOn(t, todo, store.map)
  BY DEF ModelAnswers
<1>3. /\ MapOK(store.map) /\ store.counter \in Nat
      /\ Counted(Known(store.map, files, tasks), store.counter)
  BY DEF StoreInv, MemInv
<1>4. DOMAIN store.map \subseteq 1 .. store.counter
  <2> SUFFICES ASSUME NEW i \in DOMAIN store.map PROVE i \in 1 .. store.counter
    OBVIOUS
  <2>1. store.map[i] \in Known(store.map, files, tasks)
    BY DEF Known
  <2>2. store.map[i].id = i /\ i \in Nat \ {0}
    BY <1>3 DEF MapOK, LiveLine
  <2>3. i <= store.counter
    BY <1>3, <2>1, <2>2 DEF Counted
  <2>4. QED BY <1>3, <2>2, <2>3
<1>5. IsFiniteSet(1 .. store.counter)
  BY <1>3, FS_Interval
<1>6. Selections \subseteq Seq(DOMAIN store.map)
  <2> SUFFICES ASSUME NEW q \in Selections PROVE q \in Seq(DOMAIN store.map)
    OBVIOUS
  <2>1. PICK ids \in SUBSET DOMAIN store.map : q \in SetToSeqs(ids)
    BY DEF Selections
  <2>2. ids \in SUBSET (1 .. store.counter)
    BY <1>4
  <2>3. IsFiniteSet(ids)
    BY <1>5, <2>2, FS_Subset
  <2>4. Cardinality(ids) \in Nat
    BY <2>3, FS_CardinalityType
  <2>5. q \in [1 .. Cardinality(ids) -> ids]
    BY <2>1 DEF SetToSeqs
  <2>6. QED BY <2>4, <2>5
<1>7. Proposals \subseteq Seq(Proposal)
  <2> SUFFICES ASSUME NEW q \in Proposals PROVE q \in Seq(Proposal)
    OBVIOUS
  <2>1. PICK n \in 0 .. MaxWrites : q \in [1 .. n -> Proposal]
    BY DEF Proposals, SeqOf, Proposal
  <2>2. n \in Nat
    BY MemoryBounds
  <2>3. QED BY <2>1, <2>2
<1>8. todo \in IF t.kind = "retrieve" THEN Seq(DOMAIN store.map) ELSE Seq(Proposal)
  BY <1>2, <1>6, <1>7
<1>9. QED BY <1>1, <1>2, <1>8, UnwrittenGoesOn

\* The model call or the write fails.
LEMMA FailureKeeps ==
  ASSUME StoreInv, NEW t \in tasks, TaskFails(t) PROVE StoreInv'
<1>1. t.pc # "written" /\ tasks' = Others(t) /\ store' = store /\ files' = files /\ written' = written
  BY DEF TaskFails
<1>2. MemInv(store.map, store.counter, store.begun, files, Others(t), written)
  BY <1>1, OthersKeep
<1>3. QED BY <1>1, <1>2 DEF StoreInv

\* The gate allows or refuses the write.
LEMMA GateKeeps ==
  ASSUME StoreInv, NEW t \in tasks, GateAnswers(t) PROVE StoreInv'
<1> DEFINE m == store.map
           c == store.counter
           b == store.begun
           u == [t EXCEPT !.pc = "ack"]
<1>1. t.pc = "gate" /\ files' = files /\ written' = written
  BY DEF GateAnswers
<1>2. /\ MemInv(m, c, b, files, Others(t), written) /\ TaskOK(t, m, b) /\ \A q \in Others(t) : q.n # t.n
  BY <1>1, OthersKeep
<1>3. CASE GoesOn(t, t.todo, store.map)
  <2>1. t.todo \in IF t.kind = "retrieve" THEN Seq(DOMAIN store.map) ELSE Seq(Proposal)
    BY <1>2 DEF TaskOK
  <2>2. UNCHANGED <<files, written>>
    BY <1>1
  <2> DEFINE todo == t.todo
  <2>3. todo \in IF t.kind = "retrieve" THEN Seq(DOMAIN store.map) ELSE Seq(Proposal)
    BY <2>1
  <2>4. GoesOn(t, todo, store.map)
    BY <1>3
  <2> HIDE DEF todo
  <2>5. QED BY <1>1, <2>2, <2>3, <2>4, UnwrittenGoesOn
<1>4. CASE tasks' = Others(t) \cup {u} /\ store' = store
  <2>1. /\ u = [f \in {"n", "kind", "pc", "todo", "line"} |-> u[f]]
        /\ u.n = t.n /\ u.kind = t.kind /\ u.pc = "ack" /\ u.todo = t.todo /\ u.line = t.line
    BY <1>2 DEF TaskOK
  <2>2. /\ c \in Nat /\ OneStory(Known(m, files, tasks)) /\ Counted(Known(m, files, tasks), c)
    BY DEF StoreInv, MemInv
  <2>3. t.line \in Known(m, files, tasks) /\ Known(m, files, Others(t)) \subseteq Known(m, files, tasks)
    BY <1>1 DEF Known, Others
  <2> HIDE DEF u, m, c, b
  <2>4. TaskOK(u, m, b)
    BY <1>1, <1>2, <2>1 DEF TaskOK
  <2>5. t.line.id <= c
    BY <2>2, <2>3 DEF Counted
  <2>6. \A x \in Known(m, files, Others(t)) : x.id = t.line.id => x.text = t.line.text /\ x.scope = t.line.scope
    BY <2>2, <2>3 DEF OneStory
  <2>7. MemInv(m, c, b, files, Others(t) \cup {u}, written)
    <3>1. u.pc # "written" /\ c <= c /\ \A q \in Others(t) : q.n # u.n
      BY <1>2, <2>1, <2>2
    <3>2. /\ u.line.id <= c
          /\ \A x \in Known(m, files, Others(t)) : x.id = u.line.id =>
               x.text = u.line.text /\ x.scope = u.line.scope
      BY <2>1, <2>5, <2>6
    <3>3. QED BY <1>2, <2>2, <2>4, <3>1, <3>2, TaskComes
  <2>8. store = [f \in {"map", "counter", "opens", "begun"} |-> store[f]]
    BY DEF StoreInv
  <2>9. QED BY <1>1, <1>4, <2>7, <2>8 DEF StoreInv, m, c, b
<1>5. QED BY <1>3, <1>4 DEF GateAnswers

\* The line is appended.
LEMMA AcknowledgeKeeps ==
  ASSUME StoreInv, NEW t \in tasks, Acknowledged(t) PROVE StoreInv'
<1> DEFINE u == [t EXCEPT !.pc = "written"]
           gs == files'
<1>1. /\ t.pc = "ack" /\ Appended(files, gs, t.line) /\ tasks' = (tasks \ {t}) \cup {u}
      /\ written' = Append(written, t.n) /\ store' = store
  BY DEF Acknowledged, Appended, Others
<1>2. /\ store = [f \in {"map", "counter", "opens", "begun"} |-> store[f]]
      /\ MemInv(store.map, store.counter, store.begun, files, tasks, written)
  BY DEF StoreInv
<1> HIDE DEF gs
<1>3. MemInv(store.map, store.counter, store.begun, gs, (tasks \ {t}) \cup {u}, Append(written, t.n))
  BY <1>1, <1>2, AppendKeeps
<1>4. QED BY <1>1, <1>2, <1>3 DEF StoreInv, gs

\* The map remembers the line.
LEMMA RememberedKeeps ==
  ASSUME StoreInv, NEW t \in tasks, Remembers(t) PROVE StoreInv'
<1> DEFINE m == store.map
           o == [i \in DOMAIN m \cup {t.line.id} |-> IF i = t.line.id THEN t.line ELSE m[i]]
           w == Tail(written)
           todo == t.todo
<1>1. /\ written # <<>> /\ t.n = Head(written) /\ written' = w /\ files' = files /\ GoesOn(t, todo, o)
  BY DEF Remembers
<1>2. /\ store = [f \in {"map", "counter", "opens", "begun"} |-> store[f]]
      /\ MemInv(m, store.counter, store.begun, files, tasks, written)
  BY DEF StoreInv
<1>3. t.pc = "written" /\ MemInv(o, store.counter, store.begun, files, tasks \ {t}, w)
  BY <1>1, <1>2, RememberKeeps
<1>4. TaskOK(t, m, store.begun) /\ \A u \in Others(t) : u.n # t.n
  BY <1>2 DEF MemInv, TasksOK, Others
<1>5. DOMAIN m \subseteq DOMAIN o
  OBVIOUS
<1> HIDE DEF o, w, m
<1>6. todo \in IF t.kind = "retrieve" THEN Seq(DOMAIN o) ELSE Seq(Proposal)
  BY <1>4, <1>5 DEF TaskOK
<1>7. /\ t = [f \in {"n", "kind", "pc", "todo", "line"} |-> t[f]]
      /\ t.n \in 1 .. store.begun /\ t.kind \in {"extract", "retrieve"}
  BY <1>4 DEF TaskOK
<1> HIDE DEF todo
<1>8. MemInv(o, store.counter, store.begun, files, Others(t), w)
  BY <1>3 DEF Others
<1>9. /\ store' = [f \in {"map", "counter", "opens", "begun"} |-> store'[f]]
      /\ MemInv(store'.map, store'.counter, store'.begun, files, tasks', w)
  BY <1>1, <1>2, <1>4, <1>6, <1>7, <1>8, TaskGoesOn
<1>10. QED BY <1>1, <1>9 DEF StoreInv

\* A new workspace has nothing to remember.
LEMMA FirstOpen == MemInit => StoreInv
<1> SUFFICES ASSUME MemInit PROVE StoreInv
  OBVIOUS
<1> DEFINE m == <<>>
           fs == [s \in Scopes |-> <<>>]
<1>1. /\ store = [map |-> m, counter |-> 0, opens |-> 1, begun |-> 0]
      /\ files = fs /\ tasks = {} /\ written = <<>>
  BY DEF MemInit
<1>2. /\ store = [f \in {"map", "counter", "opens", "begun"} |-> store[f]]
      /\ store.map = m /\ store.counter = 0 /\ store.begun = 0
  BY <1>1
<1>3. MapOK(m) /\ DOMAIN m = {}
  BY DEF MapOK
<1>4. fs = [s \in Scopes |-> fs[s]] /\ \A s \in Scopes : fs[s] = <<>>
  OBVIOUS
<1> HIDE DEF m, fs
<1>5. \A s \in Scopes : fs[s] \in Seq(LineType) /\ 1 .. Len(fs[s]) = {}
  <2>1. <<>> \in Seq(LineType)
    OBVIOUS
  <2>2. Len(<<>>) = 0 /\ 1 .. 0 = {}
    OBVIOUS
  <2>3. QED BY <1>4, <2>1, <2>2
<1>6. FilesOK(fs)
  BY <1>4, <1>5 DEF FilesOK
<1>7. Known(m, fs, {}) = {}
  BY <1>3, <1>5 DEF Known
<1>8. OneStory(Known(m, fs, {})) /\ Counted(Known(m, fs, {}), 0)
  BY <1>7 DEF OneStory, Counted
<1>9. TasksOK({}, m, 0) /\ WrittenOK({}, <<>>) /\ Pending({}) = {}
  BY DEF TasksOK, WrittenOK, Pending
<1>10. \A x \in LineType : ~IsLastLine(fs, x)
  BY <1>5 DEF IsLastLine, LineType
<1>11. FoldOK(m, fs, {}, <<>>)
  BY <1>3, <1>9, <1>10 DEF FoldOK
<1>12. MemInv(m, 0, 0, fs, {}, <<>>)
  BY <1>3, <1>6, <1>8, <1>9, <1>11 DEF MemInv
<1>13. QED BY <1>1, <1>2, <1>12 DEF StoreInv

\* No write between a file and the map: the map is the fold.
LEMMA FoldOnceWritten ==
  StoreInv => MapIsTheFold
<1> SUFFICES ASSUME StoreInv PROVE MapIsTheFold
  OBVIOUS
<1> DEFINE m == store.map
           c == store.counter
           lines == Lines
           map == Fold(lines)
<1>1. /\ MapOK(m) /\ c \in Nat /\ FilesOK(files) /\ TasksOK(tasks, m, store.begun) /\ WrittenOK(tasks, written)
      /\ OneStory(Known(m, files, tasks)) /\ Counted(Known(m, files, tasks), c)
      /\ FoldOK(m, files, tasks, written)
  BY DEF StoreInv, MemInv
<1>2. AreLines(files, lines)
  BY DEF AreLines, Lines
<1> HIDE DEF m, c, lines
<1>3. OneStory({lines[i] : i \in 1 .. Len(lines)}) /\ Counted({lines[i] : i \in 1 .. Len(lines)}, c)
  BY <1>1, <1>2, LinesKnown
<1>4. DOMAIN lines = 1 .. Len(lines)
  <2>1. lines \in Seq(LineType)
    BY <1>1, <1>2, LinesAre
  <2>2. QED BY <2>1
<1>5. OneTextPerId
  <2>1. \A i, j \in DOMAIN lines : lines[i].id = lines[j].id =>
          lines[i].text = lines[j].text /\ lines[i].scope = lines[j].scope
    BY <1>3, <1>4 DEF OneStory
  <2>2. QED BY <2>1 DEF OneTextPerId, lines
<1>6. /\ MapOK(map)
      /\ \A i \in DOMAIN map : IsLastLine(files, map[i])
      /\ \A x \in LineType : IsLastLine(files, x) /\ ~x.deleted => x.id \in DOMAIN map /\ map[x.id] = x
  BY <1>1, <1>2, <1>3, FoldIs
<1> HIDE DEF map
<1>7. LiveLine \subseteq LineType /\ \A x \in LiveLine : ~x.deleted
  BY DEF LiveLine, LineType
<1>8. ASSUME written = <<>> PROVE m = map
  <2>1. Pending(tasks) = {}
    BY <1>1, <1>8 DEF WrittenOK
  <2>2. \A i : NonePending(tasks, i)
    BY <2>1 DEF NonePending
  <2>3. ASSUME NEW i \in DOMAIN m PROVE i \in DOMAIN map /\ map[i] = m[i]
    <3>1. m[i] \in LiveLine /\ m[i].id = i
      BY <1>1 DEF MapOK
    <3>2. IsLastLine(files, m[i])
      BY <1>1, <2>2 DEF FoldOK
    <3> DEFINE x == m[i]
    <3>3. x \in LineType /\ ~x.deleted /\ x.id = i /\ IsLastLine(files, x)
      BY <1>7, <3>1, <3>2
    <3> HIDE DEF x
    <3>4. x.id \in DOMAIN map /\ map[x.id] = x
      BY <1>6, <3>3
    <3>5. QED BY <3>3, <3>4 DEF x
  <2>4. ASSUME NEW i \in DOMAIN map PROVE i \in DOMAIN m
    <3> DEFINE x == map[i]
    <3>1. x \in LiveLine /\ x.id = i /\ IsLastLine(files, x)
      BY <1>6 DEF MapOK
    <3> HIDE DEF x
    <3>2. x \in LineType /\ ~x.deleted
      BY <1>7, <3>1
    <3>3. x.id \in DOMAIN m
      BY <1>1, <2>2, <3>1, <3>2 DEF FoldOK
    <3>4. QED BY <3>1, <3>3
  <2>5. m = [i \in DOMAIN m |-> m[i]] /\ map = [i \in DOMAIN map |-> map[i]]
    BY <1>1, <1>6 DEF MapOK
  <2>6. DOMAIN m = DOMAIN map /\ \A i \in DOMAIN m : m[i] = map[i]
    BY <2>3, <2>4
  <2>7. QED BY <2>5, <2>6
<1>9. QED BY <1>5, <1>8 DEF MapIsTheFold, m, map, lines

\* What the map says of an id is what its file says last of it, unless a write
\* of the id is between the file and the map, and then the newest of them is what
\* the file says; every id that is anywhere is counted and has one text and one file.
THEOREM StoreIsSound == MemSpec => []StoreInv
<1>1. StoreInv /\ [MemNext]_memVars => StoreInv'
  <2> SUFFICES ASSUME StoreInv, [MemNext]_memVars PROVE StoreInv'
    OBVIOUS
  <2>1. CASE UNCHANGED memVars
    BY <2>1 DEF memVars, StoreInv
  <2>2. CASE ExtractAtTurnEnd
    BY <2>2, BeginKeeps DEF ExtractAtTurnEnd
  <2>3. CASE OnPromptCopy
    BY <2>3, BeginKeeps DEF OnPromptCopy
  <2>4. ASSUME NEW t \in tasks, ModelAnswers(t) \/ TaskFails(t) \/ GateAnswers(t) \/ Acknowledged(t) \/ Remembers(t)
        PROVE StoreInv'
    BY <2>4, AnswerKeeps, FailureKeeps, GateKeeps, AcknowledgeKeeps, RememberedKeeps
  <2>5. CASE Restart
    <3>1. PICK old \in SUBSET IdsOf(Lines) : Open(old, store.opens + 1)
      BY <2>5 DEF Restart
    <3>2. tasks' = {} /\ written' = <<>>
      BY <2>5 DEF Restart
    <3> DEFINE opens == store.opens + 1
    <3>3. Open(old, opens)
      BY <3>1
    <3> HIDE DEF opens
    <3>4. QED BY <3>2, <3>3, Reopened
  <2>6. QED BY <2>1, <2>2, <2>3, <2>4, <2>5 DEF MemNext
<1>2. QED BY <1>1, FirstOpen, PTL DEF MemSpec

\* Whatever extractions and retrievals write at once, whatever the gate, the
\* lock or a halt refuse, and however often the store is opened again: an id
\* stands for one text of one file, and a Supervisor with no write under way
\* remembers exactly what a restarted one would read.
THEOREM MemoryIsTheFold == MemSpec => []MapIsTheFold
BY StoreIsSound, FoldOnceWritten, PTL

(***************************************************************************)
(* The session file: what its projection is after one more event.          *)
(***************************************************************************)
EventKinds == {"user_message", "text_delta", "tool_call_requested", "tool_call_finished",
               "turn_finished", "checkpoint_created"}
LogEvents == [type : EventKinds, id : Nat]

\* p is the projection after each of the events.
ProjectedBy(events, p) ==
  /\ p[0] = NoMessages
  /\ \A n \in 1 .. Len(events) : p[n] = ProjectionStep(p[n - 1], events[n])

\* There is a projection.
LEMMA ProjectionExists ==
  ASSUME NEW events \in Seq(LogEvents)
  PROVE \E p : ProjectedBy(events, p) /\ Projected(events) = p[Len(events)]
<1> DEFINE size == Len(events)
           Is(g, n) == IF n = 0 THEN NoMessages ELSE ProjectionStep(g[n - 1], events[n])
           Marks(g, k) == g = [n \in 0 .. k |-> Is(g, n)]
           S == {k \in Nat : \E g : Marks(g, k)}
           f == CHOOSE g : Marks(g, size)
<1>1. Projected(events) = f[size]
  BY DEF Projected
<1>2. size \in Nat
  OBVIOUS
<1> HIDE DEF size
<1>3. 0 \in S
  <2> DEFINE g == [n \in 0 .. 0 |-> NoMessages]
  <2>1. Marks(g, 0)
    OBVIOUS
  <2>2. QED BY <2>1
<1>4. ASSUME NEW k \in Nat, k \in S PROVE k + 1 \in S
  <2>1. PICK h : Marks(h, k)
    BY <1>4
  <2> DEFINE last == ProjectionStep(h[k], events[k + 1])
  <2> HIDE DEF Marks
  <2> DEFINE g == [n \in 0 .. (k + 1) |-> IF n <= k THEN h[n] ELSE last]
  <2>2. \A n \in 0 .. k : h[n] = Is(h, n)
    BY <2>1 DEF Marks
  <2> HIDE DEF last
  <2>3. \A n \in 0 .. (k + 1) : g[n] = IF n <= k THEN h[n] ELSE last
    OBVIOUS
  <2>4. g = [n \in 0 .. (k + 1) |-> g[n]]
    OBVIOUS
  <2> HIDE DEF g
  <2>5. ASSUME NEW n \in 0 .. (k + 1) PROVE g[n] = Is(g, n)
    <3>1. CASE n <= k
      <4>1. n \in 0 .. k /\ (n # 0 => n - 1 \in 0 .. (k + 1) /\ n - 1 <= k)
        BY <3>1
      <4>2. g[n] = h[n] /\ (n # 0 => g[n - 1] = h[n - 1])
        BY <2>3, <3>1, <4>1
      <4>3. QED BY <2>2, <4>1, <4>2
    <3>2. CASE ~(n <= k)
      <4>1. n = k + 1 /\ n # 0 /\ n - 1 = k /\ k \in 0 .. (k + 1) /\ k <= k
        BY <3>2
      <4>2. g[n] = last /\ g[n - 1] = h[k]
        BY <2>3, <3>2, <4>1
      <4>3. QED BY <4>1, <4>2 DEF last
    <3>3. QED BY <3>1, <3>2
  <2> HIDE DEF Is
  <2>6. Marks(g, k + 1)
    BY <2>4, <2>5 DEF Marks
  <2>7. QED BY <2>6
<1>5. size \in S
  <2> HIDE DEF S
  <2>1. QED BY <1>2, <1>3, <1>4, NaturalInduction
<1>6. Marks(f, size)
  <2>1. \E g : Marks(g, size)
    BY <1>5
  <2> HIDE DEF Marks
  <2>2. QED BY <2>1
<1> HIDE DEF f
<1>7. \A n \in 0 .. size : f[n] = Is(f, n)
  <2> HIDE DEF Is
  <2>1. QED BY <1>6
<1>8. f[0] = NoMessages /\ \A n \in 1 .. size : f[n] = ProjectionStep(f[n - 1], events[n])
  <2>1. 0 \in 0 .. size /\ \A n \in 1 .. size : n \in 0 .. size /\ n # 0
    BY <1>2
  <2>2. QED BY <1>7, <2>1
<1>9. ProjectedBy(events, f)
  BY <1>8 DEF ProjectedBy, size
<1>10. QED BY <1>1, <1>9 DEF size

\* Two sequences of events that begin alike are projected alike.
LEMMA ProjectionIsOne ==
  ASSUME NEW m \in Nat, NEW u, NEW v, m <= Len(u), m <= Len(v), Len(u) \in Nat, Len(v) \in Nat,
         \A i \in 1 .. m : u[i] = v[i], NEW p, NEW q, ProjectedBy(u, p), ProjectedBy(v, q)
  PROVE p[m] = q[m]
<1> DEFINE S == {n \in Nat : n <= m => p[n] = q[n]}
<1>1. 0 \in S
  BY DEF ProjectedBy
<1>2. ASSUME NEW n \in Nat, n \in S PROVE n + 1 \in S
  <2> SUFFICES ASSUME n + 1 <= m PROVE p[n + 1] = q[n + 1]
    OBVIOUS
  <2>1. n + 1 \in 1 .. Len(u) /\ n + 1 \in 1 .. Len(v) /\ n + 1 \in 1 .. m /\ (n + 1) - 1 = n
    OBVIOUS
  <2>2. /\ p[n + 1] = ProjectionStep(p[(n + 1) - 1], u[n + 1])
        /\ q[n + 1] = ProjectionStep(q[(n + 1) - 1], v[n + 1])
    BY <2>1 DEF ProjectedBy
  <2>3. p[n] = q[n] /\ u[n + 1] = v[n + 1]
    BY <1>2, <2>1
  <2>4. QED BY <2>1, <2>2, <2>3
<1> HIDE DEF S
<1>3. m \in S
  BY <1>1, <1>2, NaturalInduction
<1>4. QED BY <1>3 DEF S

\* The projection goes on with one more event.
LEMMA ProjectedOneByOne ==
  /\ Projected(<<>>) = NoMessages
  /\ \A events \in Seq(LogEvents) : \A e \in LogEvents :
       Projected(Append(events, e)) = ProjectionStep(Projected(events), e)
<1>1. Projected(<<>>) = NoMessages
  <2>1. <<>> \in Seq(LogEvents) /\ Len(<<>>) = 0
    OBVIOUS
  <2>2. PICK p : ProjectedBy(<<>>, p) /\ Projected(<<>>) = p[Len(<<>>)]
    BY <2>1, ProjectionExists
  <2>3. QED BY <2>1, <2>2 DEF ProjectedBy
<1>2. ASSUME NEW u \in Seq(LogEvents), NEW e \in LogEvents
      PROVE Projected(Append(u, e)) = ProjectionStep(Projected(u), e)
  <2> DEFINE v == Append(u, e)
             m == Len(u)
  <2>1. v \in Seq(LogEvents) /\ Len(v) = m + 1 /\ m \in Nat /\ v[m + 1] = e
    OBVIOUS
  <2>2. \A i \in 1 .. m : u[i] = v[i]
    OBVIOUS
  <2> HIDE DEF v
  <2>3. PICK p : ProjectedBy(u, p) /\ Projected(u) = p[m]
    BY ProjectionExists
  <2>4. PICK q : ProjectedBy(v, q) /\ Projected(v) = q[Len(v)]
    BY <2>1, ProjectionExists
  <2>5. p[m] = q[m]
    <3>1. m <= Len(u) /\ m <= Len(v) /\ Len(u) \in Nat /\ Len(v) \in Nat
      BY <2>1
    <3> HIDE DEF m
    <3>2. QED BY <2>1, <2>2, <2>3, <2>4, <3>1, ProjectionIsOne
  <2>6. q[m + 1] = ProjectionStep(q[m], e)
    <3>1. m + 1 \in 1 .. Len(v) /\ (m + 1) - 1 = m
      BY <2>1
    <3>2. q[m + 1] = ProjectionStep(q[(m + 1) - 1], v[m + 1])
      BY <2>4, <3>1 DEF ProjectedBy
    <3>3. QED BY <2>1, <3>1, <3>2
  <2>7. QED BY <2>1, <2>3, <2>4, <2>5, <2>6 DEF v
<1>3. QED BY <1>1, <1>2

\* The ids that one more event adds.
LEMMA LoggedOneByOne ==
  ASSUME NEW events \in Seq(LogEvents), NEW e \in LogEvents, NEW type
  PROVE /\ LoggedIds(Append(events, e), type) =
             LoggedIds(events, type) \cup (IF e.type = type THEN {e.id} ELSE {})
        /\ LoggedIds(events, type) \subseteq Nat
        /\ LoggedIds(<<>>, type) = {}
<1> DEFINE v == Append(events, e)
           m == Len(events)
<1>1. /\ m \in Nat /\ Len(v) = m + 1 /\ DOMAIN v = 1 .. m + 1 /\ DOMAIN events = 1 .. m /\ v[m + 1] = e
  OBVIOUS
<1>2. \A i \in 1 .. m : v[i] = events[i] /\ events[i] \in LogEvents
  OBVIOUS
<1> HIDE DEF v, m
<1>3. ASSUME NEW x
      PROVE x \in LoggedIds(v, type) <=> x \in LoggedIds(events, type) \/ (e.type = type /\ x = e.id)
  <2>1. x \in LoggedIds(v, type) <=> \E i \in 1 .. m + 1 : v[i].type = type /\ x = v[i].id
    BY <1>1 DEF LoggedIds
  <2>2. x \in LoggedIds(events, type) <=> \E i \in 1 .. m : events[i].type = type /\ x = events[i].id
    BY <1>1 DEF LoggedIds
  <2>3. \A i : i \in 1 .. m + 1 <=> i \in 1 .. m \/ i = m + 1
    BY <1>1
  <2>4. QED BY <1>1, <1>2, <2>1, <2>2, <2>3
<1>4. LoggedIds(v, type) = LoggedIds(events, type) \cup (IF e.type = type THEN {e.id} ELSE {})
  BY <1>3
<1>5. LoggedIds(events, type) \subseteq Nat
  BY <1>1, <1>2 DEF LoggedIds, LogEvents
<1>6. LoggedIds(<<>>, type) = {}
  BY DEF LoggedIds
<1>7. QED BY <1>4, <1>5, <1>6 DEF v

(***************************************************************************)
(* What holds of the projection after every event: m are its messages, b   *)
(* is where the turn that is not over began, p the pending message; R and F *)
(* the ids of the requested and the finished calls, c whether there is a   *)
(* checkpoint.                                                             *)
(***************************************************************************)
StoryMessages ==
  [role : {"user", "checkpoint", "assistant", "tool"}, calls : Seq(Nat), id : Nat, text : BOOLEAN]

StoryType(m, b, p) ==
  /\ m \in Seq(StoryMessages) /\ b \in -1 .. Len(m)
  /\ p \in [open : BOOLEAN, text : BOOLEAN, calls : Seq(Nat), at : -1 .. Len(m)]
  /\ ~p.open => p.at = 0

\* A result has its call in front of it with only results between, or a beginning
\* of checkpoints and results.
Paired(m, i) ==
  \/ \E j \in 1 .. i - 1 : m[i].id \in ToSet(m[j].calls) /\ AllResults(m, j + 1, i)
  \/ Leading(m, i)

ResultsOK(m, F) ==
  \A i \in Results(m) :
    /\ m[i].id \in F /\ Paired(m, i)
    /\ \A k \in Results(m) : m[k].id = m[i].id => k = i

\* Behind the pending message, where it is pushed, there are results only.
PendOK(m, p, R, F) ==
  p.open =>
    /\ p.at = 0 => ToSet(p.calls) \subseteq R \ F
    /\ p.at > 0 => AllResults(m, p.at + 1, Len(m))
    /\ p.at = -1 => m # <<>> /\ Leading(m, Len(m))

\* One call at most is open; the pending message has it, or a checkpoint cut it.
OpenOK(m, b, p, R, F) ==
  \A x \in R \ F :
    /\ b >= 0 /\ p.open /\ \A y \in R \ F : y = x
    /\ p.at = 0 => x \in ToSet(p.calls)
    /\ p.at > 0 => x \in ToSet(m[p.at].calls)

AnsweredAt(m, b, i, id) ==
  \E k \in Results(m) : k > i /\ m[k].id = id /\ AllResults(m, i + 1, k) /\ (i <= b => k <= b)

AnsweredOK(m, b, p, R, F) ==
  /\ p.at > 0 => p.at > b
  /\ \A i \in DOMAIN m : \A id \in ToSet(m[i].calls) :
       id \in R /\ (id \notin F => i = p.at) /\ (id \in F => AnsweredAt(m, b, i, id))

StoryOf(m, b, p, R, F, c) ==
  /\ StoryType(m, b, p) /\ F \subseteq R
  /\ ResultsOK(m, F) /\ PendOK(m, p, R, F) /\ OpenOK(m, b, p, R, F)
  /\ ~c => AnsweredOK(m, b, p, R, F)

Story(s, R, F, c) ==
  /\ s = [msgs |-> s.msgs, start |-> s.start, pend |-> s.pend]
  /\ StoryOf(s.msgs, s.start, s.pend, R, F, c)

\* w is m with one more message.
Longer(m, w, g) ==
  /\ w \in Seq(StoryMessages) /\ Len(w) = Len(m) + 1 /\ w[Len(m) + 1] = g
  /\ \A i \in 1 .. Len(m) : w[i] = m[i]

LEMMA AppendedIsLonger ==
  ASSUME NEW m \in Seq(StoryMessages), NEW g \in StoryMessages PROVE Longer(m, Append(m, g), g)
BY DEF Longer

\* The elements of a sequence that has one more.
LEMMA OneMoreElement ==
  ASSUME NEW q \in Seq(Nat), NEW x \in Nat PROVE ToSet(Append(q, x)) = ToSet(q) \cup {x}
<1>1. /\ Len(q) \in Nat /\ DOMAIN q = 1 .. Len(q) /\ DOMAIN Append(q, x) = 1 .. Len(q) + 1
      /\ Append(q, x)[Len(q) + 1] = x
  OBVIOUS
<1>2. \A i \in 1 .. Len(q) : Append(q, x)[i] = q[i]
  OBVIOUS
<1>3. \A i : i \in 1 .. Len(q) + 1 <=> i \in 1 .. Len(q) \/ i = Len(q) + 1
  BY <1>1
<1> DEFINE v == Append(q, x)
<1> HIDE DEF v
<1>4. ToSet(v) = {v[i] : i \in 1 .. Len(q) + 1} /\ ToSet(q) = {q[i] : i \in 1 .. Len(q)}
  BY <1>1 DEF ToSet, v
<1>5. ToSet(v) = ToSet(q) \cup {x}
  BY <1>1, <1>2, <1>3, <1>4 DEF v
<1>6. QED BY <1>5 DEF v

\* What one more message leaves as it was.
LEMMA LongerKeeps ==
  ASSUME NEW m \in Seq(StoryMessages), NEW w, NEW g, Longer(m, w, g)
  PROVE /\ Len(m) \in Nat /\ DOMAIN m = 1 .. Len(m) /\ DOMAIN w = 1 .. Len(m) + 1
        /\ \A i \in 1 .. Len(m) : i \in Results(w) <=> i \in Results(m)
        /\ Len(m) + 1 \in Results(w) <=> g.role = "tool"
        /\ \A i \in 1 .. Len(m) : Leading(m, i) => Leading(w, i)
        /\ \A i \in 1 .. Len(m) : \A j \in 1 .. i : AllResults(m, j + 1, i) => AllResults(w, j + 1, i)
        /\ \A i \in 1 .. Len(m) : Paired(m, i) => Paired(w, i)
        /\ \A b, i, id : i \in 1 .. Len(m) /\ AnsweredAt(m, b, i, id) => AnsweredAt(w, b, i, id)
<1>1. Len(m) \in Nat /\ DOMAIN m = 1 .. Len(m) /\ DOMAIN w = 1 .. Len(m) + 1
  BY DEF Longer
<1>2. \A i \in 1 .. Len(m) : w[i] = m[i] /\ i \in 1 .. Len(m) + 1
  BY <1>1 DEF Longer
<1>3. \A i \in 1 .. Len(m) : i \in Results(w) <=> i \in Results(m)
  BY <1>1, <1>2 DEF Results
<1>4. Len(m) + 1 \in Results(w) <=> g.role = "tool"
  BY <1>1 DEF Results, Longer
<1>5. ASSUME NEW i \in 1 .. Len(m), Leading(m, i) PROVE Leading(w, i)
  <2>1. 1 \in 1 .. Len(m) /\ \A j \in 1 .. i : j \in 1 .. Len(m)
    BY <1>1
  <2>2. QED BY <1>2, <1>5, <2>1 DEF Leading
<1>6. ASSUME NEW i \in 1 .. Len(m), NEW j \in 1 .. i, AllResults(m, j + 1, i) PROVE AllResults(w, j + 1, i)
  <2>1. \A l \in j + 1 .. i : l \in 1 .. Len(m)
    BY <1>1
  <2>2. QED BY <1>2, <1>6, <2>1 DEF AllResults
<1>7. ASSUME NEW i \in 1 .. Len(m), Paired(m, i) PROVE Paired(w, i)
  <2>1. CASE Leading(m, i)
    BY <1>5, <2>1 DEF Paired
  <2>2. CASE \E j \in 1 .. i - 1 : m[i].id \in ToSet(m[j].calls) /\ AllResults(m, j + 1, i)
    <3>1. PICK j \in 1 .. i - 1 : m[i].id \in ToSet(m[j].calls) /\ AllResults(m, j + 1, i)
      BY <2>2
    <3>2. j \in 1 .. Len(m) /\ j \in 1 .. i
      BY <1>1
    <3>3. w[i] = m[i] /\ w[j] = m[j] /\ AllResults(w, j + 1, i)
      BY <1>2, <1>6, <3>1, <3>2
    <3>4. QED BY <3>1, <3>3 DEF Paired
  <2>3. QED BY <1>7, <2>1, <2>2 DEF Paired
<1>8. ASSUME NEW b, NEW i \in 1 .. Len(m), NEW id, AnsweredAt(m, b, i, id) PROVE AnsweredAt(w, b, i, id)
  <2>1. PICK k \in Results(m) : k > i /\ m[k].id = id /\ AllResults(m, i + 1, k) /\ (i <= b => k <= b)
    BY <1>8 DEF AnsweredAt
  <2>2. k \in 1 .. Len(m)
    BY <1>1 DEF Results
  <2>3. k \in Results(w) /\ w[k] = m[k]
    BY <1>2, <1>3, <2>2
  <2>4. AllResults(w, i + 1, k)
    <3>1. i \in 1 .. k
      BY <2>1, <2>2
    <3>2. QED BY <1>6, <2>1, <2>2, <3>1
  <2>5. QED BY <2>1, <2>3, <2>4 DEF AnsweredAt
<1>9. QED BY <1>1, <1>3, <1>4, <1>5, <1>6, <1>7, <1>8

\* One more message that is no result.
LEMMA NoResultKeeps ==
  ASSUME NEW m \in Seq(StoryMessages), NEW w, NEW g, Longer(m, w, g), g.role # "tool", NEW F, ResultsOK(m, F)
  PROVE ResultsOK(w, F)
<1>1. ASSUME NEW i \in Results(w) PROVE i \in 1 .. Len(m) /\ i \in Results(m) /\ w[i] = m[i]
  <2>1. i \in 1 .. Len(m) + 1 /\ i # Len(m) + 1
    BY LongerKeeps DEF Results
  <2>2. i \in 1 .. Len(m)
    BY <2>1
  <2>3. QED BY <2>2, LongerKeeps DEF Longer
<1>2. ASSUME NEW i \in Results(w)
      PROVE /\ w[i].id \in F /\ Paired(w, i)
            /\ \A k \in Results(w) : w[k].id = w[i].id => k = i
  <2>1. i \in 1 .. Len(m) /\ i \in Results(m) /\ w[i] = m[i]
    BY <1>1
  <2>2. m[i].id \in F /\ Paired(m, i) /\ \A k \in Results(m) : m[k].id = m[i].id => k = i
    BY <2>1 DEF ResultsOK
  <2>3. Paired(w, i)
    BY <2>1, <2>2, LongerKeeps
  <2>4. QED BY <1>1, <2>1, <2>2, <2>3
<1>3. QED BY <1>2 DEF ResultsOK

\* One more result, of a call that has none.
LEMMA ResultKeeps ==
  ASSUME NEW m \in Seq(StoryMessages), NEW w, NEW g, Longer(m, w, g), g.role = "tool", NEW F, ResultsOK(m, F),
         g.id \notin F,
         \/ \E j \in 1 .. Len(m) : g.id \in ToSet(m[j].calls) /\ AllResults(m, j + 1, Len(m))
         \/ m # <<>> /\ Leading(m, Len(m))
  PROVE ResultsOK(w, F \cup {g.id})
<1> DEFINE n == Len(m) + 1
<1>1. Len(m) \in Nat /\ w[n] = g /\ n \in Results(w) /\ n \in Nat
  BY LongerKeeps DEF Longer
<1>2. ASSUME NEW i \in Results(w), i # n PROVE i \in 1 .. Len(m) /\ i \in Results(m) /\ w[i] = m[i]
  <2>1. i \in 1 .. Len(m) + 1
    BY LongerKeeps DEF Results
  <2>2. i \in 1 .. Len(m)
    BY <1>1, <1>2, <2>1
  <2>3. QED BY <2>2, LongerKeeps DEF Longer
<1>3. Paired(w, n)
  <2>1. CASE \E j \in 1 .. Len(m) : g.id \in ToSet(m[j].calls) /\ AllResults(m, j + 1, Len(m))
    <3>1. PICK j \in 1 .. Len(m) : g.id \in ToSet(m[j].calls) /\ AllResults(m, j + 1, Len(m))
      BY <2>1
    <3>2. Len(m) \in 1 .. Len(m) /\ j \in 1 .. Len(m) /\ j \in 1 .. n - 1
      BY <1>1
    <3>3. AllResults(w, j + 1, Len(m)) /\ w[j] = m[j]
      BY <3>1, <3>2, LongerKeeps DEF Longer
    <3>4. \A l \in j + 1 .. n : l \in j + 1 .. Len(m) \/ l = n
      BY <1>1
    <3>5. AllResults(w, j + 1, n)
      BY <1>1, <3>3, <3>4 DEF AllResults
    <3> HIDE DEF n
    <3>6. QED BY <1>1, <3>1, <3>2, <3>3, <3>5 DEF Paired
  <2>2. CASE m # <<>> /\ Leading(m, Len(m))
    <3>1. Len(m) \in 1 .. Len(m)
      BY <1>1, <2>2
    <3>2. Leading(w, Len(m))
      BY <2>2, <3>1, LongerKeeps
    <3>3. \A l \in 1 .. n : l \in 1 .. Len(m) \/ l = n
      BY <1>1
    <3>4. Leading(w, n)
      BY <1>1, <3>2, <3>3 DEF Leading
    <3>5. QED BY <3>4 DEF Paired
  <2>3. QED BY <2>1, <2>2
<1> HIDE DEF n
<1>4. ASSUME NEW i \in Results(w)
      PROVE /\ w[i].id \in F \cup {g.id} /\ Paired(w, i)
            /\ \A k \in Results(w) : w[k].id = w[i].id => k = i
  <2>1. ASSUME NEW k \in Results(w), k # n PROVE w[k].id \in F /\ Paired(w, k)
    <3>1. k \in 1 .. Len(m) /\ k \in Results(m) /\ w[k] = m[k]
      BY <1>2, <2>1
    <3>2. m[k].id \in F /\ Paired(m, k)
      BY <3>1 DEF ResultsOK
    <3>3. QED BY <3>1, <3>2, LongerKeeps
  <2>2. ASSUME NEW k \in Results(w), w[k].id = w[i].id PROVE k = i
    <3>1. CASE i = n \/ k = n
      BY <1>1, <2>1, <2>2, <3>1
    <3>2. CASE i # n /\ k # n
      <4>1. i \in Results(m) /\ k \in Results(m) /\ m[k].id = m[i].id
        BY <1>2, <2>2, <3>2
      <4>2. QED BY <4>1 DEF ResultsOK
    <3>3. QED BY <3>1, <3>2
  <2>3. w[i].id \in F \cup {g.id} /\ Paired(w, i)
    BY <1>1, <1>3, <2>1
  <2>4. QED BY <2>2, <2>3
<1>5. QED BY <1>4 DEF ResultsOK

\* The pending message is pushed.
LEMMA PushKeeps ==
  ASSUME NEW m, NEW b, NEW p, NEW R, NEW F, NEW c, StoryOf(m, b, p, R, F, c), p.open, p.at = 0
  PROVE StoryOf(Append(m, Assistant(p.calls, p.text)), b, [p EXCEPT !.at = Len(m) + 1], R, F, c)
<1> DEFINE g == Assistant(p.calls, p.text)
           w == Append(m, g)
           n == Len(m) + 1
           q == [p EXCEPT !.at = n]
<1>1. /\ m \in Seq(StoryMessages) /\ b \in -1 .. Len(m) /\ Len(m) \in Nat
      /\ p \in [open : BOOLEAN, text : BOOLEAN, calls : Seq(Nat), at : -1 .. Len(m)]
      /\ F \subseteq R /\ ResultsOK(m, F) /\ PendOK(m, p, R, F) /\ OpenOK(m, b, p, R, F)
      /\ ~c => AnsweredOK(m, b, p, R, F)
  BY DEF StoryOf, StoryType
<1>2. g \in StoryMessages /\ g.role = "assistant" /\ g.calls = p.calls
  BY <1>1 DEF Assistant, Message, StoryMessages
<1> HIDE DEF g
<1>3. Longer(m, w, g)
  BY <1>1, <1>2, AppendedIsLonger
<1>4. /\ q \in [open : BOOLEAN, text : BOOLEAN, calls : Seq(Nat), at : -1 .. n]
      /\ q.open /\ q.at = n /\ q.calls = p.calls /\ n > 0 /\ n \in Nat
  BY <1>1
<1> HIDE DEF w, q
<1>5. w \in Seq(StoryMessages) /\ Len(w) = n /\ w[n] = g
  BY <1>3 DEF Longer
<1>6. StoryType(w, b, q)
  <2>1. b \in -1 .. n
    BY <1>1
  <2>2. QED BY <1>4, <1>5, <2>1 DEF StoryType
<1>7. ResultsOK(w, F)
  <2>1. g.role # "tool"
    BY <1>2
  <2>2. QED BY <1>1, <1>3, <2>1, NoResultKeeps
<1>8. PendOK(w, q, R, F)
  <2>1. q.at # 0 /\ q.at # -1
    BY <1>4
  <2>2. AllResults(w, q.at + 1, Len(w))
    BY <1>4, <1>5 DEF AllResults
  <2>3. QED BY <2>1, <2>2 DEF PendOK
<1>9. ToSet(p.calls) \subseteq R \ F
  BY <1>1 DEF PendOK
<1>10. OpenOK(w, b, q, R, F)
  <2>1. \A x \in R \ F : b >= 0 /\ (\A y \in R \ F : y = x) /\ x \in ToSet(p.calls)
    BY <1>1 DEF OpenOK
  <2>2. w[q.at].calls = p.calls /\ q.at # 0
    BY <1>2, <1>4, <1>5
  <2>3. QED BY <1>4, <2>1, <2>2 DEF OpenOK
<1>11. ASSUME ~c PROVE AnsweredOK(w, b, q, R, F)
  <2>1. q.at > b
    BY <1>1, <1>4
  <2>2. ASSUME NEW i \in DOMAIN w, NEW id \in ToSet(w[i].calls)
        PROVE id \in R /\ (id \notin F => i = n) /\ (id \in F => AnsweredAt(w, b, i, id))
    <3>1. CASE i = n
      BY <1>2, <1>5, <1>9, <2>2, <3>1
    <3>2. CASE i # n
      <4>1. i \in 1 .. Len(m) /\ i \in DOMAIN m /\ w[i] = m[i]
        <5>1. i \in 1 .. Len(m) + 1
          BY <1>1, <1>3, LongerKeeps
        <5>2. i \in 1 .. Len(m)
          BY <1>1, <3>2, <5>1
        <5>3. QED BY <1>1, <1>3, <5>2, LongerKeeps DEF Longer
      <4>2. id \in R /\ (id \notin F => i = p.at) /\ (id \in F => AnsweredAt(m, b, i, id))
        BY <1>1, <1>11, <2>2, <4>1 DEF AnsweredOK
      <4>3. i # p.at
        BY <4>1
      <4>4. QED BY <1>1, <1>3, <4>1, <4>2, <4>3, LongerKeeps
    <3>3. QED BY <3>1, <3>2
  <2>3. QED BY <1>4, <2>1, <2>2 DEF AnsweredOK
<1>12. StoryOf(w, b, q, R, F, c)
  BY <1>1, <1>6, <1>7, <1>8, <1>10, <1>11 DEF StoryOf
<1>13. QED BY <1>12 DEF w, q, g

\* Nothing is left to push.
Settled(p) == p.open /\ p.at = 0 => p.calls = <<>> /\ ~p.text

LEMMA FlushKeeps ==
  ASSUME NEW s, NEW R, NEW F, NEW c, Story(s, R, F, c)
  PROVE /\ Story(Flushed(s), R, F, c) /\ Flushed(s).start = s.start
        /\ Flushed(s).pend.open = s.pend.open /\ Settled(Flushed(s).pend)
<1> DEFINE m == s.msgs
           b == s.start
           p == s.pend
           w == Append(m, Assistant(p.calls, p.text))
           q == [p EXCEPT !.at = Len(m) + 1]
<1>1. s = [msgs |-> m, start |-> b, pend |-> p] /\ StoryOf(m, b, p, R, F, c)
  BY DEF Story
<1>2. p \in [open : BOOLEAN, text : BOOLEAN, calls : Seq(Nat), at : -1 .. Len(m)] /\ Len(m) \in Nat
  BY <1>1 DEF StoryOf, StoryType
<1>3. CASE p.open /\ p.at = 0 /\ (p.text \/ p.calls # <<>>)
  <2>1. Flushed(s) = [msgs |-> w, start |-> b, pend |-> q]
    <3>1. Flushed(s) = [s EXCEPT !.msgs = w, !.pend.at = Len(m) + 1]
      BY <1>3 DEF Flushed, Pushed
    <3> HIDE DEF w
    <3>2. QED BY <1>1, <3>1
  <2>2. StoryOf(w, b, q, R, F, c)
    BY <1>1, <1>3, PushKeeps
  <2>3. q.open = p.open /\ q.at # 0
    BY <1>2
  <2> HIDE DEF w, q
  <2>4. QED BY <2>1, <2>2, <2>3 DEF Story, Settled
<1>4. CASE ~(p.open /\ p.at = 0 /\ (p.text \/ p.calls # <<>>))
  <2>1. Flushed(s) = s
    BY <1>4 DEF Flushed, Pushed
  <2>2. Settled(p)
    BY <1>4 DEF Settled
  <2>3. QED BY <2>1, <2>2
<1>5. QED BY <1>3, <1>4

\* Where no call is open, a pending message that is not pushed has none.
LEMMA NothingPending ==
  ASSUME NEW m, NEW b, NEW p, NEW R, NEW c, StoryOf(m, b, p, R, R, c)
  PROVE p.open /\ p.at = 0 => p.calls = <<>>
<1>1. ASSUME p.open, p.at = 0 PROVE p.calls = <<>>
  <2>1. p.calls \in Seq(Nat) /\ ToSet(p.calls) = {}
    BY <1>1 DEF StoryOf, StoryType, PendOK
  <2>2. p.calls # <<>> => 1 \in DOMAIN p.calls
    BY <2>1
  <2>3. QED BY <2>1, <2>2 DEF ToSet
<1>2. QED BY <1>1

\* Where no call is open, the pending message may be replaced by a new one.
LEMMA RenewKeeps ==
  ASSUME NEW m, NEW b, NEW p, NEW R, NEW c, StoryOf(m, b, p, R, R, c),
         NEW q, q \in [open : BOOLEAN, text : BOOLEAN, calls : {<<>>}, at : {0}]
  PROVE StoryOf(m, b, q, R, R, c)
<1>1. /\ m \in Seq(StoryMessages) /\ b \in -1 .. Len(m) /\ Len(m) \in Nat
      /\ ResultsOK(m, R) /\ (~c => AnsweredOK(m, b, p, R, R))
  BY DEF StoryOf, StoryType
<1>2. StoryType(m, b, q)
  <2>1. <<>> \in Seq(Nat) /\ 0 \in -1 .. Len(m)
    BY <1>1
  <2>2. q \in [open : BOOLEAN, text : BOOLEAN, calls : Seq(Nat), at : -1 .. Len(m)] /\ q.at = 0
    BY <2>1
  <2>3. QED BY <1>1, <2>2 DEF StoryType
<1>3. PendOK(m, q, R, R)
  BY DEF PendOK, ToSet
<1>4. OpenOK(m, b, q, R, R)
  BY DEF OpenOK
<1>5. ~c => AnsweredOK(m, b, q, R, R)
  BY <1>1 DEF AnsweredOK
<1>6. QED BY <1>1, <1>2, <1>3, <1>4, <1>5 DEF StoryOf

\* A prompt.
LEMMA PromptKeeps ==
  ASSUME NEW m, NEW b, NEW p, NEW R, NEW c, StoryOf(m, b, p, R, R, c), NEW prompt \in Nat,
         NEW q, q \in [open : BOOLEAN, text : BOOLEAN, calls : {<<>>}, at : {0}]
  PROVE StoryOf(Append(m, User(prompt)), Len(m), q, R, R, c)
<1> DEFINE g == User(prompt)
           w == Append(m, g)
<1>1. /\ m \in Seq(StoryMessages) /\ b \in -1 .. Len(m) /\ Len(m) \in Nat
      /\ ResultsOK(m, R) /\ (~c => AnsweredOK(m, b, p, R, R))
  BY DEF StoryOf, StoryType
<1>2. g \in StoryMessages /\ g.role = "user" /\ g.calls = <<>>
  BY DEF User, Message, StoryMessages
<1> HIDE DEF g
<1>3. Longer(m, w, g)
  BY <1>1, <1>2, AppendedIsLonger
<1> HIDE DEF w
<1>4. w \in Seq(StoryMessages) /\ Len(w) = Len(m) + 1 /\ w[Len(m) + 1] = g
  BY <1>3 DEF Longer
<1>5. StoryType(w, Len(m), q)
  <2>1. <<>> \in Seq(Nat) /\ 0 \in -1 .. Len(w) /\ Len(m) \in -1 .. Len(w)
    BY <1>1, <1>4
  <2>2. q \in [open : BOOLEAN, text : BOOLEAN, calls : Seq(Nat), at : -1 .. Len(w)] /\ q.at = 0
    BY <2>1
  <2>3. QED BY <1>4, <2>1, <2>2 DEF StoryType
<1>6. ResultsOK(w, R)
  <2>1. g.role # "tool"
    BY <1>2
  <2>2. QED BY <1>1, <1>3, <2>1, NoResultKeeps
<1>7. PendOK(w, q, R, R)
  BY DEF PendOK, ToSet
<1>8. OpenOK(w, Len(m), q, R, R)
  BY DEF OpenOK
<1>9. ASSUME ~c PROVE AnsweredOK(w, Len(m), q, R, R)
  <2>1. ASSUME NEW i \in DOMAIN w, NEW id \in ToSet(w[i].calls)
        PROVE id \in R /\ AnsweredAt(w, Len(m), i, id)
    <3>1. i # Len(m) + 1
      <4>1. w[Len(m) + 1].calls = <<>>
        BY <1>2, <1>4
      <4>2. QED BY <2>1, <4>1 DEF ToSet
    <3>2. i \in 1 .. Len(m) /\ i \in DOMAIN m /\ w[i] = m[i]
      <4>1. i \in 1 .. Len(m) + 1
        BY <1>1, <1>3, LongerKeeps
      <4>2. i \in 1 .. Len(m)
        BY <1>1, <3>1, <4>1
      <4>3. QED BY <1>1, <1>3, <4>2, LongerKeeps DEF Longer
    <3>3. id \in R /\ AnsweredAt(m, b, i, id)
      BY <1>1, <1>9, <2>1, <3>2 DEF AnsweredOK
    <3>4. AnsweredAt(m, Len(m), i, id)
      <4>1. PICK k \in Results(m) : k > i /\ m[k].id = id /\ AllResults(m, i + 1, k)
        BY <3>3 DEF AnsweredAt
      <4>2. k <= Len(m)
        BY <1>1, <4>1 DEF Results
      <4>3. QED BY <4>1, <4>2 DEF AnsweredAt
    <3>5. QED BY <1>1, <1>3, <3>2, <3>3, <3>4, LongerKeeps
  <2>2. ~(q.at > 0)
    OBVIOUS
  <2>3. QED BY <2>1, <2>2 DEF AnsweredOK
<1>10. StoryOf(w, Len(m), q, R, R, c)
  BY <1>5, <1>6, <1>7, <1>8, <1>9 DEF StoryOf
<1>11. QED BY <1>10 DEF w, g

\* A user_message begins a turn.
LEMMA UserMessageKeeps ==
  ASSUME NEW s, NEW R, NEW c, Story(s, R, R, c), NEW prompt \in Nat
  PROVE Story(OnUserMessage(s, prompt), R, R, c) /\ OnUserMessage(s, prompt).start >= 0
<1> DEFINE f == IF s.start >= 0 THEN Flushed(s) ELSE s
           w == Append(f.msgs, User(prompt))
           n == Len(f.msgs)
<1>1. Story(f, R, R, c)
  BY FlushKeeps
<1>2. OnUserMessage(s, prompt) = [f EXCEPT !.msgs = w, !.start = n, !.pend = FreshPending]
  BY DEF OnUserMessage
<1> HIDE DEF f
<1>3. /\ f = [msgs |-> f.msgs, start |-> f.start, pend |-> f.pend]
      /\ StoryOf(f.msgs, f.start, f.pend, R, R, c)
  BY <1>1 DEF Story
<1>4. FreshPending \in [open : BOOLEAN, text : BOOLEAN, calls : {<<>>}, at : {0}]
  BY DEF FreshPending, NoPending
<1>5. StoryOf(w, n, FreshPending, R, R, c)
  BY <1>3, <1>4, PromptKeeps
<1>6. n >= 0
  BY <1>3 DEF StoryOf, StoryType
<1> HIDE DEF w, n
<1>7. OnUserMessage(s, prompt) = [msgs |-> w, start |-> n, pend |-> FreshPending]
  BY <1>2, <1>3
<1>8. QED BY <1>5, <1>6, <1>7 DEF Story
\* What Renewed does where no call is open.
LEMMA RenewedPending ==
  ASSUME NEW s, NEW R, NEW c, Story(s, R, R, c)
  PROVE /\ Renewed(s) = [msgs |-> s.msgs, start |-> s.start, pend |-> Renewed(s).pend]
        /\ Renewed(s).pend \in [open : {TRUE}, text : BOOLEAN, calls : {<<>>}, at : {0}]
<1> DEFINE r == Renewed(s)
<1>1. s = [msgs |-> s.msgs, start |-> s.start, pend |-> s.pend] /\ StoryOf(s.msgs, s.start, s.pend, R, R, c)
  BY DEF Story
<1>2. s.pend \in [open : BOOLEAN, text : BOOLEAN, calls : Seq(Nat), at : -1 .. Len(s.msgs)]
  BY <1>1 DEF StoryOf, StoryType
<1>3. r = [msgs |-> s.msgs, start |-> s.start, pend |-> r.pend] /\ r.pend \in [open : {TRUE}, text : BOOLEAN, calls : {<<>>}, at : {0}]
  <2>1. CASE s.pend.open /\ s.pend.at = 0
    <3>1. r = s
      BY <2>1 DEF Renewed, Pushed
    <3>2. s.pend.calls = <<>>
      BY <1>1, <2>1, NothingPending
    <3>3. QED BY <1>1, <1>2, <2>1, <3>1, <3>2
  <2>2. CASE ~(s.pend.open /\ s.pend.at = 0)
    <3>1. r = [s EXCEPT !.pend = FreshPending]
      BY <2>2 DEF Renewed, Pushed
    <3>2. r = [msgs |-> s.msgs, start |-> s.start, pend |-> FreshPending]
      BY <1>1, <3>1
    <3>3. FreshPending \in [open : {TRUE}, text : BOOLEAN, calls : {<<>>}, at : {0}]
      BY DEF FreshPending, NoPending
    <3> HIDE DEF r
    <3>4. r.pend = FreshPending
      BY <3>2
    <3>5. QED BY <3>2, <3>3, <3>4
  <2>3. QED BY <2>1, <2>2
<1> HIDE DEF r
<1>4. QED BY <1>3 DEF r

\* A text_delta.
LEMMA TextKeeps ==
  ASSUME NEW s, NEW R, NEW c, Story(s, R, R, c)
  PROVE LET t == [Renewed(s) EXCEPT !.pend.text = TRUE] IN Story(t, R, R, c) /\ t.start = s.start
<1> DEFINE r == Renewed(s)
           q == [r.pend EXCEPT !.text = TRUE]
           t == [r EXCEPT !.pend.text = TRUE]
<1>1. StoryOf(s.msgs, s.start, s.pend, R, R, c)
  BY DEF Story
<1>2. /\ r = [msgs |-> s.msgs, start |-> s.start, pend |-> r.pend]
      /\ r.pend \in [open : {TRUE}, text : BOOLEAN, calls : {<<>>}, at : {0}]
  BY RenewedPending
<1> HIDE DEF r
<1>3. q \in [open : BOOLEAN, text : BOOLEAN, calls : {<<>>}, at : {0}]
  BY <1>2
<1>4. t = [r EXCEPT !.pend = q]
  BY <1>2
<1> HIDE DEF q, t
<1>5. t = [msgs |-> s.msgs, start |-> s.start, pend |-> q]
  BY <1>2, <1>4
<1>6. StoryOf(s.msgs, s.start, q, R, R, c)
  BY <1>1, <1>3, RenewKeeps
<1>7. Story(t, R, R, c) /\ t.start = s.start
  BY <1>5, <1>6 DEF Story
<1>8. QED BY <1>7 DEF t, r

\* A turn_finished.
LEMMA TurnFinishedKeeps ==
  ASSUME NEW s, NEW R, NEW c, Story(s, R, R, c)
  PROVE Story(OnTurnFinished(s), R, R, c)
<1> DEFINE f == Flushed(s)
           m == f.msgs
<1>1. OnTurnFinished(s) = [f EXCEPT !.start = -1, !.pend = NoPending]
  BY DEF OnTurnFinished
<1>2. Story(f, R, R, c)
  BY FlushKeeps
<1> HIDE DEF f
<1>3. f = [msgs |-> m, start |-> f.start, pend |-> f.pend] /\ StoryOf(m, f.start, f.pend, R, R, c)
  BY <1>2 DEF Story
<1>4. NoPending \in [open : BOOLEAN, text : BOOLEAN, calls : {<<>>}, at : {0}]
  BY DEF NoPending
<1>5. StoryOf(m, f.start, NoPending, R, R, c)
  BY <1>3, <1>4, RenewKeeps
<1>6. OnTurnFinished(s) = [msgs |-> m, start |-> -1, pend |-> NoPending]
  BY <1>1, <1>3
<1> HIDE DEF m
<1>7. StoryOf(m, -1, NoPending, R, R, c)
  <2>1. Len(m) \in Nat /\ m \in Seq(StoryMessages) /\ StoryType(m, f.start, NoPending)
    BY <1>5 DEF StoryOf, StoryType
  <2>2. StoryType(m, -1, NoPending)
    BY <2>1 DEF StoryType
  <2>3. OpenOK(m, -1, NoPending, R, R)
    BY DEF OpenOK
  <2>4. ASSUME ~c PROVE AnsweredOK(m, -1, NoPending, R, R)
    <3>1. AnsweredOK(m, f.start, NoPending, R, R) /\ DOMAIN m = 1 .. Len(m)
      BY <1>5, <2>1, <2>4 DEF StoryOf
    <3>2. ASSUME NEW i \in DOMAIN m, NEW id \in ToSet(m[i].calls)
          PROVE id \in R /\ AnsweredAt(m, -1, i, id)
      <4>1. id \in R /\ AnsweredAt(m, f.start, i, id)
        BY <3>1, <3>2 DEF AnsweredOK
      <4>2. ~(i <= -1)
        BY <2>1, <3>1
      <4>3. QED BY <4>1, <4>2 DEF AnsweredAt
    <3>3. ~(NoPending.at > 0)
      BY DEF NoPending
    <3>4. QED BY <3>2, <3>3 DEF AnsweredOK
  <2>5. QED BY <1>5, <2>2, <2>3, <2>4 DEF StoryOf
<1>8. QED BY <1>6, <1>7 DEF Story

\* A call is added to the pending message that is not pushed.
LEMMA CallPends ==
  ASSUME NEW m, NEW b, NEW p, NEW R, NEW c, StoryOf(m, b, p, R, R, c), b >= 0, NEW x \in Nat, x \notin R,
         NEW q, q \in [open : {TRUE}, text : BOOLEAN, calls : {<<x>>}, at : {0}]
  PROVE StoryOf(m, b, q, R \cup {x}, R, c)
<1>1. /\ m \in Seq(StoryMessages) /\ b \in -1 .. Len(m) /\ Len(m) \in Nat
      /\ ResultsOK(m, R) /\ (~c => AnsweredOK(m, b, p, R, R))
  BY DEF StoryOf, StoryType
<1>2. /\ q \in [open : BOOLEAN, text : BOOLEAN, calls : Seq(Nat), at : -1 .. Len(m)]
      /\ q.open /\ q.at = 0 /\ q.calls = <<x>>
  <2>1. <<x>> \in Seq(Nat) /\ 0 \in -1 .. Len(m)
    BY <1>1
  <2>2. QED BY <2>1
<1>3. ToSet(q.calls) = {x}
  BY <1>2 DEF ToSet
<1>4. StoryType(m, b, q)
  BY <1>1, <1>2 DEF StoryType
<1>5. PendOK(m, q, R \cup {x}, R)
  BY <1>2, <1>3 DEF PendOK
<1>6. OpenOK(m, b, q, R \cup {x}, R)
  BY <1>2, <1>3 DEF OpenOK
<1>7. ~c => AnsweredOK(m, b, q, R \cup {x}, R)
  BY <1>1, <1>2 DEF AnsweredOK
<1>8. QED BY <1>1, <1>4, <1>5, <1>6, <1>7 DEF StoryOf

\* m with x among the calls of the message at n.
Extended(m, n, x, w) ==
  /\ w \in Seq(StoryMessages) /\ Len(w) = Len(m)
  /\ \A i \in DOMAIN m : i # n => w[i] = m[i]
  /\ \A i \in DOMAIN m : w[i].role = m[i].role /\ w[i].id = m[i].id
  /\ ToSet(w[n].calls) = ToSet(m[n].calls) \cup {x}

LEMMA ExtendedCalls ==
  ASSUME NEW m \in Seq(StoryMessages), NEW n \in DOMAIN m, NEW x \in Nat
  PROVE Extended(m, n, x, [m EXCEPT ![n].calls = Append(@, x)])
<1> DEFINE g == [m[n] EXCEPT !.calls = Append(@, x)]
           w == [m EXCEPT ![n].calls = Append(@, x)]
<1>1. m[n] \in StoryMessages /\ m[n].calls \in Seq(Nat)
  <2>1. m[n] \in StoryMessages
    OBVIOUS
  <2>2. QED BY <2>1 DEF StoryMessages
<1>2. w = [m EXCEPT ![n] = g]
  OBVIOUS
<1>3. /\ g.role = m[n].role /\ g.id = m[n].id /\ g.calls = Append(m[n].calls, x)
      /\ g \in StoryMessages
  <2>1. Append(m[n].calls, x) \in Seq(Nat)
    BY <1>1
  <2>2. QED BY <1>1, <2>1 DEF StoryMessages
<1>4. ToSet(g.calls) = ToSet(m[n].calls) \cup {x}
  BY <1>1, <1>3, OneMoreElement
<1> HIDE DEF g, w
<1>5. w \in Seq(StoryMessages) /\ Len(w) = Len(m) /\ w[n] = g
  BY <1>2, <1>3
<1>6. \A i \in DOMAIN m : i # n => w[i] = m[i]
  BY <1>2
<1>7. Extended(m, n, x, w)
  BY <1>3, <1>4, <1>5, <1>6 DEF Extended
<1>8. QED BY <1>7 DEF w

\* What an extended message leaves as it was.
LEMMA ExtendedKeeps ==
  ASSUME NEW m \in Seq(StoryMessages), NEW n \in DOMAIN m, NEW x, NEW w, Extended(m, n, x, w)
  PROVE /\ Results(w) = Results(m)
        /\ \A i, j \in DOMAIN m : AllResults(m, i + 1, j) => AllResults(w, i + 1, j)
        /\ \A i \in DOMAIN m : Leading(m, i) => Leading(w, i)
        /\ \A i \in DOMAIN m : Paired(m, i) => Paired(w, i)
        /\ \A b, i, id : i \in DOMAIN m /\ AnsweredAt(m, b, i, id) => AnsweredAt(w, b, i, id)
<1>1. Len(m) \in Nat /\ DOMAIN m = 1 .. Len(m) /\ DOMAIN w = 1 .. Len(m)
  BY DEF Extended
<1>2. \A i \in DOMAIN m : w[i].role = m[i].role /\ w[i].id = m[i].id
  BY DEF Extended
<1>3. Results(w) = Results(m)
  BY <1>1, <1>2 DEF Results
<1>4. ASSUME NEW i \in DOMAIN m, NEW j \in DOMAIN m, AllResults(m, i + 1, j) PROVE AllResults(w, i + 1, j)
  <2>1. \A l \in i + 1 .. j : l \in DOMAIN m
    BY <1>1
  <2>2. QED BY <1>2, <1>4, <2>1 DEF AllResults
<1>5. ASSUME NEW i \in DOMAIN m, Leading(m, i) PROVE Leading(w, i)
  <2>1. 1 \in DOMAIN m /\ \A j \in 1 .. i : j \in DOMAIN m
    BY <1>1
  <2>2. QED BY <1>2, <1>5, <2>1 DEF Leading
<1>6. \A i \in DOMAIN m : ToSet(m[i].calls) \subseteq ToSet(w[i].calls)
  BY DEF Extended
<1>7. ASSUME NEW i \in DOMAIN m, Paired(m, i) PROVE Paired(w, i)
  <2>1. CASE Leading(m, i)
    BY <1>5, <2>1 DEF Paired
  <2>2. CASE \E j \in 1 .. i - 1 : m[i].id \in ToSet(m[j].calls) /\ AllResults(m, j + 1, i)
    <3>1. PICK j \in 1 .. i - 1 : m[i].id \in ToSet(m[j].calls) /\ AllResults(m, j + 1, i)
      BY <2>2
    <3>2. j \in DOMAIN m
      BY <1>1
    <3>3. AllResults(w, j + 1, i) /\ w[i].id \in ToSet(w[j].calls)
      BY <1>2, <1>4, <1>6, <3>1, <3>2
    <3>4. QED BY <3>3 DEF Paired
  <2>3. QED BY <1>7, <2>1, <2>2 DEF Paired
<1>8. ASSUME NEW b, NEW i \in DOMAIN m, NEW id, AnsweredAt(m, b, i, id) PROVE AnsweredAt(w, b, i, id)
  <2>1. PICK k \in Results(m) : k > i /\ m[k].id = id /\ AllResults(m, i + 1, k) /\ (i <= b => k <= b)
    BY <1>8 DEF AnsweredAt
  <2>2. k \in DOMAIN m
    BY DEF Results
  <2>3. QED BY <1>2, <1>3, <1>4, <2>1, <2>2 DEF AnsweredAt
<1>9. QED BY <1>3, <1>4, <1>5, <1>7, <1>8

\* A call joins the calls of the pending message that is pushed.
LEMMA CallJoins ==
  ASSUME NEW m, NEW b, NEW p, NEW R, NEW c, StoryOf(m, b, p, R, R, c), b >= 0, p.open, p.at > 0,
         NEW x \in Nat, x \notin R, NEW w, Extended(m, p.at, x, w)
  PROVE StoryOf(w, b, p, R \cup {x}, R, c)
<1> DEFINE n == p.at
<1>1. /\ m \in Seq(StoryMessages) /\ b \in -1 .. Len(m) /\ Len(m) \in Nat /\ DOMAIN m = 1 .. Len(m)
      /\ ResultsOK(m, R) /\ PendOK(m, p, R, R) /\ (~c => AnsweredOK(m, b, p, R, R))
      /\ p \in [open : BOOLEAN, text : BOOLEAN, calls : Seq(Nat), at : -1 .. Len(m)]
  BY DEF StoryOf, StoryType
<1>2. n \in DOMAIN m
  BY <1>1
<1>3. w \in Seq(StoryMessages) /\ Len(w) = Len(m) /\ DOMAIN w = DOMAIN m
  BY <1>1 DEF Extended
<1>4. \A i \in DOMAIN m : w[i].role = m[i].role /\ w[i].id = m[i].id
  BY DEF Extended
<1>5. StoryType(w, b, p)
  BY <1>1, <1>3 DEF StoryType
<1>6. ResultsOK(w, R)
  <2>1. Results(w) = Results(m) /\ \A i \in DOMAIN m : Paired(m, i) => Paired(w, i)
    BY <1>1, <1>2, ExtendedKeeps
  <2>2. Results(m) \subseteq DOMAIN m
    BY DEF Results
  <2>3. QED BY <1>1, <1>4, <2>1, <2>2 DEF ResultsOK
<1>7. PendOK(w, p, R \cup {x}, R)
  <2>1. AllResults(m, n + 1, Len(m))
    BY <1>1 DEF PendOK
  <2>2. Len(m) \in DOMAIN m
    BY <1>1, <1>2
  <2>3. AllResults(w, n + 1, Len(w))
    BY <1>1, <1>2, <1>3, <2>1, <2>2, ExtendedKeeps
  <2>4. p.at # 0 /\ p.at # -1
    BY <1>1
  <2>5. QED BY <2>3, <2>4 DEF PendOK
<1>8. OpenOK(w, b, p, R \cup {x}, R)
  <2>1. x \in ToSet(w[n].calls) /\ p.at # 0
    BY <1>1 DEF Extended
  <2>2. QED BY <2>1 DEF OpenOK
<1>9. ASSUME ~c PROVE AnsweredOK(w, b, p, R \cup {x}, R)
  <2>1. AnsweredOK(m, b, p, R, R)
    BY <1>1, <1>9
  <2>2. ASSUME NEW i \in DOMAIN w, NEW id \in ToSet(w[i].calls)
        PROVE id \in R \cup {x} /\ (id \notin R => i = n) /\ (id \in R => AnsweredAt(w, b, i, id))
    <3>1. id \in ToSet(m[i].calls) \/ (i = n /\ id = x)
      BY <1>3, <2>2 DEF Extended
    <3>2. CASE id \in ToSet(m[i].calls)
      <4>1. id \in R /\ AnsweredAt(m, b, i, id)
        BY <1>3, <2>1, <3>2 DEF AnsweredOK
      <4>2. AnsweredAt(w, b, i, id)
        BY <1>1, <1>2, <1>3, <4>1, ExtendedKeeps
      <4>3. QED BY <4>1, <4>2
    <3>3. CASE i = n /\ id = x
      BY <3>3
    <3>4. QED BY <3>1, <3>2, <3>3
  <2>3. QED BY <2>1, <2>2 DEF AnsweredOK
<1>10. QED BY <1>5, <1>6, <1>7, <1>8, <1>9 DEF StoryOf

\* A call comes where the pending message has been dropped by a checkpoint.
LEMMA CallIsLost ==
  ASSUME NEW m, NEW b, NEW p, NEW R, NEW c, StoryOf(m, b, p, R, R, c), b >= 0, p.open, p.at = -1,
         NEW x \in Nat, x \notin R
  PROVE StoryOf(m, b, p, R \cup {x}, R, c)
<1>1. StoryType(m, b, p) /\ ResultsOK(m, R) /\ PendOK(m, p, R, R) /\ (~c => AnsweredOK(m, b, p, R, R))
  BY DEF StoryOf
<1>2. PendOK(m, p, R \cup {x}, R)
  BY <1>1 DEF PendOK
<1>3. OpenOK(m, b, p, R \cup {x}, R)
  BY DEF OpenOK
<1>4. ~c => AnsweredOK(m, b, p, R \cup {x}, R)
  BY <1>1 DEF AnsweredOK
<1>5. QED BY <1>1, <1>2, <1>3, <1>4 DEF StoryOf

\* A tool_call_requested.
LEMMA RequestedKeeps ==
  ASSUME NEW s, NEW R, NEW c, Story(s, R, R, c), s.start >= 0, NEW x \in Nat, x \notin R
  PROVE Story(OnRequested(s, x), R \cup {x}, R, c) /\ OnRequested(s, x).start = s.start
<1> DEFINE m == s.msgs
           b == s.start
           p == s.pend
<1>1. s = [msgs |-> m, start |-> b, pend |-> p] /\ StoryOf(m, b, p, R, R, c)
  BY DEF Story
<1>2. /\ p \in [open : BOOLEAN, text : BOOLEAN, calls : Seq(Nat), at : -1 .. Len(m)] /\ Len(m) \in Nat
      /\ m \in Seq(StoryMessages) /\ DOMAIN m = 1 .. Len(m)
  BY <1>1 DEF StoryOf, StoryType
<1>3. CASE p.open /\ p.at > 0 /\ ~p.text
  <2> DEFINE w == [m EXCEPT ![p.at].calls = Append(@, x)]
  <2>1. OnRequested(s, x) = [s EXCEPT !.msgs[p.at].calls = Append(@, x)]
    BY <1>2, <1>3 DEF OnRequested, Pushed
  <2>2. OnRequested(s, x) = [s EXCEPT !.msgs = w]
    BY <1>1, <2>1
  <2>3. p.at \in DOMAIN m
    BY <1>2, <1>3
  <2>4. Extended(m, p.at, x, w)
    BY <1>2, <2>3, ExtendedCalls
  <2> HIDE DEF w
  <2>5. OnRequested(s, x) = [msgs |-> w, start |-> b, pend |-> p]
    BY <1>1, <2>2
  <2>6. StoryOf(w, b, p, R \cup {x}, R, c)
    BY <1>1, <1>3, <2>4, CallJoins
  <2>7. QED BY <2>5, <2>6 DEF Story
<1>4. CASE p.open /\ p.at = -1 /\ ~p.text
  <2>1. OnRequested(s, x) = s
    BY <1>4 DEF OnRequested, Pushed
  <2>2. StoryOf(m, b, p, R \cup {x}, R, c)
    BY <1>1, <1>4, CallIsLost
  <2>3. QED BY <1>1, <2>1, <2>2 DEF Story
<1>5. CASE ~(p.open /\ p.at # 0 /\ ~p.text)
  <2> DEFINE r == Renewed(s)
             q == [r.pend EXCEPT !.calls = Append(@, x)]
             t == [r EXCEPT !.pend.calls = Append(@, x)]
  <2>1. OnRequested(s, x) = t
    BY <1>5 DEF OnRequested, Pushed
  <2>2. /\ r = [msgs |-> m, start |-> b, pend |-> r.pend]
        /\ r.pend \in [open : {TRUE}, text : BOOLEAN, calls : {<<>>}, at : {0}]
    BY RenewedPending
  <2> HIDE DEF r
  <2>3. q \in [open : {TRUE}, text : BOOLEAN, calls : {<<x>>}, at : {0}]
    <3>1. Append(<<>>, x) = <<x>>
      OBVIOUS
    <3>2. QED BY <2>2, <3>1
  <2>4. t = [r EXCEPT !.pend = q]
    BY <2>2
  <2> HIDE DEF q, t
  <2>5. t = [msgs |-> m, start |-> b, pend |-> q]
    BY <2>2, <2>4
  <2>6. StoryOf(m, b, q, R \cup {x}, R, c)
    BY <1>1, <2>3, CallPends
  <2>7. QED BY <2>1, <2>5, <2>6 DEF Story
<1>6. p.at = -1 \/ p.at = 0 \/ p.at > 0
  BY <1>2
<1>7. QED BY <1>3, <1>4, <1>5, <1>6

\* The result of the open call.
LEMMA ResultComes ==
  ASSUME NEW m, NEW b, NEW p, NEW R, NEW F, NEW c, StoryOf(m, b, p, R, F, c), Settled(p),
         NEW x \in Nat, x \in R, x \notin F,
         NEW q, q = [p EXCEPT !.text = FALSE]
  PROVE StoryOf(Append(m, Result(x)), b, q, R, F \cup {x}, c)
<1> DEFINE g == Result(x)
           w == Append(m, g)
           n == Len(m) + 1
<1>1. /\ m \in Seq(StoryMessages) /\ b \in -1 .. Len(m) /\ Len(m) \in Nat /\ n \in Nat /\ DOMAIN m = 1 .. Len(m)
      /\ p \in [open : BOOLEAN, text : BOOLEAN, calls : Seq(Nat), at : -1 .. Len(m)]
      /\ (~p.open => p.at = 0) /\ F \subseteq R
      /\ ResultsOK(m, F) /\ PendOK(m, p, R, F) /\ OpenOK(m, b, p, R, F)
      /\ (~c => AnsweredOK(m, b, p, R, F))
  BY DEF StoryOf, StoryType
<1>2. /\ b >= 0 /\ p.open /\ R = F \cup {x}
      /\ p.at = 0 => x \in ToSet(p.calls)
      /\ p.at > 0 => x \in ToSet(m[p.at].calls)
  BY <1>1 DEF OpenOK
<1>3. p.at # 0
  <2>1. p.at = 0 => p.calls = <<>>
    BY <1>2 DEF Settled
  <2>2. ToSet(<<>>) = {}
    BY DEF ToSet
  <2>3. QED BY <1>2, <2>1, <2>2
<1>4. g \in StoryMessages /\ g.role = "tool" /\ g.calls = <<>> /\ g.id = x
  BY DEF Result, Message, StoryMessages
<1> HIDE DEF g
<1>5. Longer(m, w, g)
  BY <1>1, <1>4, AppendedIsLonger
<1> HIDE DEF w
<1>6. w \in Seq(StoryMessages) /\ Len(w) = n /\ w[n] = g /\ DOMAIN w = 1 .. n /\ \A i \in 1 .. Len(m) : w[i] = m[i]
  BY <1>1, <1>5, LongerKeeps DEF Longer
<1>7. /\ q \in [open : BOOLEAN, text : BOOLEAN, calls : Seq(Nat), at : -1 .. Len(m)]
      /\ q.open /\ q.at = p.at
  BY <1>1, <1>2
<1>8. StoryType(w, b, q)
  <2>1. b \in -1 .. n /\ q.at \in -1 .. n
    BY <1>1, <1>7
  <2>2. q \in [open : BOOLEAN, text : BOOLEAN, calls : Seq(Nat), at : -1 .. n]
    BY <1>7, <2>1
  <2>3. QED BY <1>6, <1>7, <2>1, <2>2 DEF StoryType
<1>9. /\ p.at > 0 => p.at \in 1 .. Len(m) /\ AllResults(m, p.at + 1, Len(m))
      /\ p.at = -1 => m # <<>> /\ Leading(m, Len(m))
  BY <1>1, <1>2 DEF PendOK
<1>10. p.at = -1 \/ p.at > 0
  BY <1>1, <1>3
<1>11. ResultsOK(w, R)
  <2>1. \/ \E j \in 1 .. Len(m) : g.id \in ToSet(m[j].calls) /\ AllResults(m, j + 1, Len(m))
        \/ m # <<>> /\ Leading(m, Len(m))
    BY <1>2, <1>4, <1>9, <1>10
  <2>2. g.id \notin F /\ g.role = "tool" /\ R = F \cup {g.id}
    BY <1>2, <1>4
  <2>3. ResultsOK(w, F \cup {g.id})
    BY <1>1, <1>5, <2>1, <2>2, ResultKeeps
  <2>4. QED BY <2>2, <2>3
<1>12. ASSUME p.at > 0 PROVE AllResults(w, p.at + 1, n)
  <2>1. Len(m) \in 1 .. Len(m) /\ p.at \in 1 .. Len(m)
    BY <1>1, <1>9, <1>12
  <2>2. AllResults(w, p.at + 1, Len(m))
    BY <1>1, <1>5, <1>9, <1>12, <2>1, LongerKeeps
  <2>3. \A l \in p.at + 1 .. n : l \in p.at + 1 .. Len(m) \/ l = n
    BY <1>1
  <2>4. QED BY <1>4, <1>6, <2>2, <2>3 DEF AllResults
<1>13. PendOK(w, q, R, R)
  <2>1. q.at > 0 => AllResults(w, q.at + 1, Len(w))
    BY <1>6, <1>7, <1>12
  <2>2. ASSUME p.at = -1 PROVE w # <<>> /\ Leading(w, Len(w))
    <3>1. Len(m) \in 1 .. Len(m)
      BY <1>1, <1>9, <2>2
    <3>2. Leading(w, Len(m))
      BY <1>1, <1>5, <1>9, <2>2, <3>1, LongerKeeps
    <3>3. \A l \in 1 .. n : l \in 1 .. Len(m) \/ l = n
      BY <1>1
    <3>4. Leading(w, n)
      BY <1>4, <1>6, <3>2, <3>3 DEF Leading
    <3>5. n # 0
      BY <1>1
    <3>6. QED BY <1>6, <3>4, <3>5
  <2>3. q.at # 0
    BY <1>3, <1>7
  <2>4. QED BY <1>7, <2>1, <2>2, <2>3 DEF PendOK
<1>14. OpenOK(w, b, q, R, R)
  BY DEF OpenOK
<1>15. ASSUME ~c PROVE AnsweredOK(w, b, q, R, R)
  <2>1. AnsweredOK(m, b, p, R, F)
    BY <1>1, <1>15
  <2>2. q.at > 0 => q.at > b
    BY <1>7, <2>1 DEF AnsweredOK
  <2>3. ASSUME NEW i \in DOMAIN w, NEW id \in ToSet(w[i].calls)
        PROVE id \in R /\ AnsweredAt(w, b, i, id)
    <3>1. i # n
      BY <1>4, <1>6, <2>3 DEF ToSet
    <3>2. i \in 1 .. Len(m) /\ i \in DOMAIN m /\ w[i] = m[i]
      <4>1. i \in 1 .. Len(m)
        BY <1>1, <1>6, <3>1
      <4>2. QED BY <1>1, <1>6, <4>1
    <3>3. id \in R /\ (id \notin F => i = p.at) /\ (id \in F => AnsweredAt(m, b, i, id))
      BY <2>1, <2>3, <3>2 DEF AnsweredOK
    <3>4. CASE id \in F
      BY <1>1, <1>5, <3>2, <3>3, <3>4, LongerKeeps
    <3>5. CASE id \notin F
      <4>1. id = x /\ i = p.at /\ p.at > 0
        BY <1>2, <3>2, <3>3, <3>5
      <4>2. n \in Results(w) /\ w[n].id = id
        BY <1>1, <1>4, <1>6, <4>1 DEF Results
      <4>3. n > i /\ i > b
        BY <1>1, <1>7, <2>2, <3>2, <4>1
      <4>4. AllResults(w, i + 1, n)
        BY <1>12, <4>1
      <4>5. ~(i <= b)
        BY <1>1, <3>2, <4>3
      <4> HIDE DEF n
      <4>6. QED BY <3>3, <4>2, <4>3, <4>4, <4>5 DEF AnsweredAt
    <3>6. QED BY <3>4, <3>5
  <2>4. QED BY <2>2, <2>3 DEF AnsweredOK
<1>16. StoryOf(w, b, q, R, R, c)
  BY <1>8, <1>11, <1>13, <1>14, <1>15 DEF StoryOf
<1>17. QED BY <1>2, <1>16 DEF w, g

\* A tool_call_finished.
LEMMA FinishedKeeps ==
  ASSUME NEW s, NEW R, NEW F, NEW c, Story(s, R, F, c), NEW x \in Nat, x \in R, x \notin F
  PROVE Story(OnFinished(s, x), R, F \cup {x}, c) /\ OnFinished(s, x).start = s.start
<1> DEFINE f == Flushed(s)
           w == Append(f.msgs, Result(x))
           q == [f.pend EXCEPT !.text = FALSE]
           t == [f EXCEPT !.msgs = w, !.pend.text = FALSE]
<1>1. OnFinished(s, x) = t
  BY DEF OnFinished
<1>2. Story(f, R, F, c) /\ Settled(f.pend) /\ f.start = s.start
  BY FlushKeeps
<1> HIDE DEF f
<1>3. f = [msgs |-> f.msgs, start |-> f.start, pend |-> f.pend] /\ StoryOf(f.msgs, f.start, f.pend, R, F, c)
  BY <1>2 DEF Story
<1>4. StoryOf(w, f.start, q, R, F \cup {x}, c)
  BY <1>2, <1>3, ResultComes
<1>5. t = [[f EXCEPT !.msgs = w] EXCEPT !.pend = q]
  <2> HIDE DEF w
  <2>1. QED BY <1>3
<1> HIDE DEF w, q, t
<1>6. t = [msgs |-> w, start |-> f.start, pend |-> q]
  BY <1>3, <1>5
<1>7. QED BY <1>1, <1>2, <1>4, <1>6 DEF Story

LEMMA MinOfTwo ==
  ASSUME NEW a \in Int, NEW b \in Int PROVE Min({a, b}) = IF a <= b THEN a ELSE b
<1> DEFINE l == IF a <= b THEN a ELSE b
<1>1. l \in {a, b} /\ \A y \in {a, b} : l <= y
  OBVIOUS
<1>2. \A x \in {a, b} : (\A y \in {a, b} : x <= y) => x = l
  BY <1>1
<1> HIDE DEF l
<1>3. Min({a, b}) \in {a, b} /\ \A y \in {a, b} : Min({a, b}) <= y
  BY <1>1 DEF Min
<1>4. Min({a, b}) = l
  BY <1>2, <1>3
<1>5. QED BY <1>4 DEF l

LEMMA MaxOfTwo ==
  ASSUME NEW a \in Int, NEW b \in Int PROVE Max({a, b}) = IF a >= b THEN a ELSE b
<1> DEFINE l == IF a >= b THEN a ELSE b
<1>1. l \in {a, b} /\ \A y \in {a, b} : l >= y
  OBVIOUS
<1>2. \A x \in {a, b} : (\A y \in {a, b} : x >= y) => x = l
  BY <1>1
<1> HIDE DEF l
<1>3. Max({a, b}) \in {a, b} /\ \A y \in {a, b} : Max({a, b}) >= y
  BY <1>1 DEF Max
<1>4. Max({a, b}) = l
  BY <1>2, <1>3
<1>5. QED BY <1>4 DEF l

\* slice(-n).
LEMMA LastOnes ==
  ASSUME NEW S, NEW s \in Seq(S), NEW n \in Nat
  PROVE LET d == IF n <= Len(s) THEN Len(s) - n ELSE 0
        IN  LastN(s, n) \in Seq(S) /\ Len(LastN(s, n)) = Len(s) - d
            /\ \A i \in 1 .. Len(s) - d : LastN(s, n)[i] = s[i + d]
<1> DEFINE d == IF n <= Len(s) THEN Len(s) - n ELSE 0
<1>1. Len(s) \in Nat /\ d \in Nat /\ d <= Len(s)
  OBVIOUS
<1>2. Max({1, Len(s) - n + 1}) = d + 1
  <2>1. Max({1, Len(s) - n + 1}) = IF 1 >= Len(s) - n + 1 THEN 1 ELSE Len(s) - n + 1
    BY <1>1, MaxOfTwo
  <2>2. QED BY <1>1, <2>1
<1>3. LastN(s, n) = SubSeq(s, d + 1, Len(s))
  BY <1>2 DEF LastN
<1> HIDE DEF d
<1>4. SubSeq(s, d + 1, Len(s)) \in Seq(S) /\ Len(SubSeq(s, d + 1, Len(s))) = Len(s) - d
  BY <1>1
<1>5. \A i \in 1 .. Len(s) - d : SubSeq(s, d + 1, Len(s))[i] = s[i + d]
  BY <1>1
<1>6. LastN(s, n) \in Seq(S) /\ Len(LastN(s, n)) = Len(s) - d /\ \A i \in 1 .. Len(s) - d : LastN(s, n)[i] = s[i + d]
  BY <1>3, <1>4, <1>5
<1>7. QED BY <1>6 DEF d

\* w is a checkpoint and the messages of m without the first d.
Cut(m, w, d) ==
  /\ d \in 0 .. Len(m) /\ w \in Seq(StoryMessages) /\ Len(w) = Len(m) - d + 1
  /\ w[1] = Checkpoint /\ \A i \in 2 .. Len(w) : w[i] = m[i - 1 + d]

LEMMA CutTail ==
  ASSUME NEW m \in Seq(StoryMessages), NEW keep \in 0 .. Len(m)
  PROVE Cut(m, <<Checkpoint>> \o LastN(m, keep), Len(m) - keep)
<1> DEFINE d == Len(m) - keep
           tail == LastN(m, keep)
           w == <<Checkpoint>> \o tail
<1>1. Len(m) \in Nat /\ d \in 0 .. Len(m) /\ keep \in Nat /\ keep <= Len(m)
  OBVIOUS
<1>2. tail \in Seq(StoryMessages) /\ Len(tail) = Len(m) - d /\ \A i \in 1 .. Len(m) - d : tail[i] = m[i + d]
  BY <1>1, LastOnes
<1>3. Checkpoint \in StoryMessages
  BY DEF Checkpoint, Message, StoryMessages
<1> HIDE DEF tail, d
<1>4. <<Checkpoint>> \in Seq(StoryMessages) /\ Len(<<Checkpoint>>) = 1 /\ <<Checkpoint>>[1] = Checkpoint
  BY <1>3
<1>5. w \in Seq(StoryMessages) /\ Len(w) = Len(tail) + 1 /\ w[1] = Checkpoint
  BY <1>2, <1>4
<1>6. ASSUME NEW i \in 2 .. Len(w) PROVE w[i] = m[i - 1 + d]
  <2>1. w[i] = tail[i - 1]
    BY <1>2, <1>4, <1>5, <1>6
  <2>2. i - 1 \in 1 .. Len(m) - d
    BY <1>1, <1>2, <1>5, <1>6
  <2>3. QED BY <1>2, <2>1, <2>2
<1> HIDE DEF w
<1>7. Cut(m, w, d)
  BY <1>1, <1>2, <1>5, <1>6 DEF Cut
<1>8. QED BY <1>7 DEF w, d, tail

\* What a cut leaves as it was.
LEMMA CutKeeps ==
  ASSUME NEW m \in Seq(StoryMessages), NEW w, NEW d, Cut(m, w, d), NEW R, ResultsOK(m, R)
  PROVE /\ ResultsOK(w, R)
        /\ \A j \in 1 .. Len(m) : j > d /\ AllResults(m, j + 1, Len(m)) => AllResults(w, j - d + 2, Len(w))
        /\ \A j \in 1 .. Len(m) : j <= d /\ AllResults(m, j + 1, Len(m)) => Leading(w, Len(w))
        /\ Len(m) > 0 /\ Leading(m, Len(m)) => Leading(w, Len(w))
<1>1. /\ Len(m) \in Nat /\ DOMAIN m = 1 .. Len(m) /\ DOMAIN w = 1 .. Len(w) /\ d \in Nat /\ d <= Len(m)
      /\ Len(w) \in Nat /\ Len(w) = Len(m) - d + 1
      /\ w \in Seq(StoryMessages) /\ w[1] = Checkpoint
  BY DEF Cut
<1>2. Checkpoint.role = "checkpoint"
  BY DEF Checkpoint, Message
<1>3. ASSUME NEW i \in 2 .. Len(w) PROVE i - 1 + d \in d + 1 .. Len(m) /\ i - 1 + d \in 1 .. Len(m) /\ w[i] = m[i - 1 + d]
  BY <1>1, <1>3 DEF Cut
<1>4. ASSUME NEW i \in 1 .. Len(w), \A o \in d + 1 .. i - 1 + d : m[o].role \in {"checkpoint", "tool"}
      PROVE Leading(w, i)
  <2>1. ASSUME NEW j \in 1 .. i PROVE w[j].role \in {"checkpoint", "tool"}
    <3>1. CASE j = 1
      BY <1>1, <1>2, <3>1
    <3>2. CASE j # 1
      <4>1. j \in 2 .. Len(w) /\ j - 1 + d \in d + 1 .. i - 1 + d
        BY <1>1, <2>1, <3>2
      <4>2. w[j] = m[j - 1 + d]
        BY <1>3, <4>1
      <4>3. QED BY <1>4, <4>1, <4>2
    <3>3. QED BY <3>1, <3>2
  <2>2. QED BY <1>1, <1>2, <2>1 DEF Leading
<1>5. ASSUME NEW i \in Results(w) PROVE i \in 2 .. Len(w) /\ i - 1 + d \in Results(m) /\ w[i] = m[i - 1 + d]
  <2>1. i \in 1 .. Len(w) /\ w[i].role = "tool" /\ i # 1
    BY <1>1, <1>2 DEF Results
  <2>2. i \in 2 .. Len(w)
    BY <1>1, <2>1
  <2>3. QED BY <1>1, <1>3, <2>1, <2>2 DEF Results
<1>6. ASSUME NEW j \in d + 1 .. Len(m), NEW i \in 1 .. Len(w), AllResults(m, j + 1, i - 1 + d)
      PROVE AllResults(w, j - d + 2, i)
  <2>1. ASSUME NEW l \in j - d + 2 .. i PROVE w[l].role = "tool"
    <3>1. l \in 2 .. Len(w) /\ l - 1 + d \in j + 1 .. i - 1 + d
      BY <1>1, <1>6, <2>1
    <3>2. w[l] = m[l - 1 + d]
      BY <1>3, <3>1
    <3>3. QED BY <1>6, <3>1, <3>2 DEF AllResults
  <2>2. QED BY <2>1 DEF AllResults
<1>7. ASSUME NEW i \in 2 .. Len(w), Paired(m, i - 1 + d) PROVE Paired(w, i)
  <2> DEFINE o == i - 1 + d
  <2>1. o \in 1 .. Len(m) /\ w[i] = m[o] /\ i \in 1 .. Len(w)
    BY <1>1, <1>3
  <2>2. CASE Leading(m, o)
    <3>1. \A l \in d + 1 .. o : l \in 1 .. o
      BY <1>1
    <3>2. Leading(w, i)
      BY <1>4, <2>1, <2>2, <3>1 DEF Leading
    <3>3. QED BY <3>2 DEF Paired
  <2>3. CASE \E j \in 1 .. o - 1 : m[o].id \in ToSet(m[j].calls) /\ AllResults(m, j + 1, o)
    <3>1. PICK j \in 1 .. o - 1 : m[o].id \in ToSet(m[j].calls) /\ AllResults(m, j + 1, o)
      BY <2>3
    <3>2. CASE j <= d
      <4>1. \A l \in d + 1 .. o : l \in j + 1 .. o
        BY <1>1, <2>1, <3>1, <3>2
      <4>2. \A l \in d + 1 .. i - 1 + d : m[l].role \in {"checkpoint", "tool"}
        BY <3>1, <4>1 DEF AllResults
      <4>3. Leading(w, i)
        BY <1>4, <2>1, <4>2
      <4>4. QED BY <4>3 DEF Paired
    <3>3. CASE j > d
      <4> DEFINE k == j - d + 1
      <4>1. j \in d + 1 .. Len(m) /\ k \in 2 .. Len(w) /\ k \in 1 .. i - 1 /\ k - 1 + d = j
        BY <1>1, <2>1, <3>1, <3>3
      <4>2. AllResults(w, j - d + 2, i)
        BY <1>6, <2>1, <3>1, <4>1
      <4>3. w[k] = m[j]
        BY <1>3, <4>1
      <4>4. k + 1 = j - d + 2
        BY <1>1, <3>1
      <4>5. k \in 1 .. i - 1 /\ w[i].id \in ToSet(w[k].calls) /\ AllResults(w, k + 1, i)
        BY <2>1, <3>1, <4>1, <4>2, <4>3, <4>4
      <4> HIDE DEF k
      <4>6. QED BY <4>5 DEF Paired
    <3>4. QED BY <1>1, <3>1, <3>2, <3>3
  <2>4. QED BY <1>7, <2>2, <2>3 DEF Paired
<1>8. ResultsOK(w, R)
  <2>1. ASSUME NEW i \in Results(w)
        PROVE /\ w[i].id \in R /\ Paired(w, i)
              /\ \A k \in Results(w) : w[k].id = w[i].id => k = i
    <3>1. i \in 2 .. Len(w) /\ i - 1 + d \in Results(m) /\ w[i] = m[i - 1 + d]
      BY <1>5, <2>1
    <3>2. /\ m[i - 1 + d].id \in R /\ Paired(m, i - 1 + d)
          /\ \A k \in Results(m) : m[k].id = m[i - 1 + d].id => k = i - 1 + d
      BY <3>1 DEF ResultsOK
    <3>3. ASSUME NEW k \in Results(w), w[k].id = w[i].id PROVE k = i
      <4>1. k \in 2 .. Len(w) /\ k - 1 + d \in Results(m) /\ w[k] = m[k - 1 + d]
        BY <1>5, <3>3
      <4>2. k - 1 + d = i - 1 + d
        BY <3>1, <3>2, <3>3, <4>1
      <4>3. QED BY <1>1, <3>1, <4>1, <4>2
    <3>4. QED BY <1>7, <3>1, <3>2, <3>3
  <2>2. QED BY <2>1 DEF ResultsOK
<1>9. ASSUME NEW j \in 1 .. Len(m), j > d, AllResults(m, j + 1, Len(m)) PROVE AllResults(w, j - d + 2, Len(w))
  <2>1. j \in d + 1 .. Len(m) /\ Len(w) \in 1 .. Len(w) /\ Len(w) - 1 + d = Len(m)
    BY <1>1, <1>9
  <2>2. AllResults(m, j + 1, Len(w) - 1 + d)
    BY <1>9, <2>1
  <2>3. QED BY <1>6, <2>1, <2>2
<1>10. Len(w) \in 1 .. Len(w) /\ Len(w) - 1 + d = Len(m)
  BY <1>1
<1>11. ASSUME NEW j \in 1 .. Len(m), j <= d, AllResults(m, j + 1, Len(m)) PROVE Leading(w, Len(w))
  <2>1. \A l \in d + 1 .. Len(m) : l \in j + 1 .. Len(m)
    BY <1>1, <1>11
  <2>2. \A l \in d + 1 .. Len(m) : m[l].role \in {"checkpoint", "tool"}
    BY <1>11, <2>1 DEF AllResults
  <2>3. \A l \in d + 1 .. Len(w) - 1 + d : m[l].role \in {"checkpoint", "tool"}
    BY <1>10, <2>2
  <2>4. QED BY <1>4, <1>10, <2>3
<1>12. ASSUME Len(m) > 0, Leading(m, Len(m)) PROVE Leading(w, Len(w))
  <2>1. \A l \in d + 1 .. Len(m) : l \in 1 .. Len(m)
    BY <1>1
  <2>2. \A l \in d + 1 .. Len(m) : m[l].role \in {"checkpoint", "tool"}
    BY <1>12, <2>1 DEF Leading
  <2>3. \A l \in d + 1 .. Len(w) - 1 + d : m[l].role \in {"checkpoint", "tool"}
    BY <1>10, <2>2
  <2>4. QED BY <1>4, <1>10, <2>3
<1>13. QED BY <1>8, <1>9, <1>11, <1>12

\* Where the pending message stands after a cut.
CutAt(at, d) == IF at <= 0 THEN at ELSE IF at - d + 1 >= 2 THEN at - d + 1 ELSE -1

LEMMA CutStory ==
  ASSUME NEW m, NEW b, NEW p, NEW R, NEW c, StoryOf(m, b, p, R, R, c), NEW w, NEW d, Cut(m, w, d),
         NEW a, a \in -1 .. Len(w)
  PROVE StoryOf(w, a, [p EXCEPT !.at = CutAt(p.at, d)], R, R, TRUE)
<1> DEFINE q == [p EXCEPT !.at = CutAt(p.at, d)]
<1>1. /\ m \in Seq(StoryMessages) /\ Len(m) \in Nat
      /\ p \in [open : BOOLEAN, text : BOOLEAN, calls : Seq(Nat), at : -1 .. Len(m)]
      /\ (~p.open => p.at = 0) /\ ResultsOK(m, R) /\ PendOK(m, p, R, R)
  BY DEF StoryOf, StoryType
<1>2. /\ d \in Nat /\ d <= Len(m) /\ Len(w) \in Nat /\ Len(w) = Len(m) - d + 1 /\ w \in Seq(StoryMessages)
  BY <1>1 DEF Cut
<1>3. /\ q.open = p.open /\ q.text = p.text /\ q.calls = p.calls /\ q.at = CutAt(p.at, d)
      /\ q = [open |-> q.open, text |-> q.text, calls |-> q.calls, at |-> q.at]
  BY <1>1
<1> HIDE DEF q
<1>4. CutAt(p.at, d) \in -1 .. Len(w)
  BY <1>1, <1>2 DEF CutAt
<1>5. StoryType(w, a, q)
  <2>1. q \in [open : BOOLEAN, text : BOOLEAN, calls : Seq(Nat), at : -1 .. Len(w)]
    BY <1>1, <1>3, <1>4
  <2>2. ~q.open => q.at = 0
    BY <1>1, <1>3 DEF CutAt
  <2>3. QED BY <1>2, <2>1, <2>2 DEF StoryType
<1>6. ResultsOK(w, R)
  BY <1>1, CutKeeps
<1>7. ASSUME q.open PROVE /\ q.at = 0 => ToSet(q.calls) \subseteq R \ R
                          /\ q.at > 0 => AllResults(w, q.at + 1, Len(w))
                          /\ q.at = -1 => w # <<>> /\ Leading(w, Len(w))
  <2>1. /\ p.at = 0 => ToSet(p.calls) \subseteq R \ R
        /\ p.at > 0 => AllResults(m, p.at + 1, Len(m))
        /\ p.at = -1 => m # <<>> /\ Leading(m, Len(m))
    BY <1>1, <1>3, <1>7 DEF PendOK
  <2>2. Len(w) # 0
    BY <1>2
  <2>3. CASE p.at = 0
    BY <1>3, <2>1, <2>3 DEF CutAt
  <2>4. CASE p.at = -1
    <3>1. q.at = -1
      BY <1>3, <2>4 DEF CutAt
    <3>2. Len(m) > 0
      BY <1>1, <2>1, <2>4
    <3>3. Leading(w, Len(w))
      BY <1>1, <2>1, <2>4, <3>2, CutKeeps
    <3>4. QED BY <1>2, <2>2, <3>1, <3>3
  <2>5. CASE p.at > 0 /\ p.at <= d
    <3>1. q.at = -1 /\ p.at \in 1 .. Len(m)
      BY <1>1, <1>2, <1>3, <2>5 DEF CutAt
    <3>2. Leading(w, Len(w))
      BY <1>1, <2>1, <2>5, <3>1, CutKeeps
    <3>3. QED BY <1>2, <2>2, <3>1, <3>2
  <2>6. CASE p.at > 0 /\ p.at > d
    <3>1. q.at > 0 /\ q.at + 1 = p.at - d + 2 /\ p.at \in 1 .. Len(m)
      BY <1>1, <1>2, <1>3, <2>6 DEF CutAt
    <3>2. AllResults(w, p.at - d + 2, Len(w))
      BY <1>1, <2>1, <2>6, <3>1, CutKeeps
    <3>3. QED BY <3>1, <3>2
  <2>7. p.at = -1 \/ p.at = 0 \/ p.at > 0
    BY <1>1
  <2>8. p.at <= d \/ p.at > d
    BY <1>1, <1>2
  <2>9. QED BY <2>3, <2>4, <2>5, <2>6, <2>7, <2>8
<1>8. PendOK(w, q, R, R)
  BY <1>7 DEF PendOK
<1>9. OpenOK(w, a, q, R, R)
  BY DEF OpenOK
<1>10. StoryOf(w, a, q, R, R, TRUE)
  BY <1>5, <1>6, <1>8, <1>9 DEF StoryOf
<1>11. QED BY <1>10 DEF q

\* One update of the three fields of a projection.
Updated(f, w, a, z) == [f EXCEPT !.msgs = w, !.start = a, !.pend.at = z]

LEMMA FieldsUpdated ==
  ASSUME NEW f, f = [msgs |-> f.msgs, start |-> f.start, pend |-> f.pend], NEW w, NEW a, NEW z
  PROVE Updated(f, w, a, z) =
          [msgs |-> w, start |-> a, pend |-> [f.pend EXCEPT !.at = z]]
<1> DEFINE r == [f.pend EXCEPT !.at = z]
           g == [f EXCEPT !.msgs = w]
           h == [g EXCEPT !.start = a]
           k == [h EXCEPT !.pend = r]
<1>1. Updated(f, w, a, z) = k
  BY DEF Updated
<1> HIDE DEF r
<1>2. g = [msgs |-> w, start |-> f.start, pend |-> f.pend]
  OBVIOUS
<1> HIDE DEF g
<1>3. h = [msgs |-> w, start |-> a, pend |-> f.pend]
  BY <1>2
<1> HIDE DEF h
<1>4. k = [msgs |-> w, start |-> a, pend |-> r]
  BY <1>3
<1> HIDE DEF k
<1>5. QED BY <1>1, <1>4 DEF r

\* A checkpoint_created.
LEMMA CheckpointKeeps ==
  ASSUME NEW s, NEW R, NEW c, Story(s, R, R, c), NEW keep \in Nat
  PROVE /\ Story(OnCheckpoint(s, keep), R, R, TRUE)
        /\ s.start >= 0 => OnCheckpoint(s, keep).start >= 0
<1> DEFINE f == Flushed(s)
           m == f.msgs
           kept == Min({keep, Len(m)})
           d == Len(m) - kept
           w == <<Checkpoint>> \o LastN(m, kept)
           a == IF f.start >= 0 THEN Min({f.start, kept + 1}) ELSE f.start
           at == f.pend.at - d + 1
           q == [f.pend EXCEPT !.at = CutAt(f.pend.at, d)]
           t == [f EXCEPT !.msgs = <<Checkpoint>> \o LastN(@, kept),
                          !.start = IF @ >= 0 THEN Min({@, kept + 1}) ELSE @,
                          !.pend.at = IF @ <= 0 THEN @ ELSE IF at >= 2 THEN at ELSE -1]
<1>1. OnCheckpoint(s, keep) = t
  BY DEF OnCheckpoint
<1>2. Story(f, R, R, c) /\ f.start = s.start
  BY FlushKeeps
<1> HIDE DEF f
<1>3. f = [msgs |-> m, start |-> f.start, pend |-> f.pend] /\ StoryOf(m, f.start, f.pend, R, R, c)
  BY <1>2 DEF Story
<1>4. /\ m \in Seq(StoryMessages) /\ Len(m) \in Nat /\ f.start \in -1 .. Len(m)
      /\ f.pend \in [open : BOOLEAN, text : BOOLEAN, calls : Seq(Nat), at : -1 .. Len(m)]
  BY <1>3 DEF StoryOf, StoryType
<1> HIDE DEF m
<1>5. kept \in 0 .. Len(m)
  <2>1. kept = IF keep <= Len(m) THEN keep ELSE Len(m)
    BY <1>4, MinOfTwo
  <2> HIDE DEF kept
  <2>2. QED BY <1>4, <2>1
<1> HIDE DEF kept
<1>6. Cut(m, w, d)
  BY <1>4, <1>5, CutTail
<1>7. Len(w) = kept + 1
  <2>1. Len(w) = Len(m) - d + 1
    BY <1>6 DEF Cut
  <2> HIDE DEF w
  <2>2. QED BY <1>4, <1>5, <2>1
<1>8. a \in -1 .. Len(w) /\ (f.start >= 0 => a >= 0)
  <2>1. f.start >= 0 => Min({f.start, kept + 1}) = IF f.start <= kept + 1 THEN f.start ELSE kept + 1
    BY <1>4, <1>5, MinOfTwo
  <2> HIDE DEF w
  <2>2. QED BY <1>4, <1>5, <1>7, <2>1
<1>9. t = [msgs |-> w, start |-> a, pend |-> q]
  <2> DEFINE z == IF f.pend.at <= 0 THEN f.pend.at ELSE IF at >= 2 THEN at ELSE -1
  <2>1. z = CutAt(f.pend.at, d)
    BY DEF CutAt
  <2>2. t = Updated(f, w, a, z)
    BY <1>3 DEF m, Updated
  <2> HIDE DEF w, a, z, d
  <2>3. Updated(f, w, a, z) = [msgs |-> w, start |-> a, pend |-> [f.pend EXCEPT !.at = z]]
    <3>1. f = [msgs |-> f.msgs, start |-> f.start, pend |-> f.pend]
      BY <1>3 DEF m
    <3>2. QED BY <3>1, FieldsUpdated
  <2>4. QED BY <2>1, <2>2, <2>3
<1> HIDE DEF w, a, d, t
<1>10. StoryOf(w, a, q, R, R, TRUE)
  BY <1>3, <1>6, <1>8, CutStory
<1> HIDE DEF q
<1>11. Story(t, R, R, TRUE) /\ t.start = a
  BY <1>9, <1>10 DEF Story
<1>12. QED BY <1>1, <1>2, <1>8, <1>11

\* r is the first n messages of m.
FirstOnes(m, r, n) == n \in 0 .. Len(m) /\ r \in Seq(StoryMessages) /\ Len(r) = n /\ \A i \in 1 .. n : r[i] = m[i]

\* The messages a restart takes from a projection.
LEMMA RestoredOnes ==
  ASSUME NEW events, NEW R, NEW F, NEW c, Story(Projected(events), R, F, c)
  PROVE LET s == Projected(events)
        IN  FirstOnes(s.msgs, Restored(events), IF s.start >= 0 THEN s.start ELSE Len(s.msgs))
<1> DEFINE s == Projected(events)
           m == s.msgs
           b == s.start
<1>1. m \in Seq(StoryMessages) /\ Len(m) \in Nat /\ b \in -1 .. Len(m)
  BY DEF Story, StoryOf, StoryType
<1>2. Restored(events) = IF b >= 0 THEN SubSeq(m, 1, b) ELSE m
  BY DEF Restored
<1> HIDE DEF m, b
<1>3. CASE b >= 0
  <2>1. SubSeq(m, 1, b) \in Seq(StoryMessages) /\ Len(SubSeq(m, 1, b)) = b /\ b \in 0 .. Len(m)
    BY <1>1, <1>3
  <2>2. \A i \in 1 .. b : SubSeq(m, 1, b)[i] = m[i]
    BY <1>1, <1>3
  <2>3. FirstOnes(m, Restored(events), b)
    BY <1>2, <1>3, <2>1, <2>2 DEF FirstOnes
  <2>4. QED BY <1>3, <2>3 DEF m, b
<1>4. CASE ~(b >= 0)
  <2>1. FirstOnes(m, Restored(events), Len(m))
    BY <1>1, <1>2, <1>4 DEF FirstOnes
  <2>2. QED BY <1>4, <2>1 DEF m, b
<1>5. QED BY <1>3, <1>4

\* They are paired.
LEMMA RestoredPairs ==
  ASSUME Story(Projected(log.events), LoggedIds(log.events, "tool_call_requested"),
               LoggedIds(log.events, "tool_call_finished"), LoggedIds(log.events, "checkpoint_created") # {})
  PROVE ResumedPairs
<1> DEFINE s == Projected(log.events)
           m == s.msgs
           b == s.start
           p == s.pend
           r == Restored(log.events)
           n == IF b >= 0 THEN b ELSE Len(m)
           R == LoggedIds(log.events, "tool_call_requested")
           F == LoggedIds(log.events, "tool_call_finished")
           c == LoggedIds(log.events, "checkpoint_created") # {}
<1>1. StoryOf(m, b, p, R, F, c)
  BY DEF Story
<1>2. FirstOnes(m, r, n)
  BY RestoredOnes
<1>3. ResumedPairs = (/\ \A i \in Results(r) : HasCall(r, i) \/ Leading(r, i)
                      /\ \A i, k \in Results(r) : r[i].id = r[k].id => i = k
                      /\ ~c => \A i \in DOMAIN r : \A id \in ToSet(r[i].calls) :
                                 \E k \in Results(r) : k > i /\ r[k].id = id /\ AllResults(r, i + 1, k))
  BY DEF ResumedPairs
<1> HIDE DEF R, F, c, r, s
<1>4. /\ m \in Seq(StoryMessages) /\ Len(m) \in Nat /\ b \in -1 .. Len(m) /\ DOMAIN m = 1 .. Len(m)
      /\ p.at \in -1 .. Len(m)
      /\ ResultsOK(m, F) /\ OpenOK(m, b, p, R, F) /\ (~c => AnsweredOK(m, b, p, R, F))
  BY <1>1 DEF StoryOf, StoryType
<1> HIDE DEF m, b, p
<1>5. n \in 0 .. Len(m) /\ DOMAIN r = 1 .. n /\ \A i \in 1 .. n : r[i] = m[i]
  BY <1>2, <1>4 DEF FirstOnes
<1>6. (b >= 0 => n = b) /\ (~(b >= 0) => n = Len(m))
  OBVIOUS
<1> HIDE DEF n
<1>7. ASSUME NEW i \in 1 .. n PROVE i \in 1 .. Len(m) /\ (i \in Results(r) <=> i \in Results(m))
  BY <1>4, <1>5, <1>7 DEF Results
<1>8. Results(r) \subseteq 1 .. n
  BY <1>5 DEF Results
<1>9. ASSUME NEW i \in 1 .. n, NEW j \in 1 .. i, AllResults(m, j + 1, i) PROVE AllResults(r, j + 1, i)
  <2>1. \A l \in j + 1 .. i : l \in 1 .. n
    BY <1>4, <1>5
  <2>2. QED BY <1>5, <1>9, <2>1 DEF AllResults
<1>10. ASSUME NEW i \in Results(r) PROVE HasCall(r, i) \/ Leading(r, i)
  <2>1. i \in 1 .. n /\ i \in Results(m) /\ Paired(m, i) /\ r[i] = m[i]
    <3>1. i \in 1 .. n /\ i \in Results(m)
      BY <1>7, <1>8
    <3>2. QED BY <1>4, <1>5, <3>1 DEF ResultsOK
  <2>2. CASE Leading(m, i)
    <3>1. 1 \in 1 .. n /\ \A j \in 1 .. i : j \in 1 .. n
      BY <1>4, <1>5, <2>1
    <3>2. Leading(r, i)
      BY <1>5, <2>2, <3>1 DEF Leading
    <3>3. QED BY <3>2
  <2>3. CASE \E j \in 1 .. i - 1 : m[i].id \in ToSet(m[j].calls) /\ AllResults(m, j + 1, i)
    <3>1. PICK j \in 1 .. i - 1 : m[i].id \in ToSet(m[j].calls)
      BY <2>3
    <3>2. j \in 1 .. n
      BY <1>4, <1>5, <2>1
    <3>3. HasCall(r, i)
      BY <1>5, <2>1, <3>1, <3>2 DEF HasCall
    <3>4. QED BY <3>3
  <2>4. QED BY <2>1, <2>2, <2>3 DEF Paired
<1>11. ASSUME NEW i \in Results(r), NEW k \in Results(r), r[i].id = r[k].id PROVE i = k
  <2>1. i \in Results(m) /\ k \in Results(m) /\ m[i].id = m[k].id
    BY <1>5, <1>7, <1>8, <1>11
  <2>2. QED BY <1>4, <2>1 DEF ResultsOK
<1>12. ASSUME ~c, NEW i \in DOMAIN r, NEW id \in ToSet(r[i].calls)
       PROVE \E k \in Results(r) : k > i /\ r[k].id = id /\ AllResults(r, i + 1, k)
  <2>1. i \in 1 .. n /\ i \in DOMAIN m /\ id \in ToSet(m[i].calls)
    BY <1>4, <1>5, <1>7, <1>12
  <2>2. id \in R /\ (id \notin F => i = p.at) /\ (id \in F => AnsweredAt(m, b, i, id)) /\ (p.at > 0 => p.at > b)
    BY <1>4, <1>12, <2>1 DEF AnsweredOK
  <2>3. id \in F
    <3>1. SUFFICES ASSUME id \notin F PROVE FALSE
      OBVIOUS
    <3>2. i = p.at /\ p.at > b /\ id \in R \ F
      BY <1>4, <1>5, <2>1, <2>2, <3>1
    <3>3. b >= 0
      BY <1>4, <3>2 DEF OpenOK
    <3>4. QED BY <1>4, <1>6, <2>1, <3>2, <3>3
  <2>4. PICK k \in Results(m) : k > i /\ m[k].id = id /\ AllResults(m, i + 1, k) /\ (i <= b => k <= b)
    BY <2>2, <2>3 DEF AnsweredAt
  <2>5. k \in 1 .. n
    <3>1. k \in 1 .. Len(m)
      BY <1>4 DEF Results
    <3>2. b >= 0 => i <= b
      BY <1>6, <2>1
    <3>3. QED BY <1>4, <1>6, <2>4, <3>1, <3>2
  <2>6. k \in Results(r) /\ r[k] = m[k]
    BY <1>5, <1>7, <2>5
  <2>7. AllResults(r, i + 1, k)
    <3>1. i \in 1 .. k
      BY <1>5, <2>1, <2>4, <2>5
    <3>2. QED BY <1>9, <2>4, <2>5, <3>1
  <2>8. QED BY <2>4, <2>6, <2>7
<1>13. QED BY <1>3, <1>10, <1>11, <1>12

Requested(events) == LoggedIds(events, "tool_call_requested")
Finished(events) == LoggedIds(events, "tool_call_finished")
HasCheckpoint(events) == LoggedIds(events, "checkpoint_created") # {}

\* The projection of the events is as Story says; so it is of every beginning.
Told(events) == Story(Projected(events), Requested(events), Finished(events), HasCheckpoint(events))
OnceRequested(events) ==
  \A i, j \in DOMAIN events :
    events[i].type = "tool_call_requested" /\ events[j].type = "tool_call_requested" /\ events[i].id = events[j].id
      => i = j
AlwaysTold(events) ==
  /\ events \in Seq(LogEvents) /\ OnceRequested(events)
  /\ \A n \in 0 .. Len(events) : Told(SubSeq(events, 1, n))

LEMMA NothingTold == AlwaysTold(<<>>) /\ Requested(<<>>) = {} /\ Finished(<<>>) = {}
<1>1. <<>> \in Seq(LogEvents) /\ Len(<<>>) = 0 /\ DOMAIN <<>> = {}
  OBVIOUS
<1>2. Event("text_delta", 0) \in LogEvents
  BY DEF Event, LogEvents, EventKinds
<1>3. \A type : LoggedIds(<<>>, type) = {}
  BY <1>1, <1>2, LoggedOneByOne
<1>4. Requested(<<>>) = {} /\ Finished(<<>>) = {} /\ ~HasCheckpoint(<<>>)
  BY <1>3 DEF Requested, Finished, HasCheckpoint
<1>5. Projected(<<>>) = NoMessages
  BY ProjectedOneByOne
<1>6. NoMessages = [msgs |-> <<>>, start |-> -1, pend |-> NoPending]
  BY DEF NoMessages
<1>7. /\ NoPending.open = FALSE /\ NoPending.at = 0
      /\ NoPending \in [open : BOOLEAN, text : BOOLEAN, calls : Seq(Nat), at : -1 .. 0]
  <2>1. <<>> \in Seq(Nat) /\ 0 \in -1 .. 0
    OBVIOUS
  <2>2. QED BY <2>1 DEF NoPending
<1>8. StoryOf(<<>>, -1, NoPending, {}, {}, FALSE)
  <2>1. <<>> \in Seq(StoryMessages) /\ -1 \in -1 .. 0
    OBVIOUS
  <2>2. StoryType(<<>>, -1, NoPending)
    BY <1>1, <1>7, <2>1 DEF StoryType
  <2>3. ResultsOK(<<>>, {})
    BY <1>1 DEF ResultsOK, Results
  <2>4. PendOK(<<>>, NoPending, {}, {}) /\ OpenOK(<<>>, -1, NoPending, {}, {})
    BY <1>7 DEF PendOK, OpenOK
  <2>5. AnsweredOK(<<>>, -1, NoPending, {}, {})
    BY <1>1, <1>7 DEF AnsweredOK
  <2>6. QED BY <2>2, <2>3, <2>4, <2>5 DEF StoryOf
<1>9. Told(<<>>)
  <2>1. Story(NoMessages, {}, {}, FALSE)
    <3>1. NoMessages.msgs = <<>> /\ NoMessages.start = -1 /\ NoMessages.pend = NoPending
      BY <1>6
    <3>2. QED BY <1>6, <1>8, <3>1 DEF Story
  <2>2. HasCheckpoint(<<>>) = FALSE
    BY <1>3 DEF HasCheckpoint
  <2>3. QED BY <1>4, <1>5, <2>1, <2>2 DEF Told
<1>10. \A n \in 0 .. Len(<<>>) : SubSeq(<<>>, 1, n) = <<>>
  OBVIOUS
<1>11. OnceRequested(<<>>)
  BY <1>1 DEF OnceRequested
<1>12. QED BY <1>1, <1>4, <1>9, <1>10, <1>11 DEF AlwaysTold

LEMMA ToldNow ==
  ASSUME NEW events, AlwaysTold(events)
  PROVE events \in Seq(LogEvents) /\ Len(events) \in Nat /\ Told(events)
<1>1. events \in Seq(LogEvents)
  BY DEF AlwaysTold
<1>2. Len(events) \in Nat /\ Len(events) \in 0 .. Len(events) /\ SubSeq(events, 1, Len(events)) = events
  BY <1>1
<1>3. Told(SubSeq(events, 1, Len(events)))
  BY <1>2 DEF AlwaysTold
<1>4. QED BY <1>1, <1>2, <1>3

\* A file that is cut off.
LEMMA CutOffTold ==
  ASSUME NEW events, AlwaysTold(events), NEW n \in 0 .. Len(events)
  PROVE LET stored == SubSeq(events, 1, n)
        IN  /\ AlwaysTold(stored) /\ Len(stored) = n
            /\ Requested(stored) \subseteq Requested(events)
<1> DEFINE stored == SubSeq(events, 1, n)
<1>1. events \in Seq(LogEvents) /\ Len(events) \in Nat /\ n \in Nat /\ n <= Len(events)
  BY DEF AlwaysTold
<1>2. /\ stored \in Seq(LogEvents) /\ Len(stored) = n /\ DOMAIN stored = 1 .. n /\ DOMAIN events = 1 .. Len(events)
      /\ \A i \in 1 .. n : stored[i] = events[i]
  BY <1>1
<1>3. \A k \in 0 .. n : SubSeq(stored, 1, k) = SubSeq(events, 1, k) /\ k \in 0 .. Len(events)
  BY <1>1
<1> HIDE DEF stored
<1>4. \A i \in 1 .. n : i \in 1 .. Len(events)
  BY <1>1
<1>5. OnceRequested(stored)
  BY <1>2, <1>4 DEF OnceRequested, AlwaysTold
<1>6. \A k \in 0 .. Len(stored) : Told(SubSeq(stored, 1, k))
  BY <1>2, <1>3 DEF AlwaysTold
<1>7. Requested(stored) \subseteq Requested(events)
  BY <1>2, <1>4 DEF Requested, LoggedIds
<1>8. AlwaysTold(stored) /\ Len(stored) = n /\ Requested(stored) \subseteq Requested(events)
  BY <1>2, <1>5, <1>6, <1>7 DEF AlwaysTold
<1>9. QED BY <1>8 DEF stored

\* One more event.
LEMMA OneMoreTold ==
  ASSUME NEW events, AlwaysTold(events), NEW e \in LogEvents, NEW v, v = Append(events, e), Told(v),
         e.type = "tool_call_requested" => e.id \notin Requested(events)
  PROVE AlwaysTold(v)
<1> DEFINE m == Len(events)
<1>1. events \in Seq(LogEvents) /\ m \in Nat /\ DOMAIN events = 1 .. m
  BY DEF AlwaysTold
<1>2. /\ v \in Seq(LogEvents) /\ Len(v) = m + 1 /\ DOMAIN v = 1 .. m + 1 /\ v[m + 1] = e
      /\ \A i \in 1 .. m : v[i] = events[i]
  BY <1>1
<1>3. \A n \in 0 .. m : SubSeq(v, 1, n) = SubSeq(events, 1, n)
  BY <1>1
<1>4. SubSeq(v, 1, m + 1) = v
  BY <1>1, <1>2
<1>5. \A n \in 0 .. m + 1 : n \in 0 .. m \/ n = m + 1
  BY <1>1
<1>6. \A n \in 0 .. Len(v) : Told(SubSeq(v, 1, n))
  BY <1>2, <1>3, <1>4, <1>5 DEF AlwaysTold
<1>7. \A i \in 1 .. m + 1 : i \in 1 .. m \/ i = m + 1
  BY <1>1
<1>8. \A i \in 1 .. m : events[i].type = "tool_call_requested" => events[i].id \in Requested(events)
  BY <1>1 DEF Requested, LoggedIds
<1> HIDE DEF m
<1>9. OnceRequested(v)
  <2>1. \A i, j \in 1 .. m : events[i].type = "tool_call_requested" /\ events[j].type = "tool_call_requested"
                              /\ events[i].id = events[j].id => i = j
    BY <1>1 DEF AlwaysTold, OnceRequested
  <2>2. QED BY <1>2, <1>7, <1>8, <2>1 DEF OnceRequested
<1>10. QED BY <1>2, <1>6, <1>9 DEF AlwaysTold

\* What one more event adds.
LEMMA OneMoreLogged ==
  ASSUME NEW events \in Seq(LogEvents), NEW e \in LogEvents
  PROVE LET v == Append(events, e)
        IN  /\ Projected(v) = ProjectionStep(Projected(events), e)
            /\ Requested(v) = Requested(events) \cup (IF e.type = "tool_call_requested" THEN {e.id} ELSE {})
            /\ Finished(v) = Finished(events) \cup (IF e.type = "tool_call_finished" THEN {e.id} ELSE {})
            /\ HasCheckpoint(v) <=> HasCheckpoint(events) \/ e.type = "checkpoint_created"
<1>1. Projected(Append(events, e)) = ProjectionStep(Projected(events), e)
  BY ProjectedOneByOne
<1>2. \A type : LoggedIds(Append(events, e), type) =
                  LoggedIds(events, type) \cup (IF e.type = type THEN {e.id} ELSE {})
  BY LoggedOneByOne
<1>3. Requested(Append(events, e)) = Requested(events) \cup (IF e.type = "tool_call_requested" THEN {e.id} ELSE {})
  BY <1>2 DEF Requested
<1>4. Finished(Append(events, e)) = Finished(events) \cup (IF e.type = "tool_call_finished" THEN {e.id} ELSE {})
  BY <1>2 DEF Finished
<1>5. HasCheckpoint(Append(events, e)) <=> HasCheckpoint(events) \/ e.type = "checkpoint_created"
  BY <1>2 DEF HasCheckpoint
<1>6. QED BY <1>1, <1>3, <1>4, <1>5

\* The log is longer, the calls are what they were.
Calm(events, v) ==
  /\ AlwaysTold(v) /\ Requested(v) = Requested(events) /\ Finished(v) = Finished(events)

LEMMA TextTold ==
  ASSUME NEW events, AlwaysTold(events), Requested(events) = Finished(events)
  PROVE LET v == Append(events, Event("text_delta", 0))
        IN  Calm(events, v) /\ Projected(v).start = Projected(events).start
<1> DEFINE e == Event("text_delta", 0)
           v == Append(events, e)
           s == Projected(events)
<1>1. events \in Seq(LogEvents) /\ Story(s, Requested(events), Requested(events), HasCheckpoint(events))
  BY ToldNow DEF Told
<1>2. e \in LogEvents /\ e.type = "text_delta"
  BY DEF Event, LogEvents, EventKinds
<1> HIDE DEF e, s
<1>3. /\ Projected(v) = ProjectionStep(s, e) /\ Requested(v) = Requested(events)
      /\ Finished(v) = Finished(events) /\ (HasCheckpoint(v) <=> HasCheckpoint(events))
  BY <1>1, <1>2, OneMoreLogged DEF s
<1>4. ProjectionStep(s, e) = [Renewed(s) EXCEPT !.pend.text = TRUE]
  BY <1>2 DEF ProjectionStep
<1> DEFINE t == [Renewed(s) EXCEPT !.pend.text = TRUE]
<1>5. Story(t, Requested(events), Requested(events), HasCheckpoint(events)) /\ t.start = s.start
  BY <1>1, TextKeeps
<1> HIDE DEF t, v
<1>6. HasCheckpoint(v) = HasCheckpoint(events)
  BY <1>3 DEF HasCheckpoint
<1>7. Projected(v) = t
  BY <1>3, <1>4 DEF t
<1>8. Told(v)
  BY <1>3, <1>5, <1>6, <1>7 DEF Told
<1>9. AlwaysTold(v)
  BY <1>2, <1>8, OneMoreTold DEF v
<1>10. Calm(events, v) /\ Projected(v).start = Projected(events).start
  BY <1>3, <1>5, <1>7, <1>9 DEF Calm, s
<1>11. QED BY <1>10 DEF v, e

\* A prompt.
LEMMA PromptTold ==
  ASSUME NEW events, AlwaysTold(events), Requested(events) = Finished(events), NEW prompt \in Nat
  PROVE LET v == Append(events, Event("user_message", prompt))
        IN  Calm(events, v) /\ Projected(v).start >= 0
<1> DEFINE e == Event("user_message", prompt)
           v == Append(events, e)
           s == Projected(events)
<1>1. events \in Seq(LogEvents) /\ Story(s, Requested(events), Requested(events), HasCheckpoint(events))
  BY ToldNow DEF Told
<1>2. e \in LogEvents /\ e.type = "user_message" /\ e.id = prompt
  BY DEF Event, LogEvents, EventKinds
<1> HIDE DEF e, s
<1>3. /\ Projected(v) = ProjectionStep(s, e) /\ Requested(v) = Requested(events)
      /\ Finished(v) = Finished(events) /\ (HasCheckpoint(v) <=> HasCheckpoint(events))
  BY <1>1, <1>2, OneMoreLogged DEF s
<1> DEFINE t == OnUserMessage(s, prompt)
<1>4. ProjectionStep(s, e) = t
  BY <1>2 DEF ProjectionStep
<1>5. Story(t, Requested(events), Requested(events), HasCheckpoint(events)) /\ t.start >= 0
  BY <1>1, UserMessageKeeps
<1> HIDE DEF t, v
<1>6. HasCheckpoint(v) = HasCheckpoint(events)
  BY <1>3 DEF HasCheckpoint
<1>7. Projected(v) = t
  BY <1>3, <1>4
<1>8. Told(v)
  BY <1>3, <1>5, <1>6, <1>7 DEF Told
<1>9. AlwaysTold(v)
  BY <1>2, <1>8, OneMoreTold DEF v
<1>10. Calm(events, v) /\ Projected(v).start >= 0
  BY <1>3, <1>5, <1>7, <1>9 DEF Calm, s
<1>11. QED BY <1>10 DEF v, e

\* The end of a turn.
LEMMA TurnTold ==
  ASSUME NEW events, AlwaysTold(events), Requested(events) = Finished(events)
  PROVE LET v == Append(events, Event("turn_finished", 0))
        IN  Calm(events, v)
<1> DEFINE e == Event("turn_finished", 0)
           v == Append(events, e)
           s == Projected(events)
<1>1. events \in Seq(LogEvents) /\ Story(s, Requested(events), Requested(events), HasCheckpoint(events))
  BY ToldNow DEF Told
<1>2. e \in LogEvents /\ e.type = "turn_finished"
  BY DEF Event, LogEvents, EventKinds
<1> HIDE DEF e, s
<1>3. /\ Projected(v) = ProjectionStep(s, e) /\ Requested(v) = Requested(events)
      /\ Finished(v) = Finished(events) /\ (HasCheckpoint(v) <=> HasCheckpoint(events))
  BY <1>1, <1>2, OneMoreLogged DEF s
<1> DEFINE t == OnTurnFinished(s)
<1>4. ProjectionStep(s, e) = t
  BY <1>2 DEF ProjectionStep
<1>5. Story(t, Requested(events), Requested(events), HasCheckpoint(events))
  BY <1>1, TurnFinishedKeeps
<1> HIDE DEF t, v
<1>6. HasCheckpoint(v) = HasCheckpoint(events)
  BY <1>3 DEF HasCheckpoint
<1>7. Projected(v) = t
  BY <1>3, <1>4
<1>8. Told(v)
  BY <1>3, <1>5, <1>6, <1>7 DEF Told
<1>9. AlwaysTold(v)
  BY <1>2, <1>8, OneMoreTold DEF v
<1>10. Calm(events, v)
  BY <1>3, <1>5, <1>7, <1>9 DEF Calm, s
<1>11. QED BY <1>10 DEF v, e

\* A checkpoint.
LEMMA CheckpointTold ==
  ASSUME NEW events, AlwaysTold(events), Requested(events) = Finished(events), NEW keep \in Nat
  PROVE LET v == Append(events, Event("checkpoint_created", keep))
        IN  Calm(events, v) /\ (Projected(events).start >= 0 => Projected(v).start >= 0)
<1> DEFINE e == Event("checkpoint_created", keep)
           v == Append(events, e)
           s == Projected(events)
<1>1. events \in Seq(LogEvents) /\ Story(s, Requested(events), Requested(events), HasCheckpoint(events))
  BY ToldNow DEF Told
<1>2. e \in LogEvents /\ e.type = "checkpoint_created" /\ e.id = keep
  BY DEF Event, LogEvents, EventKinds
<1> HIDE DEF e, s
<1>3. /\ Projected(v) = ProjectionStep(s, e) /\ Requested(v) = Requested(events)
      /\ Finished(v) = Finished(events) /\ (HasCheckpoint(v) <=> TRUE)
  BY <1>1, <1>2, OneMoreLogged DEF s
<1> DEFINE t == OnCheckpoint(s, keep)
<1>4. ProjectionStep(s, e) = t
  BY <1>2 DEF ProjectionStep
<1>5. Story(t, Requested(events), Requested(events), TRUE) /\ (s.start >= 0 => t.start >= 0)
  BY <1>1, CheckpointKeeps
<1> HIDE DEF t, v
<1>6. HasCheckpoint(v) = TRUE
  BY <1>3 DEF HasCheckpoint
<1>7. Projected(v) = t
  BY <1>3, <1>4
<1>8. Told(v)
  BY <1>3, <1>5, <1>6, <1>7 DEF Told
<1>9. AlwaysTold(v)
  BY <1>2, <1>8, OneMoreTold DEF v
<1>10. Calm(events, v) /\ (Projected(events).start >= 0 => Projected(v).start >= 0)
  BY <1>3, <1>5, <1>7, <1>9 DEF Calm, s
<1>11. QED BY <1>10 DEF v, e

\* A call begins.
LEMMA CallTold ==
  ASSUME NEW events, AlwaysTold(events), Requested(events) = Finished(events), Projected(events).start >= 0,
         NEW x \in Nat, x \notin Requested(events)
  PROVE LET v == Append(events, Event("tool_call_requested", x))
        IN  /\ AlwaysTold(v) /\ Requested(v) = Requested(events) \cup {x} /\ Finished(v) = Finished(events)
            /\ Projected(v).start = Projected(events).start
<1> DEFINE e == Event("tool_call_requested", x)
           v == Append(events, e)
           s == Projected(events)
           R == Requested(events)
<1>1. events \in Seq(LogEvents) /\ Story(s, R, R, HasCheckpoint(events)) /\ s.start >= 0
  BY ToldNow DEF Told
<1>2. e \in LogEvents /\ e.type = "tool_call_requested" /\ e.id = x
  BY DEF Event, LogEvents, EventKinds
<1> HIDE DEF e, s
<1>3. /\ Projected(v) = ProjectionStep(s, e) /\ Requested(v) = R \cup {x}
      /\ Finished(v) = R /\ (HasCheckpoint(v) <=> HasCheckpoint(events))
  BY <1>1, <1>2, OneMoreLogged DEF s
<1> DEFINE t == OnRequested(s, x)
<1>4. ProjectionStep(s, e) = t
  BY <1>2 DEF ProjectionStep
<1>5. Story(t, R \cup {x}, R, HasCheckpoint(events)) /\ t.start = s.start
  BY <1>1, RequestedKeeps
<1> HIDE DEF t, v
<1>6. HasCheckpoint(v) = HasCheckpoint(events)
  BY <1>3 DEF HasCheckpoint
<1>7. Projected(v) = t
  BY <1>3, <1>4
<1>8. Told(v)
  BY <1>3, <1>5, <1>6, <1>7 DEF Told
<1>9. AlwaysTold(v)
  BY <1>2, <1>8, OneMoreTold DEF v
<1>10. /\ AlwaysTold(v) /\ Requested(v) = Requested(events) \cup {x} /\ Finished(v) = Finished(events)
       /\ Projected(v).start = Projected(events).start
  BY <1>3, <1>5, <1>7, <1>9 DEF s
<1>11. QED BY <1>10 DEF v, e

\* The result of the open call.
LEMMA ResultTold ==
  ASSUME NEW events, AlwaysTold(events), NEW x \in Nat, Requested(events) \ Finished(events) = {x}
  PROVE LET v == Append(events, Event("tool_call_finished", x))
        IN  /\ AlwaysTold(v) /\ Requested(v) = Requested(events) /\ Finished(v) = Requested(events)
            /\ Projected(v).start = Projected(events).start
<1> DEFINE e == Event("tool_call_finished", x)
           v == Append(events, e)
           s == Projected(events)
           R == Requested(events)
           F == Finished(events)
<1>1. events \in Seq(LogEvents) /\ Story(s, R, F, HasCheckpoint(events))
  BY ToldNow DEF Told
<1>2. e \in LogEvents /\ e.type = "tool_call_finished" /\ e.id = x
  BY DEF Event, LogEvents, EventKinds
<1> HIDE DEF e, s
<1>3. /\ Projected(v) = ProjectionStep(s, e) /\ Requested(v) = R
      /\ Finished(v) = F \cup {x} /\ (HasCheckpoint(v) <=> HasCheckpoint(events))
  BY <1>1, <1>2, OneMoreLogged DEF s
<1>4. x \in R /\ x \notin F /\ F \cup {x} = R
  <2>1. F \subseteq R
    BY <1>1 DEF Story, StoryOf
  <2>2. QED BY <2>1
<1> DEFINE t == OnFinished(s, x)
<1>5. ProjectionStep(s, e) = t
  BY <1>2 DEF ProjectionStep
<1>6. Story(t, R, F \cup {x}, HasCheckpoint(events)) /\ t.start = s.start
  BY <1>1, <1>4, FinishedKeeps
<1> HIDE DEF t, v
<1>7. HasCheckpoint(v) = HasCheckpoint(events)
  BY <1>3 DEF HasCheckpoint
<1>8. Projected(v) = t
  BY <1>3, <1>5
<1>9. Told(v)
  BY <1>3, <1>6, <1>7, <1>8 DEF Told
<1>10. AlwaysTold(v)
  BY <1>2, <1>9, OneMoreTold DEF v
<1>11. /\ AlwaysTold(v) /\ Requested(v) = Requested(events) /\ Finished(v) = Requested(events)
       /\ Projected(v).start = Projected(events).start
  BY <1>3, <1>4, <1>6, <1>8, <1>10 DEF s
<1>12. QED BY <1>11 DEF v, e

LEMMA OneMore ==
  ASSUME NEW S, NEW s \in Seq(S), NEW e \in S
  PROVE s \o <<e>> = Append(s, e) /\ Len(Append(s, e)) = Len(s) + 1 /\ s \o <<>> = s
OBVIOUS

\* A sequence of at most one element.
LEMMA AtMostOneMore ==
  ASSUME NEW S, NEW s \in Seq(S), NEW q \in Seq(S)
  PROVE /\ Len(q) = 0 => s \o q = s
        /\ Len(q) = 1 => s \o q = Append(s, q[1])
<1>1. Len(q) = 0 => q = <<>>
  OBVIOUS
<1>2. ASSUME Len(q) = 1 PROVE s \o q = Append(s, q[1])
  <2>1. q[1] \in S
    BY <1>2
  <2>2. q = <<q[1]>>
    BY <1>2
  <2>3. s \o <<q[1]>> = Append(s, q[1])
    BY <2>1, OneMore
  <2>4. QED BY <2>2, <2>3
<1>3. Len(q) = 0 => s \o q = s
  BY <1>1
<1>4. QED BY <1>2, <1>3

\* A sequence is one of its own elements.
LEMMA OwnElements ==
  /\ \A T : \A f \in Seq(T) : f \in Seq(ToSet(f))
  /\ \A n \in Nat : \A f : f = [k \in 1 .. n |-> f[k]] => f \in Seq(ToSet(f))
  /\ \A f, g : f \in Seq(ToSet(f)) => Append(f, g) \in Seq(ToSet(Append(f, g)))
<1>1. ASSUME NEW n \in Nat, NEW f, f = [k \in 1 .. n |-> f[k]] PROVE f \in Seq(ToSet(f))
  <2>1. DOMAIN f = 1 .. n
    BY <1>1
  <2>2. \A k \in 1 .. n : f[k] \in ToSet(f)
    BY <2>1 DEF ToSet
  <2> DEFINE V == ToSet(f)
  <2> HIDE DEF V
  <2>3. f \in [1 .. n -> V]
    BY <1>1, <2>2 DEF V
  <2>4. f \in Seq(V)
    BY <2>3
  <2>5. QED BY <2>4 DEF V
<1>2. ASSUME NEW T, NEW f \in Seq(T) PROVE f \in Seq(ToSet(f))
  <2>1. Len(f) \in Nat /\ f = [k \in 1 .. Len(f) |-> f[k]]
    OBVIOUS
  <2>2. QED BY <1>1, <2>1
<1>3. ASSUME NEW f, NEW g, f \in Seq(ToSet(f)) PROVE Append(f, g) \in Seq(ToSet(Append(f, g)))
  <2> DEFINE V == ToSet(f)
             W == V \cup {g}
  <2>1. f \in Seq(V)
    BY <1>3
  <2> HIDE DEF V
  <2>2. f \in Seq(W) /\ g \in W
    BY <2>1
  <2> HIDE DEF W
  <2>3. Append(f, g) \in Seq(W)
    BY <2>2
  <2>4. QED BY <1>2, <2>3
<1>4. QED BY <1>1, <1>2, <1>3

\* The tail a compaction keeps has a length.
LEMMA TailHasLength ==
  ASSUME NEW msgs, msgs \in Seq(ToSet(msgs))
  PROVE /\ Len(Tailed(msgs)) \in Nat
        /\ <<Checkpoint>> \o Tailed(msgs) \in Seq(ToSet(<<Checkpoint>> \o Tailed(msgs)))
<1> DEFINE T == ToSet(msgs)
           tail == LastN(msgs, KeepTail)
           results == {i \in DOMAIN tail : \A j \in 1 .. i : tail[j].role = "tool"}
           cut == Cardinality(results)
           q == SubSeq(tail, cut + 1, Len(tail))
           U == T \cup {Checkpoint}
<1>1. KeepTail \in Nat
  BY LogBounds
<1>2. msgs \in Seq(T)
  OBVIOUS
<1> HIDE DEF T
<1>3. tail \in Seq(T)
  BY <1>1, <1>2, LastOnes
<1> HIDE DEF tail
<1>4. Len(tail) \in Nat /\ DOMAIN tail = 1 .. Len(tail)
  BY <1>3
<1>5. cut \in 0 .. Len(tail)
  <2>1. IsFiniteSet(1 .. Len(tail)) /\ Cardinality(1 .. Len(tail)) = Len(tail)
    <3>1. 1 \in Int /\ Len(tail) \in Int
      BY <1>4
    <3>2. IsFiniteSet(1 .. Len(tail)) /\ Cardinality(1 .. Len(tail)) = IF 1 > Len(tail) THEN 0 ELSE Len(tail) - 1 + 1
      BY <3>1, FS_Interval
    <3>3. (IF 1 > Len(tail) THEN 0 ELSE Len(tail) - 1 + 1) = Len(tail)
      BY <1>4
    <3>4. QED BY <3>2, <3>3
  <2>2. results \subseteq 1 .. Len(tail)
    BY <1>4
  <2> HIDE DEF results
  <2>3. IsFiniteSet(results) /\ Cardinality(results) <= Cardinality(1 .. Len(tail))
    BY <2>1, <2>2, FS_Subset
  <2>4. Cardinality(results) \in Nat
    BY <2>3, FS_CardinalityType
  <2>5. QED BY <1>4, <2>1, <2>3, <2>4
<1>6. Tailed(msgs) = q
  BY DEF Tailed, tail
<1> HIDE DEF cut, results
<1>7. q \in Seq(T) /\ Len(q) \in Nat
  BY <1>3, <1>4, <1>5
<1> HIDE DEF q
<1>8. <<Checkpoint>> \in Seq(U) /\ q \in Seq(U)
  BY <1>7
<1> HIDE DEF U
<1>9. <<Checkpoint>> \o q \in Seq(U)
  BY <1>8
<1>10. QED BY <1>6, <1>7, <1>9, OwnElements

\* The elements at some places are a sequence.
LEMMA ElementsAreASequence ==
  ASSUME NEW s, NEW n \in Nat, NEW I, I \subseteq 1 .. n
  PROVE ElementsAt(s, I) \in Seq(ToSet(ElementsAt(s, I)))
<1> DEFINE e == ElementsAt(s, I)
<1>1. Cardinality(I) \in Nat
  <2>1. IsFiniteSet(1 .. n)
    BY FS_Interval
  <2>2. QED BY <2>1, FS_Subset, FS_CardinalityType
<1>2. e = [k \in 1 .. Cardinality(I) |-> e[k]]
  BY DEF ElementsAt
<1> HIDE DEF e
<1>3. e \in Seq(ToSet(e))
  BY <1>1, <1>2, OwnElements
<1>4. QED BY <1>3 DEF e

\* One call at most is open.
LEMMA OneOpenCall ==
  ASSUME NEW events, AlwaysTold(events)
  PROVE LET open == OpenCallsOf(events)
        IN  /\ open \in Seq(Nat)
            /\ \/ Len(open) = 0 /\ Requested(events) = Finished(events)
               \/ Len(open) = 1 /\ Requested(events) \ Finished(events) = {open[1]}
<1> DEFINE R == Requested(events)
           F == Finished(events)
           I == {i \in DOMAIN events : events[i].type = "tool_call_requested" /\ events[i].id \notin F}
           found == ElementsAt(events, I)
           open == OpenCallsOf(events)
<1>1. events \in Seq(LogEvents) /\ Told(events) /\ OnceRequested(events)
  BY ToldNow DEF AlwaysTold
<1>2. F \subseteq R /\ \A x \in R \ F : \A y \in R \ F : y = x
  BY <1>1 DEF Told, Story, StoryOf, OpenOK
<1>3. R = {events[i].id : i \in {j \in DOMAIN events : events[j].type = "tool_call_requested"}}
  BY DEF Requested, LoggedIds
<1>4. open = [k \in DOMAIN found |-> found[k].id]
  BY DEF OpenCallsOf, Finished
<1>5. found = [k \in 1 .. Cardinality(I) |-> events[CHOOSE i \in I : Rank(I, i) = k]]
  BY DEF ElementsAt
<1> HIDE DEF R, F, open, found
<1>6. CASE I = {}
  <2>1. Cardinality(I) = 0
    BY <1>6, FS_EmptySet
  <2>2. R = F
    BY <1>2, <1>3, <1>6
  <2> HIDE DEF I
  <2>3. DOMAIN found = 1 .. 0
    BY <1>5, <2>1
  <2>4. open = [k \in 1 .. 0 |-> open[k]] /\ DOMAIN open = 1 .. 0
    BY <1>4, <2>3
  <2>5. open \in [1 .. 0 -> Nat]
    BY <2>4
  <2>6. open \in Seq(Nat) /\ Len(open) = 0
    BY <2>4, <2>5
  <2>7. QED BY <2>2, <2>6 DEF R, F, open
<1>7. CASE I # {}
  <2>1. PICK i \in I : TRUE
    BY <1>7
  <2>2. \A j \in I : j = i
    <3>1. ASSUME NEW j \in I PROVE j = i
      <4>1. events[i].id \in R \ F /\ events[j].id \in R \ F
        BY <1>3, <2>1
      <4>2. events[i].id = events[j].id
        BY <1>2, <4>1
      <4>3. QED BY <1>1, <2>1, <4>2 DEF OnceRequested
    <3>2. QED BY <3>1
  <2>3. I = {i} /\ i \in DOMAIN events /\ events[i].id \in Nat /\ events[i].id \in R \ F
    <3>1. events[i].id \in Nat
      <4>1. i \in DOMAIN events
        BY <2>1
      <4>2. events[i] \in LogEvents
        BY <1>1, <4>1
      <4>3. QED BY <4>2 DEF LogEvents
    <3>2. QED BY <1>3, <2>1, <2>2, <3>1
  <2> HIDE DEF I
  <2>4. i \in Nat
    BY <1>1, <2>3
  <2>5. Cardinality(I) = 1 /\ Rank(I, i) = 1
    <3>1. {j \in I : j <= i} = {i}
      BY <2>3, <2>4
    <3>2. Cardinality({i}) = 1
      BY FS_Singleton
    <3>3. QED BY <2>3, <3>1, <3>2 DEF Rank
  <2>6. (CHOOSE l \in I : Rank(I, l) = 1) = i
    BY <2>3, <2>5
  <2>7. DOMAIN found = 1 .. 1 /\ found[1] = events[i]
    <3>1. found = [k \in 1 .. 1 |-> events[CHOOSE l \in I : Rank(I, l) = k]]
      BY <1>5, <2>5
    <3>2. 1 \in 1 .. 1
      OBVIOUS
    <3>3. DOMAIN found = 1 .. 1 /\ found[1] = events[CHOOSE l \in I : Rank(I, l) = 1]
      BY <3>1, <3>2
    <3>4. QED BY <2>6, <3>3
  <2>8. open = [k \in 1 .. 1 |-> open[k]] /\ DOMAIN open = 1 .. 1 /\ open[1] = events[i].id
    BY <1>4, <2>7
  <2>9. open \in [1 .. 1 -> Nat]
    BY <2>3, <2>8
  <2>10. open \in Seq(Nat) /\ Len(open) = 1
    BY <2>8, <2>9
  <2>11. R \ F = {open[1]}
    BY <1>2, <2>3, <2>8
  <2>12. QED BY <2>10, <2>11 DEF R, F, open
<1>8. QED BY <1>6, <1>7

\* The calls left of an answer are new, but for the first while it runs.
CallsLeft(events, pc, todo, next) ==
  /\ next \in Nat /\ todo \in Seq(Nat)
  /\ \A x \in Requested(events) : x < next
  /\ \A i \in DOMAIN todo :
       /\ todo[i] < next
       /\ todo[i] \in Requested(events) => pc = "tool" /\ i = 1
       /\ \A j \in DOMAIN todo : todo[i] = todo[j] => i = j

\* The log and the Executor that writes it: outside of a tool every call that was
\* requested is finished, and within a turn the projection is within it.
SessionOK(events, msgs, pc, todo, next) ==
  /\ AlwaysTold(events) /\ msgs \in Seq(ToSet(msgs)) /\ CallsLeft(events, pc, todo, next)
  /\ pc # "idle" => Projected(events).start >= 0
  /\ pc # "tool" => Requested(events) = Finished(events)
  /\ pc = "tool" => todo # <<>> /\ Requested(events) \ Finished(events) = {todo[1]}

LogFields ==
  /\ DOMAIN log = {"events", "acked"} /\ DOMAIN live = {"msgs", "pc", "todo", "next", "again"}
  /\ DOMAIN logEnv = {"prompts", "responses", "detours", "crashes"} /\ logEnv.prompts \in Nat

LogInv ==
  /\ LogFields /\ log.acked \in 0 .. Len(log.events)
  /\ SessionOK(log.events, live.msgs, live.pc, live.todo, live.next)

LEMMA LogInvInit == LogInit => LogInv
<1> SUFFICES ASSUME LogInit PROVE LogInv
  OBVIOUS
<1>1. /\ log = [events |-> <<>>, acked |-> 0]
      /\ live = [msgs |-> <<>>, pc |-> "idle", todo |-> <<>>, next |-> 1, again |-> {}]
      /\ logEnv = [prompts |-> 0, responses |-> 0, detours |-> 0, crashes |-> 0]
  BY DEF LogInit
<1>2. LogFields
  BY <1>1 DEF LogFields
<1>3. log.acked \in 0 .. Len(log.events)
  BY <1>1
<1>4. <<>> \in Seq(ToSet(<<>>)) /\ <<>> \in Seq(Nat) /\ DOMAIN <<>> = {}
  OBVIOUS
<1>5. CallsLeft(<<>>, "idle", <<>>, 1)
  BY <1>4, NothingTold DEF CallsLeft
<1>6. SessionOK(<<>>, <<>>, "idle", <<>>, 1)
  BY <1>4, <1>5, NothingTold DEF SessionOK
<1>7. QED BY <1>1, <1>2, <1>3, <1>6 DEF LogInv

\* A step that leaves the calls as they were.
LEMMA CalmKeeps ==
  ASSUME NEW events, NEW msgs, NEW pc, NEW todo, NEW next, SessionOK(events, msgs, pc, todo, next), pc # "tool",
         NEW v, Calm(events, v), NEW w, w \in Seq(ToSet(w)),
         NEW at, at # "tool", at # "idle" => Projected(v).start >= 0
  PROVE SessionOK(v, w, at, todo, next) /\ SessionOK(v, w, at, <<>>, next)
<1>1. /\ AlwaysTold(v) /\ Requested(v) = Requested(events) /\ Finished(v) = Requested(events)
      /\ CallsLeft(events, pc, todo, next)
  BY DEF SessionOK, Calm
<1>2. CallsLeft(v, at, todo, next)
  BY <1>1 DEF CallsLeft
<1>3. <<>> \in Seq(Nat) /\ DOMAIN <<>> = {}
  OBVIOUS
<1>4. CallsLeft(v, at, <<>>, next)
  BY <1>1, <1>3 DEF CallsLeft
<1>5. QED BY <1>1, <1>2, <1>4 DEF SessionOK

LEMMA NoChangeIsCalm ==
  ASSUME NEW events, AlwaysTold(events) PROVE Calm(events, events)
BY DEF Calm

\* Text, where there is some.
LEMMA TextIfTold ==
  ASSUME NEW events, AlwaysTold(events), Requested(events) = Finished(events), NEW text \in BOOLEAN
  PROVE LET v == events \o TextIf(text)
        IN  /\ Calm(events, v) /\ Projected(v).start = Projected(events).start
            /\ Len(v) \in Nat /\ Len(events) \in Nat /\ Len(v) >= Len(events) /\ v \in Seq(LogEvents)
<1> DEFINE e == Event("text_delta", 0)
           v == events \o TextIf(text)
<1>1. events \in Seq(LogEvents) /\ Len(events) \in Nat
  BY ToldNow
<1>2. e \in LogEvents
  BY DEF Event, LogEvents, EventKinds
<1>3. CASE text
  <2>1. v = events \o <<e>>
    BY <1>3 DEF TextIf
  <2>2. v = Append(events, e) /\ Len(v) = Len(events) + 1
    <3> HIDE DEF e, v
    <3>1. QED BY <1>1, <1>2, <2>1, OneMore
  <2>3. Calm(events, Append(events, e)) /\ Projected(Append(events, e)).start = Projected(events).start
    BY TextTold
  <2> HIDE DEF e, v
  <2>4. Append(events, e) \in Seq(LogEvents)
    BY <1>1, <1>2
  <2>5. Calm(events, v) /\ Projected(v).start = Projected(events).start /\ v \in Seq(LogEvents)
    BY <2>2, <2>3, <2>4
  <2>6. Len(v) \in Nat /\ Len(v) >= Len(events)
    BY <1>1, <2>2
  <2>7. QED BY <1>1, <2>5, <2>6 DEF v
<1>4. CASE ~text
  <2>1. v = events
    BY <1>1, <1>4 DEF TextIf
  <2>2. Calm(events, events)
    BY NoChangeIsCalm
  <2> HIDE DEF v
  <2>3. Calm(events, v) /\ Projected(v).start = Projected(events).start /\ v \in Seq(LogEvents)
    BY <1>1, <2>1, <2>2
  <2>4. Len(v) \in Nat /\ Len(v) >= Len(events)
    BY <1>1, <2>1
  <2>5. QED BY <1>1, <2>3, <2>4 DEF v
<1>5. QED BY <1>3, <1>4

\* What an action does to the variables, field by field.
LEMMA LogInvAgain ==
  ASSUME LogFields', log'.acked \in 0 .. Len(log'.events),
         SessionOK(log'.events, live'.msgs, live'.pc, live'.todo, live'.next)
  PROVE LogInv'
BY DEF LogInv, SessionOK, CallsLeft, LogFields

LEMMA PromptedKeeps == LogInv /\ Prompted => LogInv'
<1> SUFFICES ASSUME LogInv, Prompted PROVE LogInv'
  OBVIOUS
<1> DEFINE ev == log.events
           e == Event("user_message", logEnv.prompts + 1)
           v == Append(ev, e)
           w == Append(live.msgs, User(logEnv.prompts + 1))
<1>1. /\ LogFields /\ SessionOK(ev, live.msgs, live.pc, live.todo, live.next) /\ live.pc = "idle"
      /\ log' = [events |-> ev \o <<e>>, acked |-> Len(ev \o <<e>>)]
      /\ live' = [live EXCEPT !.msgs = w, !.pc = "model", !.again = {"pause", "resume"}]
      /\ logEnv' = [logEnv EXCEPT !.prompts = @ + 1]
  BY DEF LogInv, Prompted, EmitsAwaited
<1>2. AlwaysTold(ev) /\ Requested(ev) = Finished(ev) /\ ev \in Seq(LogEvents) /\ Len(ev) \in Nat
  BY <1>1, ToldNow DEF SessionOK
<1>3. logEnv.prompts + 1 \in Nat
  BY <1>1 DEF LogFields
<1>4. Calm(ev, v) /\ Projected(v).start >= 0
  BY <1>2, <1>3, PromptTold
<1>5. e \in LogEvents
  BY <1>3 DEF Event, LogEvents, EventKinds
<1> HIDE DEF e
<1>6. ev \o <<e>> = v /\ Len(v) = Len(ev) + 1
  BY <1>2, <1>5, OneMore
<1>7. w \in Seq(ToSet(w))
  BY <1>1, OwnElements DEF SessionOK
<1> HIDE DEF v, w, ev
<1>8. SessionOK(v, w, "model", live.todo, live.next)
  BY <1>1, <1>4, <1>7, CalmKeeps
<1>9. /\ log'.events = v /\ log'.acked = Len(v) /\ DOMAIN log' = {"events", "acked"}
      /\ DOMAIN live' = {"msgs", "pc", "todo", "next", "again"}
      /\ live'.msgs = w /\ live'.pc = "model" /\ live'.todo = live.todo /\ live'.next = live.next
      /\ DOMAIN logEnv' = {"prompts", "responses", "detours", "crashes"} /\ logEnv'.prompts = logEnv.prompts + 1
  BY <1>1, <1>6 DEF LogFields
<1>10. LogFields'
  BY <1>3, <1>9 DEF LogFields
<1>11. log'.acked \in 0 .. Len(log'.events)
  BY <1>2, <1>6, <1>9
<1>12. QED BY <1>8, <1>9, <1>10, <1>11, LogInvAgain

\* The steps that have no event: the messages may be others.
LEMMA QuietKeeps ==
  ASSUME LogInv, live.pc # "tool", log' = log, NEW w, w \in Seq(ToSet(w)), NEW at, at # "tool",
         at # "idle" => live.pc # "idle",
         DOMAIN live' = DOMAIN live, live'.msgs = w, live'.pc = at, live'.todo = live.todo, live'.next = live.next,
         DOMAIN logEnv' = DOMAIN logEnv, logEnv'.prompts = logEnv.prompts
  PROVE LogInv'
<1>1. LogFields /\ SessionOK(log.events, live.msgs, live.pc, live.todo, live.next) /\ log.acked \in 0 .. Len(log.events)
  BY DEF LogInv
<1>2. Calm(log.events, log.events) /\ (at # "idle" => Projected(log.events).start >= 0)
  BY <1>1, NoChangeIsCalm DEF SessionOK
<1>3. SessionOK(log.events, w, at, live.todo, live.next)
  BY <1>1, <1>2, CalmKeeps
<1>4. SessionOK(log'.events, live'.msgs, live'.pc, live'.todo, live'.next)
  BY <1>3
<1>5. LogFields'
  BY <1>1 DEF LogFields
<1>6. QED BY <1>1, <1>4, <1>5, LogInvAgain

LEMMA NothingToCompactKeeps == LogInv /\ NothingToCompact => LogInv'
<1> SUFFICES ASSUME LogInv, NothingToCompact PROVE LogInv'
  OBVIOUS
<1>1. /\ LogFields /\ live.msgs \in Seq(ToSet(live.msgs)) /\ live.pc = "answered"
      /\ live' = [live EXCEPT !.pc = "calls"] /\ log' = log /\ logEnv' = logEnv
  BY DEF LogInv, SessionOK, NothingToCompact
<1>2. /\ DOMAIN live' = DOMAIN live /\ live'.msgs = live.msgs /\ live'.pc = "calls"
      /\ live'.todo = live.todo /\ live'.next = live.next
  BY <1>1 DEF LogFields
<1>3. QED BY <1>1, <1>2, QuietKeeps

LEMMA NextRoundKeeps == LogInv /\ NextRound => LogInv'
<1> SUFFICES ASSUME LogInv, NextRound PROVE LogInv'
  OBVIOUS
<1>1. /\ LogFields /\ live.msgs \in Seq(ToSet(live.msgs)) /\ live.pc = "calls"
      /\ live' = [live EXCEPT !.pc = "model"] /\ log' = log /\ logEnv' = logEnv
  BY DEF LogInv, SessionOK, NextRound, AllDone
<1>2. /\ DOMAIN live' = DOMAIN live /\ live'.msgs = live.msgs /\ live'.pc = "model"
      /\ live'.todo = live.todo /\ live'.next = live.next
  BY <1>1 DEF LogFields
<1>3. QED BY <1>1, <1>2, QuietKeeps

LEMMA PausesKeeps == LogInv /\ Pauses => LogInv'
<1> SUFFICES ASSUME LogInv, Pauses PROVE LogInv'
  OBVIOUS
<1>1. /\ LogFields /\ live.msgs \in Seq(ToSet(live.msgs)) /\ live.pc = "calls"
      /\ live' = [live EXCEPT !.pc = "model", !.again = @ \ {"pause"}] /\ log' = log
      /\ logEnv' = [logEnv EXCEPT !.detours = @ + 1]
  BY DEF LogInv, SessionOK, Pauses, AllDone, Detour
<1>2. /\ DOMAIN live' = DOMAIN live /\ live'.msgs = live.msgs /\ live'.pc = "model"
      /\ live'.todo = live.todo /\ live'.next = live.next
      /\ DOMAIN logEnv' = DOMAIN logEnv /\ logEnv'.prompts = logEnv.prompts
  BY <1>1 DEF LogFields
<1>3. QED BY <1>1, <1>2, QuietKeeps

LEMMA DropsKeeps == LogInv /\ DropsOldResults => LogInv'
<1> SUFFICES ASSUME LogInv, DropsOldResults PROVE LogInv'
  OBVIOUS
<1>1. LogFields /\ live.msgs \in Seq(ToSet(live.msgs)) /\ live.pc = "model" /\ log' = log
  BY DEF LogInv, SessionOK, DropsOldResults
<1>2. logEnv' = [logEnv EXCEPT !.detours = @ + 1]
  BY DEF DropsOldResults, Detour
<1>3. PICK gone : live' = [live EXCEPT !.msgs = ElementsAt(@, DOMAIN @ \ gone)]
  BY DEF DropsOldResults
<1> DEFINE w == ElementsAt(live.msgs, DOMAIN live.msgs \ gone)
<1>4. w \in Seq(ToSet(w))
  <2>1. Len(live.msgs) \in Nat /\ DOMAIN live.msgs \ gone \subseteq 1 .. Len(live.msgs)
    BY <1>1
  <2>2. QED BY <2>1, ElementsAreASequence
<1>5. live' = [live EXCEPT !.msgs = w]
  BY <1>3
<1> HIDE DEF w
<1>6. /\ DOMAIN live' = DOMAIN live /\ live'.msgs = w /\ live'.pc = "model"
      /\ live'.todo = live.todo /\ live'.next = live.next
      /\ DOMAIN logEnv' = DOMAIN logEnv /\ logEnv'.prompts = logEnv.prompts
  BY <1>1, <1>2, <1>5 DEF LogFields
<1>7. QED BY <1>1, <1>4, <1>6, QuietKeeps

LEMMA CompactsKeeps == LogInv /\ Compacts => LogInv'
<1> SUFFICES ASSUME LogInv, Compacts PROVE LogInv'
  OBVIOUS
<1> DEFINE ev == log.events
           tail == Tailed(live.msgs)
           e == Event("checkpoint_created", Len(tail))
           v == Append(ev, e)
           w == <<Checkpoint>> \o tail
           at == IF live.pc = "answered" THEN "calls" ELSE live.pc
<1>1. /\ LogFields /\ SessionOK(ev, live.msgs, live.pc, live.todo, live.next) /\ live.pc \in {"model", "answered"}
      /\ log' = [log EXCEPT !.events = ev \o <<e>>] /\ log.acked \in 0 .. Len(ev)
      /\ live' = [live EXCEPT !.msgs = w, !.pc = at] /\ logEnv' = [logEnv EXCEPT !.detours = @ + 1]
  BY DEF LogInv, Compacts, Detour, Emits
<1>2. /\ AlwaysTold(ev) /\ Requested(ev) = Finished(ev) /\ ev \in Seq(LogEvents) /\ Len(ev) \in Nat
      /\ Projected(ev).start >= 0
  BY <1>1, ToldNow DEF SessionOK
<1>3. Len(tail) \in Nat /\ w \in Seq(ToSet(w))
  BY <1>1, TailHasLength DEF SessionOK
<1> HIDE DEF tail
<1>4. Calm(ev, v) /\ Projected(v).start >= 0
  BY <1>2, <1>3, CheckpointTold
<1>5. e \in LogEvents
  BY <1>3 DEF Event, LogEvents, EventKinds
<1> HIDE DEF e
<1>6. ev \o <<e>> = v /\ Len(v) = Len(ev) + 1
  BY <1>2, <1>5, OneMore
<1>7. at # "tool"
  BY <1>1
<1> HIDE DEF v, w, ev, at
<1>8. SessionOK(v, w, at, live.todo, live.next)
  BY <1>1, <1>3, <1>4, <1>7, CalmKeeps
<1>9. /\ log'.events = v /\ log'.acked = log.acked /\ DOMAIN log' = {"events", "acked"}
      /\ DOMAIN live' = {"msgs", "pc", "todo", "next", "again"}
      /\ live'.msgs = w /\ live'.pc = at /\ live'.todo = live.todo /\ live'.next = live.next
      /\ DOMAIN logEnv' = {"prompts", "responses", "detours", "crashes"} /\ logEnv'.prompts = logEnv.prompts
  BY <1>1, <1>6 DEF LogFields
<1>10. LogFields'
  BY <1>1, <1>9 DEF LogFields
<1>11. log'.acked \in 0 .. Len(log'.events)
  BY <1>1, <1>2, <1>6, <1>9
<1>12. QED BY <1>8, <1>9, <1>10, <1>11, LogInvAgain

LEMMA RespondsKeeps == LogInv /\ Responds => LogInv'
<1> SUFFICES ASSUME LogInv, Responds PROVE LogInv'
  OBVIOUS
<1> DEFINE ev == log.events
<1>1. /\ LogFields /\ SessionOK(ev, live.msgs, live.pc, live.todo, live.next) /\ live.pc = "model"
      /\ log.acked \in 0 .. Len(ev) /\ logEnv' = [logEnv EXCEPT !.responses = @ + 1]
  BY DEF LogInv, Responds
<1>2. PICK text \in BOOLEAN, n \in 0 .. MaxBatch :
        LET ids == [i \in 1 .. n |-> live.next + i - 1]
        IN  /\ live' = [live EXCEPT !.msgs = Append(@, Assistant(ids, text)), !.next = @ + n,
                                    !.todo = ids, !.pc = "answered"]
            /\ Emits(TextIf(text))
  BY DEF Responds
<1> DEFINE ids == [i \in 1 .. n |-> live.next + i - 1]
           v == ev \o TextIf(text)
           w == Append(live.msgs, Assistant(ids, text))
<1>3. /\ AlwaysTold(ev) /\ Requested(ev) = Finished(ev) /\ Projected(ev).start >= 0
      /\ CallsLeft(ev, live.pc, live.todo, live.next)
  BY <1>1 DEF SessionOK
<1>4. n \in Nat
  BY LogBounds
<1>5. /\ Calm(ev, v) /\ Projected(v).start = Projected(ev).start
      /\ Len(v) \in Nat /\ Len(ev) \in Nat /\ Len(v) >= Len(ev)
  BY <1>3, TextIfTold
<1>6. w \in Seq(ToSet(w))
  BY <1>1, OwnElements DEF SessionOK
<1>7. ids \in Seq(Nat) /\ DOMAIN ids = 1 .. n /\ \A i \in 1 .. n : ids[i] = live.next + i - 1
  <2>1. live.next \in Nat
    BY <1>3 DEF CallsLeft
  <2>2. ids \in [1 .. n -> Nat]
    BY <1>4, <2>1
  <2>3. QED BY <1>4, <2>2
<1>8. /\ log' = [log EXCEPT !.events = v]
      /\ live' = [live EXCEPT !.msgs = w, !.next = @ + n, !.todo = ids, !.pc = "answered"]
  BY <1>2 DEF Emits
<1> HIDE DEF ids, v, w, ev
<1>9. AlwaysTold(v) /\ Requested(v) = Requested(ev) /\ Finished(v) = Finished(ev)
  BY <1>5 DEF Calm
<1>10. CallsLeft(v, "answered", ids, live.next + n)
  <2>1. live.next \in Nat /\ \A x \in Requested(v) : x < live.next
    BY <1>3, <1>9 DEF CallsLeft
  <2>2. \A i \in 1 .. n : ids[i] \in Nat /\ ids[i] >= live.next /\ ids[i] < live.next + n
    BY <1>4, <1>7, <2>1
  <2>3. \A i, j \in 1 .. n : ids[i] = ids[j] => i = j
    BY <1>4, <1>7, <2>1
  <2>4. \A i \in 1 .. n : ids[i] \notin Requested(v)
    <3>1. ASSUME NEW i \in 1 .. n, ids[i] \in Requested(v) PROVE FALSE
      <4>1. ids[i] < live.next
        BY <2>1, <3>1
      <4>2. QED BY <2>1, <2>2, <4>1
    <3>2. QED BY <3>1
  <2>5. live.next + n \in Nat
    BY <1>4, <2>1
  <2>6. ASSUME NEW x \in Requested(v) PROVE x < live.next + n
    <3>1. x < live.next
      BY <2>1
    <3>2. x \in Nat
      <4>1. Requested(ev) \subseteq Nat
        <5>1. ev \in Seq(LogEvents) /\ Event("text_delta", 0) \in LogEvents
          BY <1>3, ToldNow DEF Event, LogEvents, EventKinds
        <5>2. QED BY <5>1, LoggedOneByOne DEF Requested
      <4>2. QED BY <1>9, <4>1
    <3>3. QED BY <1>4, <2>1, <3>1, <3>2
  <2>7. QED BY <1>7, <2>2, <2>3, <2>4, <2>5, <2>6 DEF CallsLeft
<1>11. SessionOK(v, w, "answered", ids, live.next + n)
  BY <1>3, <1>5, <1>6, <1>9, <1>10 DEF SessionOK
<1>12. /\ log'.events = v /\ log'.acked = log.acked /\ DOMAIN log' = {"events", "acked"}
      /\ DOMAIN live' = {"msgs", "pc", "todo", "next", "again"}
      /\ live'.msgs = w /\ live'.pc = "answered" /\ live'.todo = ids /\ live'.next = live.next + n
      /\ DOMAIN logEnv' = {"prompts", "responses", "detours", "crashes"} /\ logEnv'.prompts = logEnv.prompts
  BY <1>1, <1>8 DEF LogFields
<1>13. LogFields'
  BY <1>1, <1>12 DEF LogFields
<1>14. log'.acked \in 0 .. Len(log'.events)
  BY <1>1, <1>5, <1>12
<1>15. QED BY <1>11, <1>12, <1>13, <1>14, LogInvAgain

LEMMA CallBeginsKeeps == LogInv /\ CallBegins => LogInv'
<1> SUFFICES ASSUME LogInv, CallBegins PROVE LogInv'
  OBVIOUS
<1> DEFINE ev == log.events
           x == live.todo[1]
           e == Event("tool_call_requested", x)
           v == Append(ev, e)
<1>1. /\ LogFields /\ SessionOK(ev, live.msgs, live.pc, live.todo, live.next) /\ live.pc = "calls" /\ live.todo # <<>>
      /\ live' = [live EXCEPT !.pc = "tool"] /\ logEnv' = logEnv
  BY DEF LogInv, CallBegins
<1>2. /\ AlwaysTold(ev) /\ Requested(ev) = Finished(ev) /\ ev \in Seq(LogEvents) /\ Len(ev) \in Nat
      /\ Projected(ev).start >= 0 /\ CallsLeft(ev, live.pc, live.todo, live.next)
      /\ live.msgs \in Seq(ToSet(live.msgs))
  BY <1>1, ToldNow DEF SessionOK
<1>3. /\ live.todo \in Seq(Nat) /\ 1 \in DOMAIN live.todo /\ x \in Nat /\ Head(live.todo) = x
      /\ x \notin Requested(ev) /\ x < live.next
  <2>1. live.todo \in Seq(Nat)
    BY <1>2 DEF CallsLeft
  <2>2. 1 \in DOMAIN live.todo /\ x \in Nat /\ Head(live.todo) = x
    BY <1>1, <2>1
  <2>3. QED BY <1>1, <1>2, <2>1, <2>2 DEF CallsLeft
<1>4. log' = [events |-> ev \o <<e>>, acked |-> Len(ev \o <<e>>)]
  BY <1>3 DEF CallBegins, EmitsAwaited
<1>5. /\ AlwaysTold(v) /\ Requested(v) = Requested(ev) \cup {x} /\ Finished(v) = Finished(ev)
      /\ Projected(v).start = Projected(ev).start
  BY <1>2, <1>3, CallTold
<1>6. e \in LogEvents
  BY <1>3 DEF Event, LogEvents, EventKinds
<1> HIDE DEF e, x
<1>7. ev \o <<e>> = v /\ Len(v) = Len(ev) + 1
  BY <1>2, <1>6, OneMore
<1> HIDE DEF v, ev
<1>8. CallsLeft(v, "tool", live.todo, live.next)
  <2>1. /\ live.next \in Nat /\ \A y \in Requested(ev) : y < live.next
        /\ \A i \in DOMAIN live.todo :
             /\ live.todo[i] < live.next /\ live.todo[i] \notin Requested(ev)
             /\ \A j \in DOMAIN live.todo : live.todo[i] = live.todo[j] => i = j
    BY <1>1, <1>2 DEF CallsLeft
  <2>2. \A y \in Requested(v) : y < live.next
    BY <1>3, <1>5, <2>1
  <2>3. \A i \in DOMAIN live.todo : live.todo[i] \in Requested(v) => i = 1
    BY <1>3, <1>5, <2>1 DEF x
  <2>4. QED BY <1>3, <2>1, <2>2, <2>3 DEF CallsLeft
<1>9. Requested(v) \ Finished(v) = {live.todo[1]}
  BY <1>2, <1>3, <1>5 DEF x
<1>10. SessionOK(v, live.msgs, "tool", live.todo, live.next)
  BY <1>1, <1>2, <1>5, <1>8, <1>9 DEF SessionOK
<1>11. /\ log'.events = v /\ log'.acked = Len(v) /\ DOMAIN log' = {"events", "acked"}
      /\ DOMAIN live' = {"msgs", "pc", "todo", "next", "again"}
      /\ live'.msgs = live.msgs /\ live'.pc = "tool" /\ live'.todo = live.todo /\ live'.next = live.next
  BY <1>1, <1>4, <1>7 DEF LogFields
<1>12. LogFields'
  BY <1>1, <1>11 DEF LogFields
<1>13. log'.acked \in 0 .. Len(log'.events)
  BY <1>2, <1>7, <1>11
<1>14. QED BY <1>10, <1>11, <1>12, <1>13, LogInvAgain

LEMMA CallEndsKeeps == LogInv /\ CallEnds => LogInv'
<1> SUFFICES ASSUME LogInv, CallEnds PROVE LogInv'
  OBVIOUS
<1> DEFINE ev == log.events
           x == live.todo[1]
           e == Event("tool_call_finished", x)
           v == Append(ev, e)
           w == Append(live.msgs, Result(x))
           left == Tail(live.todo)
<1>1. /\ LogFields /\ SessionOK(ev, live.msgs, live.pc, live.todo, live.next) /\ live.pc = "tool"
      /\ log.acked \in 0 .. Len(ev) /\ logEnv' = logEnv
  BY DEF LogInv, CallEnds
<1>2. /\ AlwaysTold(ev) /\ Requested(ev) \ Finished(ev) = {x} /\ ev \in Seq(LogEvents) /\ Len(ev) \in Nat
      /\ Projected(ev).start >= 0 /\ CallsLeft(ev, live.pc, live.todo, live.next)
      /\ live.msgs \in Seq(ToSet(live.msgs)) /\ live.todo # <<>>
  BY <1>1, ToldNow DEF SessionOK
<1>3. /\ live.todo \in Seq(Nat) /\ x \in Nat /\ Head(live.todo) = x
  <2>1. live.todo \in Seq(Nat)
    BY <1>2 DEF CallsLeft
  <2>2. QED BY <1>2, <2>1
<1>4. /\ log' = [log EXCEPT !.events = ev \o <<e>>]
      /\ live' = [live EXCEPT !.msgs = w, !.todo = left, !.pc = "calls"]
  BY <1>3 DEF CallEnds, Emits
<1>5. /\ AlwaysTold(v) /\ Requested(v) = Requested(ev) /\ Finished(v) = Requested(ev)
      /\ Projected(v).start = Projected(ev).start
  BY <1>2, <1>3, ResultTold
<1>6. e \in LogEvents
  BY <1>3 DEF Event, LogEvents, EventKinds
<1>7. w \in Seq(ToSet(w))
  BY <1>2, OwnElements
<1> HIDE DEF e, x, w
<1>8. ev \o <<e>> = v /\ Len(v) = Len(ev) + 1
  BY <1>2, <1>6, OneMore
<1>9. left \in Seq(Nat) /\ \A i \in DOMAIN left : i + 1 \in DOMAIN live.todo /\ left[i] = live.todo[i + 1] /\ i \in Nat /\ i # 0
  BY <1>2, <1>3
<1> HIDE DEF v, ev, left
<1>10. CallsLeft(v, "calls", left, live.next)
  <2>1. /\ live.next \in Nat /\ \A y \in Requested(ev) : y < live.next
        /\ \A i \in DOMAIN live.todo :
             /\ live.todo[i] < live.next /\ (live.todo[i] \in Requested(ev) => i = 1)
             /\ \A j \in DOMAIN live.todo : live.todo[i] = live.todo[j] => i = j
    BY <1>2 DEF CallsLeft
  <2>2. ASSUME NEW i \in DOMAIN left
        PROVE /\ left[i] < live.next /\ left[i] \notin Requested(v)
              /\ \A j \in DOMAIN left : left[i] = left[j] => i = j
    <3>1. i + 1 \in DOMAIN live.todo /\ left[i] = live.todo[i + 1] /\ i + 1 # 1
      BY <1>9, <2>2
    <3>2. ASSUME NEW j \in DOMAIN left, left[i] = left[j] PROVE i = j
      <4>1. j + 1 \in DOMAIN live.todo /\ left[j] = live.todo[j + 1]
        BY <1>9, <3>2
      <4>2. i + 1 = j + 1
        BY <2>1, <3>1, <3>2, <4>1
      <4>3. QED BY <1>9, <2>2, <3>2, <4>2
    <3>3. QED BY <1>5, <2>1, <3>1, <3>2
  <2>3. QED BY <1>5, <1>9, <2>1, <2>2 DEF CallsLeft
<1>11. SessionOK(v, w, "calls", left, live.next)
  BY <1>2, <1>5, <1>7, <1>10 DEF SessionOK
<1>12. /\ log'.events = v /\ log'.acked = log.acked /\ DOMAIN log' = {"events", "acked"}
      /\ DOMAIN live' = {"msgs", "pc", "todo", "next", "again"}
      /\ live'.msgs = w /\ live'.pc = "calls" /\ live'.todo = left /\ live'.next = live.next
  BY <1>1, <1>4, <1>8 DEF LogFields
<1>13. LogFields'
  BY <1>1, <1>12 DEF LogFields
<1>14. log'.acked \in 0 .. Len(log'.events)
  BY <1>1, <1>2, <1>8, <1>12
<1>15. QED BY <1>11, <1>12, <1>13, <1>14, LogInvAgain

LEMMA CallResumedKeeps == LogInv /\ CallResumed => LogInv'
<1> SUFFICES ASSUME LogInv, CallResumed PROVE LogInv'
  OBVIOUS
<1> DEFINE ev == log.events
           w == Append(live.msgs, Note)
<1>1. /\ LogFields /\ SessionOK(ev, live.msgs, live.pc, live.todo, live.next) /\ live.pc = "model"
      /\ log.acked \in 0 .. Len(ev) /\ logEnv' = [logEnv EXCEPT !.detours = @ + 1]
      /\ live' = [live EXCEPT !.msgs = w, !.again = @ \ {"resume"}]
  BY DEF LogInv, CallResumed, Detour
<1>2. PICK text \in BOOLEAN : Emits(TextIf(text))
  BY DEF CallResumed
<1> DEFINE v == ev \o TextIf(text)
<1>3. AlwaysTold(ev) /\ Requested(ev) = Finished(ev) /\ Projected(ev).start >= 0
  BY <1>1 DEF SessionOK
<1>4. /\ Calm(ev, v) /\ Projected(v).start = Projected(ev).start
      /\ Len(v) \in Nat /\ Len(ev) \in Nat /\ Len(v) >= Len(ev)
  BY <1>3, TextIfTold
<1>5. w \in Seq(ToSet(w))
  BY <1>1, OwnElements DEF SessionOK
<1>6. log' = [log EXCEPT !.events = v]
  BY <1>2 DEF Emits
<1> HIDE DEF v, w, ev
<1>7. SessionOK(v, w, "model", live.todo, live.next)
  BY <1>1, <1>3, <1>4, <1>5, CalmKeeps
<1>8. /\ log'.events = v /\ log'.acked = log.acked /\ DOMAIN log' = {"events", "acked"}
      /\ DOMAIN live' = {"msgs", "pc", "todo", "next", "again"}
      /\ live'.msgs = w /\ live'.pc = "model" /\ live'.todo = live.todo /\ live'.next = live.next
      /\ DOMAIN logEnv' = {"prompts", "responses", "detours", "crashes"} /\ logEnv'.prompts = logEnv.prompts
  BY <1>1, <1>6 DEF LogFields
<1>9. LogFields'
  BY <1>1, <1>8 DEF LogFields
<1>10. log'.acked \in 0 .. Len(log'.events)
  BY <1>1, <1>4, <1>8
<1>11. QED BY <1>7, <1>8, <1>9, <1>10, LogInvAgain

LEMMA TurnFailsKeeps == LogInv /\ TurnFails => LogInv'
<1> SUFFICES ASSUME LogInv, TurnFails PROVE LogInv'
  OBVIOUS
<1> DEFINE ev == log.events
<1>1. /\ LogFields /\ SessionOK(ev, live.msgs, live.pc, live.todo, live.next) /\ live.pc = "model"
      /\ log.acked \in 0 .. Len(ev) /\ logEnv' = logEnv
      /\ live' = [live EXCEPT !.pc = "idle", !.again = {}]
  BY DEF LogInv, TurnFails
<1>2. PICK text \in BOOLEAN : Emits(TextIf(text))
  BY DEF TurnFails
<1> DEFINE v == ev \o TextIf(text)
<1>3. AlwaysTold(ev) /\ Requested(ev) = Finished(ev) /\ live.msgs \in Seq(ToSet(live.msgs))
  BY <1>1 DEF SessionOK
<1>4. Calm(ev, v) /\ Len(v) \in Nat /\ Len(ev) \in Nat /\ Len(v) >= Len(ev)
  BY <1>3, TextIfTold
<1>5. log' = [log EXCEPT !.events = v]
  BY <1>2 DEF Emits
<1> HIDE DEF v, ev
<1>6. SessionOK(v, live.msgs, "idle", live.todo, live.next)
  BY <1>1, <1>3, <1>4, CalmKeeps
<1>7. /\ log'.events = v /\ log'.acked = log.acked /\ DOMAIN log' = {"events", "acked"}
      /\ DOMAIN live' = {"msgs", "pc", "todo", "next", "again"}
      /\ live'.msgs = live.msgs /\ live'.pc = "idle" /\ live'.todo = live.todo /\ live'.next = live.next
  BY <1>1, <1>5 DEF LogFields
<1>8. LogFields'
  BY <1>1, <1>7 DEF LogFields
<1>9. log'.acked \in 0 .. Len(log'.events)
  BY <1>1, <1>4, <1>7
<1>10. QED BY <1>6, <1>7, <1>8, <1>9, LogInvAgain

LEMMA TurnFinishesKeeps == LogInv /\ TurnFinishes => LogInv'
<1> SUFFICES ASSUME LogInv, TurnFinishes PROVE LogInv'
  OBVIOUS
<1> DEFINE ev == log.events
           e == Event("turn_finished", 0)
<1>1. /\ LogFields /\ SessionOK(ev, live.msgs, live.pc, live.todo, live.next) /\ live.pc \in {"model", "calls"}
      /\ logEnv' = logEnv /\ live' = [live EXCEPT !.pc = "idle", !.todo = <<>>, !.again = {}]
  BY DEF LogInv, TurnFinishes
<1>2. PICK text \in BOOLEAN : EmitsAwaited(TextIf(text) \o <<e>>)
  <2>1. PICK text \in IF live.pc = "model" THEN BOOLEAN ELSE {FALSE} : EmitsAwaited(TextIf(text) \o <<e>>)
    BY DEF TurnFinishes
  <2>2. text \in BOOLEAN
    OBVIOUS
  <2>3. QED BY <2>1, <2>2
<1> DEFINE u == ev \o TextIf(text)
           v == Append(u, e)
<1>3. AlwaysTold(ev) /\ Requested(ev) = Finished(ev) /\ live.msgs \in Seq(ToSet(live.msgs)) /\ ev \in Seq(LogEvents)
  BY <1>1, ToldNow DEF SessionOK
<1>4. Calm(ev, u) /\ Len(u) \in Nat /\ u \in Seq(LogEvents)
  BY <1>3, TextIfTold
<1>5. e \in LogEvents /\ TextIf(text) \in Seq(LogEvents)
  <2>1. e \in LogEvents /\ Event("text_delta", 0) \in LogEvents
    BY DEF Event, LogEvents, EventKinds
  <2> HIDE DEF e
  <2>2. <<>> \in Seq(LogEvents) /\ <<Event("text_delta", 0)>> \in Seq(LogEvents)
    BY <2>1
  <2>3. QED BY <2>1, <2>2 DEF TextIf
<1>6. ev \o (TextIf(text) \o <<e>>) = u \o <<e>>
  <2>1. <<e>> \in Seq(LogEvents)
    BY <1>5
  <2> DEFINE q == TextIf(text)
             z == <<e>>
  <2>2. q \in Seq(LogEvents) /\ z \in Seq(LogEvents)
    BY <1>5, <2>1
  <2> HIDE DEF q, z, ev
  <2>3. ev \o (q \o z) = (ev \o q) \o z
    BY <1>3, <2>2, ConcatAssociative
  <2>4. QED BY <2>3 DEF q, z
<1>7. Calm(u, v)
  <2>1. AlwaysTold(u) /\ Requested(u) = Finished(u)
    BY <1>3, <1>4 DEF Calm
  <2> HIDE DEF u
  <2>2. QED BY <2>1, TurnTold
<1>8. log' = [events |-> u \o <<e>>, acked |-> Len(u \o <<e>>)]
  BY <1>2, <1>6 DEF EmitsAwaited
<1> HIDE DEF e, u
<1>9. u \o <<e>> = v /\ Len(v) = Len(u) + 1
  BY <1>4, <1>5, OneMore
<1>10. Calm(ev, v)
  BY <1>4, <1>7 DEF Calm
<1> HIDE DEF v, ev
<1>11. SessionOK(v, live.msgs, "idle", <<>>, live.next)
  BY <1>1, <1>3, <1>10, CalmKeeps
<1>12. /\ log'.events = v /\ log'.acked = Len(v) /\ DOMAIN log' = {"events", "acked"}
      /\ DOMAIN live' = {"msgs", "pc", "todo", "next", "again"}
      /\ live'.msgs = live.msgs /\ live'.pc = "idle" /\ live'.todo = <<>> /\ live'.next = live.next
  BY <1>1, <1>8, <1>9 DEF LogFields
<1>13. LogFields'
  BY <1>1, <1>12 DEF LogFields
<1>14. log'.acked \in 0 .. Len(log'.events)
  BY <1>4, <1>9, <1>12
<1>15. QED BY <1>11, <1>12, <1>13, <1>14, LogInvAgain

LEMMA RestartsKeeps == LogInv /\ Restarts => LogInv'
<1> SUFFICES ASSUME LogInv, Restarts PROVE LogInv'
  OBVIOUS
<1> DEFINE ev == log.events
<1>1. /\ LogFields /\ SessionOK(ev, live.msgs, live.pc, live.todo, live.next) /\ log.acked \in 0 .. Len(ev)
      /\ logEnv' = [logEnv EXCEPT !.crashes = @ + 1]
  BY DEF LogInv, Restarts
<1>2. PICK n \in log.acked .. Len(ev) :
        LET stored == SubSeq(ev, 1, n)
            open == OpenCallsOf(stored)
        IN  /\ log' = [events |-> stored \o [i \in DOMAIN open |-> Event("tool_call_finished", open[i])], acked |-> n]
            /\ live' = [live EXCEPT !.msgs = Restored(stored) \o [i \in DOMAIN open |-> Result(open[i])],
                                    !.pc = "idle", !.todo = <<>>, !.again = {}]
  BY DEF Restarts
<1> DEFINE stored == SubSeq(ev, 1, n)
           open == OpenCallsOf(stored)
           closing == [i \in DOMAIN open |-> Event("tool_call_finished", open[i])]
           results == [i \in DOMAIN open |-> Result(open[i])]
           v == stored \o closing
           w == Restored(stored) \o results
<1>3. AlwaysTold(ev) /\ CallsLeft(ev, live.pc, live.todo, live.next) /\ Len(ev) \in Nat
  BY <1>1, ToldNow DEF SessionOK
<1>4. n \in 0 .. Len(ev) /\ n \in Nat
  BY <1>1, <1>3
<1>5. AlwaysTold(stored) /\ Len(stored) = n /\ Requested(stored) \subseteq Requested(ev)
  BY <1>3, <1>4, CutOffTold
<1>6. log' = [events |-> v, acked |-> n] /\ live' = [live EXCEPT !.msgs = w, !.pc = "idle", !.todo = <<>>, !.again = {}]
  BY <1>2
<1> HIDE DEF stored
<1>7. /\ open \in Seq(Nat)
      /\ \/ Len(open) = 0 /\ Requested(stored) = Finished(stored)
         \/ Len(open) = 1 /\ Requested(stored) \ Finished(stored) = {open[1]}
  BY <1>5, OneOpenCall
<1>8. stored \in Seq(LogEvents) /\ Told(stored)
  BY <1>5, ToldNow
<1> HIDE DEF open
<1>9. /\ closing \in Seq(LogEvents) /\ Len(closing) = Len(open) /\ results \in Seq(StoryMessages)
      /\ Len(open) = 1 => closing[1] = Event("tool_call_finished", open[1])
  <2>1. DOMAIN open = 1 .. Len(open) /\ Len(open) \in Nat /\ \A i \in DOMAIN open : open[i] \in Nat
    BY <1>7
  <2>2. \A x \in Nat : Event("tool_call_finished", x) \in LogEvents /\ Result(x) \in StoryMessages
    BY DEF Event, LogEvents, EventKinds, Result, Message, StoryMessages
  <2>3. closing \in [1 .. Len(open) -> LogEvents] /\ results \in [1 .. Len(open) -> StoryMessages]
    BY <2>1, <2>2
  <2>4. closing \in Seq(LogEvents) /\ Len(closing) = Len(open) /\ results \in Seq(StoryMessages)
    <3> HIDE DEF closing, results
    <3>1. QED BY <2>1, <2>3
  <2>5. Len(open) = 1 => closing[1] = Event("tool_call_finished", open[1])
    BY <2>1
  <2>6. QED BY <2>4, <2>5
<1>10. w \in Seq(ToSet(w))
  <2>1. Restored(stored) \in Seq(StoryMessages)
    BY <1>8, RestoredOnes DEF Told, FirstOnes
  <2> HIDE DEF results
  <2>2. w \in Seq(StoryMessages)
    BY <1>9, <2>1
  <2> HIDE DEF w
  <2>3. QED BY <2>2, OwnElements
<1> HIDE DEF closing, results, w
<1>11. /\ AlwaysTold(v) /\ Requested(v) = Requested(stored) /\ Finished(v) = Requested(stored)
       /\ Len(v) \in Nat /\ Len(v) >= n
  <2>1. CASE Len(open) = 0 /\ Requested(stored) = Finished(stored)
    <3>1. v = stored
      BY <1>8, <1>9, <2>1, AtMostOneMore
    <3> HIDE DEF v
    <3>2. QED BY <1>4, <1>5, <2>1, <3>1
  <2>2. CASE Len(open) = 1 /\ Requested(stored) \ Finished(stored) = {open[1]}
    <3>1. v = Append(stored, Event("tool_call_finished", open[1]))
      BY <1>8, <1>9, <2>2, AtMostOneMore
    <3>2. open[1] \in Nat
      <4>1. 1 \in DOMAIN open
        BY <1>7, <2>2
      <4>2. QED BY <1>7, <4>1
    <3>3. AlwaysTold(v) /\ Requested(v) = Requested(stored) /\ Finished(v) = Requested(stored)
      <4> HIDE DEF v
      <4>1. QED BY <1>5, <2>2, <3>1, <3>2, ResultTold
    <3>4. Len(v) = Len(stored) + 1
      <4>1. Event("tool_call_finished", open[1]) \in LogEvents
        BY <3>2 DEF Event, LogEvents, EventKinds
      <4> HIDE DEF v
      <4>2. QED BY <1>8, <3>1, <4>1
    <3> HIDE DEF v
    <3>5. QED BY <1>4, <1>5, <3>3, <3>4
  <2>3. QED BY <1>7, <2>1, <2>2
<1> HIDE DEF v
<1>12. CallsLeft(v, "idle", <<>>, live.next)
  <2>1. live.next \in Nat /\ \A x \in Requested(v) : x < live.next
    BY <1>3, <1>5, <1>11 DEF CallsLeft
  <2>2. <<>> \in Seq(Nat) /\ DOMAIN <<>> = {}
    OBVIOUS
  <2>3. QED BY <2>1, <2>2 DEF CallsLeft
<1>13. SessionOK(v, w, "idle", <<>>, live.next)
  BY <1>10, <1>11, <1>12 DEF SessionOK
<1>14. /\ log'.events = v /\ log'.acked = n /\ DOMAIN log' = {"events", "acked"}
      /\ DOMAIN live' = {"msgs", "pc", "todo", "next", "again"}
      /\ live'.msgs = w /\ live'.pc = "idle" /\ live'.todo = <<>> /\ live'.next = live.next
      /\ DOMAIN logEnv' = {"prompts", "responses", "detours", "crashes"} /\ logEnv'.prompts = logEnv.prompts
  BY <1>1, <1>6 DEF LogFields
<1>15. LogFields'
  BY <1>1, <1>14 DEF LogFields
<1>16. log'.acked \in 0 .. Len(log'.events)
  BY <1>4, <1>11, <1>14
<1>17. QED BY <1>13, <1>14, <1>15, <1>16, LogInvAgain

LEMMA LogStutters == LogInv /\ UNCHANGED logVars => LogInv'
BY DEF LogInv, LogFields, SessionOK, CallsLeft, logVars

LEMMA LogInvStep == LogInv /\ [LogNext]_logVars => LogInv'
BY PromptedKeeps, RespondsKeeps, CompactsKeeps, NothingToCompactKeeps, DropsKeeps, CallBeginsKeeps, CallEndsKeeps,
   NextRoundKeeps, PausesKeeps, CallResumedKeeps, TurnFinishesKeeps, TurnFailsKeeps, RestartsKeeps, LogStutters
   DEF LogNext

\* The invariant of the session file: what is logged, up to any event, projects to
\* a story whose requested calls have at most one open among them.
THEOREM LogIsTold == LogSpec => []LogInv
<1>1. LogInit => LogInv
  BY LogInvInit
<1>2. LogInv /\ [LogNext]_logVars => LogInv'
  BY LogInvStep
<1>3. QED BY <1>1, <1>2, PTL DEF LogSpec

\* A conversation restored from a session file, wherever its writer was cut off, has
\* its results behind their calls and its calls answered, but for what a checkpoint
\* may break (projection.ts:76-205).
THEOREM RestoredIsPaired == LogSpec => []ResumedPairs
<1>1. LogInv => ResumedPairs
  <2> SUFFICES ASSUME LogInv PROVE ResumedPairs
    OBVIOUS
  <2>1. Told(log.events)
    BY ToldNow DEF LogInv, SessionOK
  <2>2. QED BY <2>1, RestoredPairs DEF Told, Requested, Finished, HasCheckpoint
<1>2. QED BY <1>1, LogIsTold, PTL
=============================================================================
