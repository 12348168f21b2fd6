------------------------------ MODULE Headless -------------------------------
(***************************************************************************)
(* A run without a user (cli/headless.ts, cli/prompt_queue.ts, cli/main.ts):*)
(* the prompt file is read line by line, its prompts become the turns of   *)
(* one session, one after the other, and the exit code is derived from the *)
(* events that were seen.                                                  *)
(*                                                                         *)
(* A line is a fence (its backticks; with an info string it cannot close), *)
(* a separator, a blank, a built-in or other text.  The Communicator and   *)
(* its children are what the hooks of main.ts see of them.                 *)
(***************************************************************************)
EXTENDS Integers, Sequences, FiniteSets, SequencesExt

CONSTANTS
  MaxFence, \* backticks an opening fence may have (9)
  MaxLines, \* bound: lines of the prompt file
  Words     \* the lines it may have that are no fence

ASSUME HeadlessBounds ==
  /\ MaxFence \in Nat /\ MaxLines \in Nat
  /\ Words \subseteq {"separator", "blank", "text", "/exit", "/halt"}

VARIABLES
  file,   \* the lines that were read
  queue,  \* the parser: what it expects, the open fence and its body, the prompts
  run,    \* runHeadless: the next prompt, the turn waited for, the exit code
  session \* whether the Executor has a turn, the halts it has not answered, whether
          \* the run is halted, and the events the hooks were told

headlessVars == <<file, queue, run, session>>

Fence(ticks, info) == [kind |-> "fence", ticks |-> ticks, info |-> info]
Word(kind) == [kind |-> kind, ticks |-> 0, info |-> FALSE]
FileLines ==
  {Fence(3, FALSE), Fence(3, TRUE), Fence(4, FALSE), Fence(MaxFence + 1, FALSE)}
    \cup {Word(k) : k \in Words}

(***************************************************************************)
(* parsePromptQueueFile.                                                   *)
(***************************************************************************)
Opened(q, line) ==
  IF line.ticks > MaxFence THEN [q EXCEPT !.expects = "failed"]
  ELSE [q EXCEPT !.expects = "body", !.ticks = line.ticks, !.body = <<>>]

\* A prompt without the blank lines at its end; a built-in is alone in it.
PromptOf(body) ==
  LET words == SelectSeq(body, LAMBDA l : l.kind # "blank")
  IN  IF Len(words) = 1 /\ words[1].kind \in {"/exit", "/halt"} THEN words[1].kind ELSE "task"

Closes(line, ticks) == line.kind = "fence" /\ ~line.info /\ line.ticks >= ticks

\* What one more line does.  After a separator any text is commentary.
ParseLine(q, line) ==
  CASE q.expects = "body" ->
         IF Closes(line, q.ticks)
         THEN [q EXCEPT !.expects = "separator", !.prompts = Append(@, PromptOf(q.body))]
         ELSE [q EXCEPT !.body = Append(@, line)]
    [] line.kind = "fence" /\ q.expects \in {"first", "next"} -> Opened(q, line)
    [] q.expects \in {"first", "separator"} /\ line.kind = "blank" -> q
    [] q.expects = "separator" /\ line.kind = "separator" -> [q EXCEPT !.expects = "next"]
    [] q.expects = "next" /\ line.kind \notin {"fence", "separator"} -> q
    [] OTHER -> [q EXCEPT !.expects = "failed"]

\* A file may end only after a prompt.
ParseEnd(q) == IF q.expects = "separator" THEN [q EXCEPT !.expects = "end"] ELSE [q EXCEPT !.expects = "cut"]

\* The file is read as a whole: it has lines behind the one that failed.
Reads ==
  /\ queue.expects \notin {"cut", "end"} /\ run.pc = "parse" /\ Len(file) < MaxLines
  /\ \E line \in FileLines : file' = Append(file, line) /\ queue' = ParseLine(queue, line)
  /\ UNCHANGED <<run, session>>

EndOfFile ==
  /\ queue.expects \notin {"failed", "cut", "end"}
  /\ queue' = ParseEnd(queue)
  /\ UNCHANGED <<file, run, session>>

(***************************************************************************)
(* runHeadless.                                                            *)
(***************************************************************************)
FinishedTurns(events) == {i \in DOMAIN events : events[i] \in {"end", "cancelled"}}

CodeOf(expected, events) ==
  IF Cardinality(FinishedTurns(events)) < expected THEN IF Contains(events, "provider") THEN 3 ELSE 4
  ELSE IF Contains(events, "cancelled") \/ Contains(events, "limit") THEN 4 ELSE 0

\* Mutant: one turn is expected, however many prompts ran.
ExpectsOne(ran, events) == CodeOf(1, events)

\* deriveExitCode, from the events of the session's turns.
ExitCode(ran, events) == CodeOf(ran, events)

\* The loop is left, and the Communicator shut down.
Leaves(r, events) == [r EXCEPT !.pc = "over", !.code = ExitCode(r.ran, events)]

HeadlessInit ==
  /\ file = <<>>
  /\ queue = [expects |-> "first", ticks |-> 0, body |-> <<>>, prompts |-> <<>>]
  /\ run = [pc |-> "parse", next |-> 1, ran |-> 0, code |-> -1]
  /\ session = [turn |-> FALSE, halts |-> 0, halted |-> FALSE, events |-> <<>>]

\* A file that breaks a rule ends the program before a child is spawned.
FileRefused ==
  /\ run.pc = "parse" /\ queue.expects \in {"failed", "cut"}
  /\ run' = [run EXCEPT !.pc = "over", !.code = 2]
  /\ UNCHANGED <<file, queue, session>>

\* The Communicator starts its children, or cannot.
ProgramStarts ==
  /\ run.pc = "parse" /\ queue.expects = "end"
  /\ \/ run' = [run EXCEPT !.pc = "loop"]
     \/ run' = [run EXCEPT !.pc = "over", !.code = 4]
  /\ UNCHANGED <<file, queue, session>>

\* One round of the loop: a built-in, or a prompt.  A halted run refuses the
\* prompt, which is waited for all the same.
NextPrompt ==
  /\ run.pc = "loop"
  /\ IF run.next > Len(queue.prompts)
     THEN run' = Leaves(run, session.events) /\ UNCHANGED session
     ELSE CASE queue.prompts[run.next] = "/exit" ->
                 run' = Leaves(run, session.events) /\ UNCHANGED session
            [] queue.prompts[run.next] = "/halt" ->
                 /\ run' = [run EXCEPT !.next = @ + 1]
                 /\ session' = [session EXCEPT !.halts = @ + 1]
            [] OTHER ->
                 /\ run' = [run EXCEPT !.pc = "waits", !.next = @ + 1, !.ran = @ + 1]
                 /\ session' = [session EXCEPT !.turn = @ \/ ~session.halted]
  /\ UNCHANGED <<file, queue>>

\* The continuation of waitTurnEnd: it looks at the last turn that finished.
GoesOnAfter(outcome, events) ==
  LET turns == FinishedTurns(events)
      ended == \E i \in turns : events[i] = "end" /\ \A j \in turns : j <= i
  IN  IF outcome = "abandoned" \/ ~ended \/ Contains(events, "limit")
      THEN Leaves(run, events) ELSE [run EXCEPT !.pc = "loop"]

\* The hooks keep what they are told and settle the wait.
Hears(events, outcome) ==
  /\ run.pc = "waits"
  /\ run' = GoesOnAfter(outcome, session.events \o events)
  /\ UNCHANGED <<file, queue>>

Told(events) == [session EXCEPT !.events = @ \o events]

\* The Executor is past every halt it was sent: its turn runs, with a gate that
\* is shut if there was one, so that the turn ends without a model call.
Runs == session.turn /\ session.halts = 0
RunsFreely == Runs /\ ~session.halted

\* turn_finished, with any reason but a cancel (an end, a refusal, max_output).
TurnFinished ==
  /\ Runs /\ Hears(<<"end">>, "finished")
  /\ session' = [Told(<<"end">>) EXCEPT !.turn = FALSE]

TurnCancelled ==
  /\ Runs /\ Hears(<<"cancelled">>, "finished")
  /\ session' = [Told(<<"cancelled">>) EXCEPT !.turn = FALSE]

\* The tool-call limit is reached, and the answer of a run without a user is no.
LimitDeclined ==
  /\ RunsFreely /\ Hears(<<"limit", "end">>, "finished")
  /\ session' = [Told(<<"limit", "end">>) EXCEPT !.turn = FALSE]

ProviderFails ==
  /\ RunsFreely /\ Hears(<<"provider">>, "abandoned")
  /\ session' = [Told(<<"provider">>) EXCEPT !.turn = FALSE]

\* The Executor exits once too often, or its respawn fails.
RestartsExhausted ==
  /\ RunsFreely /\ Hears(<<"exhausted">>, "abandoned")
  /\ session' = [Told(<<"exhausted">>) EXCEPT !.turn = FALSE]

\* The Executor gives the turn up for another reason: nobody settles the wait.
TurnGivenUp ==
  /\ RunsFreely
  /\ session' = [Told(<<"failed">>) EXCEPT !.turn = FALSE]
  /\ UNCHANGED <<file, queue, run>>

\* The Executor's answer to a halt settles whatever is waited for.
HaltAnswered ==
  /\ session.halts > 0 /\ run.pc # "over"
  /\ session' = [Told(<<"halted">>) EXCEPT !.halts = @ - 1, !.halted = TRUE]
  /\ run' = IF run.pc = "waits" THEN GoesOnAfter("finished", session'.events) ELSE run
  /\ UNCHANGED <<file, queue>>

HeadlessNext ==
  \/ Reads \/ EndOfFile \/ FileRefused \/ ProgramStarts \/ NextPrompt
  \/ TurnFinished \/ TurnCancelled \/ LimitDeclined \/ ProviderFails
  \/ RestartsExhausted \/ TurnGivenUp \/ HaltAnswered

(***************************************************************************)
(* What a prompt file is, without a parser: a fence outside every fenced   *)
(* block opens one, which ends at the first line that closes it.           *)
(***************************************************************************)
CloseOf(f, o) == {c \in o + 1 .. Len(f) : Closes(f[c], f[o].ticks)}
Opens(f) ==
  LET opens[i \in 1 .. Len(f)] ==
        /\ f[i].kind = "fence"
        /\ \A o \in 1 .. i - 1 : opens[o] => \E c \in CloseOf(f, o) : c < i
  IN  {i \in 1 .. Len(f) : opens[i]}
Blocks(f) == {<<o, Min(CloseOf(f, o) \cup {Len(f) + 1})>> : o \in Opens(f)}

Between(f, i, j, kind) == {k \in i + 1 .. j - 1 : f[k].kind = kind}

\* Blocks are closed and not too long; only blanks come before the first and
\* after the last one; one separator, behind blanks only, stands between two.
WellFormed(f) ==
  /\ Blocks(f) # {}
  /\ \A b \in Blocks(f) : b[2] <= Len(f) /\ f[b[1]].ticks <= MaxFence
  /\ \A k \in DOMAIN f :
       \/ f[k].kind = "blank"
       \/ \E b \in Blocks(f) : b[1] <= k /\ k <= b[2]
       \/ (\E b \in Blocks(f) : b[2] < k) /\ \E b \in Blocks(f) : b[1] > k
  /\ \A a, b \in Blocks(f) :
       a[2] < b[1] /\ (~\E m \in Blocks(f) : a[2] < m[1] /\ m[1] < b[1]) =>
         \E s \in Between(f, a[2], b[1], "separator") :
           /\ Between(f, a[2], b[1], "separator") = {s}
           /\ \A k \in a[2] + 1 .. s - 1 : f[k].kind = "blank"

PromptIn(f, b) == PromptOf(SubSeq(f, b[1] + 1, b[2] - 1))

\* The prompts that had to run: the tasks before an /exit.
Asked(f) ==
  {b \in Blocks(f) : /\ PromptIn(f, b) = "task"
                     /\ \A a \in Blocks(f) : a[1] < b[1] => PromptIn(f, a) # "/exit"}

HeadlessSpec == HeadlessInit /\ [][HeadlessNext]_headlessVars

\* The exit code tells a scheduler what became of its file (README.md:21, 209):
\* 2 exactly for a file that breaks a rule, of which nothing ran; 0 only if
\* every prompt the file contains had its turn and none of them was stopped; 3
\* only after a provider failure.
ExitCodeTells ==
  run.pc = "over" =>
    /\ run.code = 2 <=> ~WellFormed(file)
    /\ run.code = 2 => session.events = <<>>
    /\ run.code = 0 =>
         /\ Cardinality(FinishedTurns(session.events)) = Cardinality(Asked(file))
         /\ ~Contains(session.events, "cancelled") /\ ~Contains(session.events, "limit")
    /\ run.code = 3 => Contains(session.events, "provider")
=============================================================================
