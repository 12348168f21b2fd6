------------------------------ MODULE SelfTest -------------------------------
(***************************************************************************)
(* hera selftest (selftest/runner.ts, report.ts, categories/): the chosen  *)
(* categories run in order; a live one makes model calls, one test after   *)
(* the other, under a budget and a timeout, until the user interrupts.     *)
(* What a category found becomes part of the report when it ends.          *)
(*                                                                         *)
(* Costs are in cents.  An offline category is one test.                   *)
(***************************************************************************)
EXTENDS Integers, Sequences, Totals

CONSTANTS
  Limit,    \* --budget
  MaxCost,  \* bound: what one call costs
  MaxModels \* bound: models a live category tests

ASSUME SelftestBounds == Limit \in Nat /\ MaxCost \in Nat /\ MaxModels \in Nat \ {0}

VARIABLES
  plan,    \* the categories that were chosen and the number of models
  suite,   \* where the run is: category, test, interrupt, exit code
  trial,   \* the live test that runs: its round trip, its cost, a missed interrupt
  results  \* the report, the results of the running category, and what was spent

selfVars == <<plan, suite, trial, results>>

NoTrial == [trip |-> 0, cost |-> 0, deaf |-> FALSE]
Found(status, cost, whole) == [status |-> status, cost |-> cost, whole |-> whole]

SelfInit ==
  /\ plan \in [codes : {<<"offline">>, <<"sweep">>, <<"tools">>, <<"sweep", "tools">>,
                        <<"offline", "sweep", "tools">>},
               models : 1 .. MaxModels]
  /\ suite = [pc |-> "category", next |-> 1, test |-> 0, interrupted |-> FALSE,
              late |-> FALSE, code |-> -1]
  /\ trial = NoTrial
  /\ results = [report |-> <<>>, tests |-> <<>>, spent |-> 0]

Code == plan.codes[suite.next - 1]

(***************************************************************************)
(* selftestMain.                                                           *)
(***************************************************************************)
\* The report is written on every path; skips and budget stops are no failures.
Ends(late) ==
  /\ suite' = [suite EXCEPT !.pc = "over", !.late = late,
                 !.code = IF \E i \in DOMAIN results.report : results.report[i].status \in {"fail", "error"}
                          THEN 1 ELSE 0]
  /\ UNCHANGED <<plan, trial, results>>

\* The next category, unless there is none, the user interrupted or the deadline
\* is over.
NextCategory ==
  /\ suite.pc = "category"
  /\ IF suite.interrupted \/ suite.next > Len(plan.codes) THEN Ends(FALSE)
     ELSE \/ Ends(TRUE)
          \/ /\ suite' = [suite EXCEPT !.pc = "test", !.next = @ + 1, !.test = 1]
             /\ UNCHANGED <<plan, trial, results>>

CategoryEnds(tests) ==
  /\ suite' = [suite EXCEPT !.pc = "category"]
  /\ results' = [results EXCEPT !.report = @ \o tests, !.tests = <<>>]
  /\ UNCHANGED <<plan, trial>>

\* A category that throws is one error: what its tests found is gone.
CategoryBreaks ==
  /\ suite.pc = "test"
  /\ suite.test = 1 \/ (~suite.interrupted /\ suite.test <= plan.models)
  /\ CategoryEnds(<<Found("error", 0, FALSE)>>)

OfflineRuns ==
  /\ suite.pc = "test" /\ Code = "offline"
  /\ \E status \in {"pass", "fail"} : CategoryEnds(<<Found(status, 0, TRUE)>>)

\* The user interrupts: only a round trip that has begun hears of it.
Interrupt ==
  /\ suite.pc # "over" /\ ~suite.interrupted
  /\ suite' = [suite EXCEPT !.interrupted = TRUE]
  /\ UNCHANGED <<plan, trial, results>>

(***************************************************************************)
(* A live category and runLive.                                            *)
(***************************************************************************)
\* What some tests cost together.
Costs(tests) == Total([i \in 1 .. Len(tests) |-> tests[i].cost])

\* Mutant: what is left is counted by the report, which a category joins late.
LeftInReport(r) == Limit - Costs(r.report)
\* Budget: what the tests spent so far.
Left(r) == Limit - r.spent

TestEnds(found) ==
  /\ suite' = [suite EXCEPT !.pc = "test", !.test = @ + 1]
  /\ results' = [results EXCEPT !.tests = Append(@, found), !.spent = @ + found.cost]
  /\ trial' = NoTrial
  /\ UNCHANGED plan

\* A test without a key is skipped, one without a cent left is not started.
StartsTest ==
  \/ TestEnds(Found("skip", 0, TRUE))
  \/ Left(results) < 1 /\ TestEnds(Found("budget_exceeded", 0, TRUE))
  \/ /\ Left(results) >= 1
     /\ suite' = [suite EXCEPT !.pc = "adapter"]
     /\ trial' = [NoTrial EXCEPT !.trip = 1]
     /\ UNCHANGED <<plan, results>>

\* The next model, unless there is none or the user interrupted.
NextTest ==
  /\ suite.pc = "test" /\ Code # "offline"
  /\ IF suite.interrupted \/ suite.test > plan.models THEN CategoryEnds(results.tests) ELSE StartsTest

(***************************************************************************)
(* roundTrip.                                                              *)
(***************************************************************************)
\* The adapter was awaited: an interrupt from before is not heard any more.
TripBegins ==
  /\ suite.pc = "adapter"
  /\ suite' = [suite EXCEPT !.pc = "call"]
  /\ trial' = [trial EXCEPT !.deaf = suite.interrupted]
  /\ UNCHANGED <<plan, results>>

Heard == suite.interrupted /\ ~trial.deaf

\* A whole answer, good or not.  The tool test goes on with its second trip.
TripAnswers ==
  /\ suite.pc = "call" /\ ~Heard
  /\ \E cost \in 0 .. MaxCost :
       \/ TestEnds(Found("fail", trial.cost + cost, TRUE))
       \/ IF Code = "tools" /\ trial.trip = 1
          THEN /\ suite' = [suite EXCEPT !.pc = "adapter"]
               /\ trial' = [trial EXCEPT !.trip = 2, !.cost = cost]
               /\ UNCHANGED <<plan, results>>
          ELSE TestEnds(Found("pass", trial.cost + cost, TRUE))

\* An answer that is cut off has no usage and ends like a text; the second trip
\* of the tool test only asks whether there was any.
TripCut ==
  \/ TestEnds(Found("fail", trial.cost, FALSE))
  \/ Code = "tools" /\ trial.trip = 2 /\ TestEnds(Found("pass", trial.cost, FALSE))

TripInterrupted == suite.pc = "call" /\ Heard /\ TripCut

\* The timeout throws, unless there was an interrupt it is taken for.
TripTimesOut ==
  /\ suite.pc = "call" /\ ~Heard
  /\ IF suite.interrupted THEN TripCut ELSE TestEnds(Found("fail", 0, FALSE))

\* The adapter or the call throws: nothing is charged.
TripFails ==
  /\ suite.pc \in {"adapter", "call"} /\ ~(suite.pc = "call" /\ Heard)
  /\ TestEnds(Found(IF suite.interrupted THEN "error" ELSE "fail", 0, FALSE))

SelfNext ==
  \/ NextCategory \/ CategoryBreaks \/ OfflineRuns \/ Interrupt \/ NextTest
  \/ TripBegins \/ TripAnswers \/ TripInterrupted \/ TripTimesOut \/ TripFails

SelfSpec == SelfInit /\ [][SelfNext]_selfVars

(***************************************************************************)
(* Properties.                                                             *)
(***************************************************************************)
\* The results a complete run reports: one for an offline category, one for
\* each model of a live one.
Planned == Total([i \in 1 .. Len(plan.codes) |-> IF plan.codes[i] = "offline" THEN 1 ELSE plan.models])

\* A self test spends its budget and at most one test more, also while results
\* are not in the report; and its exit code can be relied on: without an
\* interrupt or a deadline a 0 says that every test of every category ended, none
\* was cut off, and that the report accounts for every cent; with one, at least
\* that no test failed (runner.ts:84-97, 154-231, 321-346, report.ts:60).
SelftestTells ==
  /\ results.spent = 0 \/ results.spent <= Limit - 1 + 2 * MaxCost
  /\ suite.pc = "over" /\ suite.code = 0 =>
       /\ Costs(results.report) = results.spent
       /\ ~suite.interrupted => \A i \in DOMAIN results.report : results.report[i].whole
       /\ ~suite.interrupted /\ ~suite.late => Len(results.report) = Planned
=============================================================================
