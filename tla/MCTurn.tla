-------------------------------- MODULE MCTurn --------------------------------
(* Bounded instances of a turn for TLC: without a watchdog, where resumes    *)
(* come at any time, and with one.                                           *)
EXTENDS SupervisedTurn

Nothing == [prompts |-> 1, rounds |-> 1, calls |-> 1, compactions |-> 0, failures |-> 0,
            slow |-> 0, special |-> 0, cancels |-> 0, resumes |-> 0, injects |-> 0,
            freezes |-> 0, auto |-> FALSE, watched |-> FALSE]

\* Aborts of every kind while commands run.
Aborts == [Nothing EXCEPT !.calls = 2, !.special = 2, !.cancels = 1, !.resumes = 1, !.prompts = 2]
\* Injects and queued prompts around the ends of turns.
Injects == [Nothing EXCEPT !.prompts = 3, !.injects = 2, !.failures = 1]
\* Compactions and lost results of a long conversation.
Long == [Nothing EXCEPT !.calls = 4, !.rounds = 3, !.compactions = 2, !.auto = TRUE]
\* Stalls: a hung tool and a freeze, two freezes, a cancel in between.
Stalls == [Nothing EXCEPT !.watched = TRUE, !.calls = 2, !.slow = 1, !.freezes = 1]
Freezes == [Nothing EXCEPT !.watched = TRUE, !.freezes = 2]
Cancels == [Nothing EXCEPT !.watched = TRUE, !.slow = 1, !.cancels = 1]
\* Commands that run on while their Executor freezes and is restarted.
Commands == [Nothing EXCEPT !.watched = TRUE, !.special = 1, !.freezes = 1]
\* A slow tool in the turn before another one.
Again == [Nothing EXCEPT !.watched = TRUE, !.slow = 1, !.prompts = 2]

MCEnvs == {Aborts, Injects, Long, Stalls, Freezes, Cancels, Commands, Again}
CancelEnvs == {[Aborts EXCEPT !.prompts = 1]}  \* a cancel and a resume of one turn

Next ==
  \/ env.watched /\ SupNext
  \/ ~env.watched /\ AgentNext /\ UNCHANGED <<dog, host>>
Fairness ==
  /\ SupFairness
  /\ WF_supVars(~env.watched /\ TurnStep /\ UNCHANGED <<dog, host>>)
  /\ WF_supVars(~env.watched /\ Decision /\ UNCHANGED <<dog, host>>)
Spec == SupInit /\ [][Next]_supVars /\ Fairness
=============================================================================
