--------------------------- MODULE MCCommunicator ---------------------------
(* Bounded instance of the Communicator and its Executors for TLC.          *)
EXTENDS Communicator, TLC

(* The prompts are interchangeable: sound for safety.                       *)
PromptSymmetry == Permutations(Prompt)
=============================================================================
