----------------------------- MODULE MCAcpServer -----------------------------
(* Bounded instances for TLC of the ACP server and, apart from it, of the   *)
(* line it writes to: a behaviour explores one of them.  The server has two *)
(* prompts, two cancels or two sessions and everything else, or three       *)
(* prompts of which one is cancelled.                                       *)
EXTENDS AcpServer, AcpConnection

VARIABLE line

Within(prompts, cancels, opens, others) ==
  /\ used'.prompts <= prompts /\ used'.cancels <= cancels /\ used'.opens <= opens
  /\ used'.calls <= others /\ used'.asks <= others

MCInit == Init /\ AcpInit /\ line \in {"server", "late", "client"}
MCNext ==
  \/ /\ line = "server" /\ Next /\ UNCHANGED <<acpVars, line>>
     /\ (Within(2, 2, 1, 1) \/ Within(2, 1, 2, 1))
  \/ line = "late" /\ Next /\ Within(3, 1, 1, 0) /\ UNCHANGED <<acpVars, line>>
  \/ line = "client" /\ AcpNext /\ UNCHANGED <<vars, line>>
MCSpec == MCInit /\ [][MCNext]_<<vars, acpVars, line>> /\ Fairness
=============================================================================
