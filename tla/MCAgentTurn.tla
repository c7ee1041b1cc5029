---------------------------- MODULE MCAgentTurn ----------------------------
(* Instances of AgentTurn for TLC. *)
EXTENDS AgentTurn

(* 24, 16 and 10 in the code. *)
KeepFew == [r \in 0..2 |-> 4 - r]

=============================================================================
