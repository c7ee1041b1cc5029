---------------------------- MODULE MCSubagents ----------------------------
(* Instances of Subagents for TLC. *)
EXTENDS Subagents

CONSTANTS chat

=============================================================================
