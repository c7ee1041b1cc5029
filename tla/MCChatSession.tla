--------------------------- MODULE MCChatSession ---------------------------
(* Instances of ChatSession for TLC. *)
EXTENDS ChatSession

CONSTANTS c1, c2, m1, m2

(* What the users of a run do; they set no model before their first message
   in the runs about what a turn starts from, nor start subagents. *)
Everything == Says \union {"reset", "model", "mode", "approve", "deny"}
NoSpawn == Everything \ {"spawn"}
TextAndMode == {"text", "mode"}

=============================================================================
