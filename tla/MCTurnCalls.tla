---------------------------- MODULE MCTurnCalls ----------------------------
(* A turn and the skills and plugins it may show and call, one at a time.  part
   says which of them a behaviour is about; the state of the other stays as it
   is at first.  They share no variable.  The loop of the runtime never stops;
   loading and reloading may. *)
EXTENDS MCAgentTurn, Extensions

VARIABLE part

CallsInit ==
  /\ part \in {"turn", "extensions"}
  /\ Init /\ ExtInit
  /\ part # "extensions" => \A d \in Dirs : dir[d] = Missing

CallsNext ==
  /\ UNCHANGED part
  /\ \/ part = "turn" /\ Next /\ UNCHANGED extVars
     \/ part = "extensions" /\ (ExtNext \/ UNCHANGED extVars) /\ UNCHANGED vars

CallsSpec == CallsInit /\ [][CallsNext]_<<part, vars, extVars>>

=============================================================================
