---------------------------- MODULE TurnOutcome ----------------------------
(***************************************************************************)
(* What the rest of the program relies on when it hands a context to the   *)
(* agent runtime: a turn has one outcome, a tool call runs at most once,   *)
(* and a call the user was asked about runs only after the user agreed.    *)
(***************************************************************************)
EXTENDS Naturals

CONSTANT Ids       (* tool call ids *)

VARIABLES
  phase,           (* "idle", "working", "approved" or "answered"          *)
  event,           (* the last outcome: "done", "asked", "closed"          *)
  pend,            (* calls that wait for the user                         *)
  todo,            (* calls the user approved that have not run            *)
  ran              (* calls that have run                                  *)

vars == <<phase, event, pend, todo, ran>>

Init ==
  /\ phase = "idle" /\ event = "none"
  /\ pend = {} /\ todo = {} /\ ran = {}

Begin ==
  /\ phase = "idle"
  /\ phase' = "working" /\ event' = "none"
  /\ UNCHANGED <<pend, todo, ran>>

(* A call of this turn runs without asking. *)
Run ==
  /\ phase = "working"
  /\ \E id \in Ids \ (ran \union pend) : ran' = ran \union {id}
  /\ UNCHANGED <<phase, event, pend, todo>>

(* The answer is given; bookkeeping may follow before the turn is over. *)
Answer ==
  /\ phase \in {"working", "approved"} /\ todo = {}
  /\ phase' = "answered" /\ event' = "done"
  /\ UNCHANGED <<pend, todo, ran>>

End ==
  /\ phase = "answered"
  /\ phase' = "idle"
  /\ UNCHANGED <<event, pend, todo, ran>>

(* The calls asked about replace those that waited before; none of them has
   run. *)
Ask ==
  /\ phase = "working"
  /\ \E asked \in (SUBSET (Ids \ ran)) \ {{}} : pend' = asked
  /\ phase' = "idle" /\ event' = "asked"
  /\ UNCHANGED <<todo, ran>>

(* An error leaves the calls that wait alone. *)
Fail ==
  /\ phase \in {"working", "approved"} /\ todo = {}
  /\ phase' = "idle" /\ event' = "closed"
  /\ UNCHANGED <<pend, todo, ran>>

(* A turn that is refused fails at once. *)
Refuse ==
  /\ phase = "idle"
  /\ event' = "closed"
  /\ UNCHANGED <<phase, pend, todo, ran>>

Approve ==
  /\ phase = "idle" /\ pend # {}
  /\ phase' = "approved" /\ event' = "none"
  /\ todo' = pend /\ pend' = {}
  /\ UNCHANGED ran

RunApproved ==
  /\ phase = "approved"
  /\ \E id \in todo : /\ ran' = ran \union {id}
                      /\ todo' = todo \ {id}
  /\ UNCHANGED <<phase, event, pend>>

(* The calls that wait are dropped. *)
Deny ==
  /\ phase = "idle"
  /\ pend' = {}
  /\ UNCHANGED <<phase, event, todo, ran>>

Next ==
  \/ Begin \/ Run \/ Answer \/ End \/ Ask \/ Fail \/ Refuse
  \/ Approve \/ RunApproved \/ Deny

Spec == Init /\ [][Next]_vars

=============================================================================
