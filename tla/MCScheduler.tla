---------------------------- MODULE MCScheduler ----------------------------
(* Instances of Scheduler for TLC. *)
EXTENDS Scheduler

CONSTANTS j1, j2, u1

(* Two jobs at the same time, one of them once more. *)
TwoJobs == [j \in Jobs |-> IF j = j1 THEN {2, 3} ELSE {2}]

(* Jobs that are due at every tick. *)
EveryTick == [j \in Jobs |-> {2, 4}]

=============================================================================
