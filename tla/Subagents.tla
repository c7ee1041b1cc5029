------------------------------ MODULE Subagents ------------------------------
(***************************************************************************)
(* The subagent manager (crates/unly-agent/src/subagent.rs) with its       *)
(* callers in crates/unly-telegram/src/bot.rs: spawn_background, the task  *)
(* it starts, the process-wide map of tasks, stop_subagent, the row of     *)
(* each subagent in the database and the poller that reports its end.      *)
(*                                                                         *)
(* A statement sent to the database takes effect in a step of its own.     *)
(* The heartbeat only touches updated_at and is left out.                  *)
(***************************************************************************)
EXTENDS Naturals, FiniteSets

CONSTANTS
  Roots,           (* the agents of the chats                              *)
  None,            (* no row, no statement, no parent                      *)
  MaxSubs,         (* bound: subagents over the whole run                  *)
  MaxDepth,        (* max_subagent_depth                                   *)
  MaxConcurrent,   (* max_concurrent_subagents                             *)
  MaxChildren,     (* max_child_subagents_per_parent                       *)
  Ways,            (* how subagents are requested: "user", "tool"          *)
  Faults           (* what may happen: "db", "timeout", "restart", "stray",
                      "early stop"                                         *)

Subs == 1..MaxSubs

Terminal == {"completed", "failed", "cancelled"}

Statuses == {"pending", "running"} \union Terminal

ASSUME SubagentConstants ==
  /\ MaxSubs \in Nat
  /\ MaxDepth \in Nat /\ MaxConcurrent \in Nat \ {0} /\ MaxChildren \in Nat
  /\ None \notin Statuses /\ None \notin Subs /\ None \notin Roots
  /\ Roots \intersect Subs = {}
  /\ Ways \subseteq {"user", "tool"}
  /\ Faults \subseteq {"db", "timeout", "restart", "stray", "early stop"}

VARIABLES
  row,             (* sub -> status column of its row, or None             *)
  parent,          (* sub -> parent_agent_id of the request                *)
  way,             (* sub -> who asked for it                              *)
  spc,             (* sub -> where the call of spawn_background is         *)
  tpc,             (* sub -> where its task is                             *)
  write,           (* sub -> status its task has asked the row to take     *)
  partial,         (* tasks stopped at an approval gate                    *)
  tracked,         (* SUBAGENT_TASKS: subs with a handle                   *)
  stopping,        (* subs whose stop_subagent has aborted, not written    *)
  notice,          (* sub -> what wait_and_notify_subagent_result did      *)
  stopped          (* history: subs whose stop reported success            *)

vars == <<row, parent, way, spc, tpc, write, partial, tracked, stopping,
          notice, stopped>>

request == <<parent, way, spc>>

Init ==
  /\ row = [s \in Subs |-> None]
  /\ parent = [s \in Subs |-> None]
  /\ way = [s \in Subs |-> None]
  /\ spc = [s \in Subs |-> "none"]
  /\ tpc = [s \in Subs |-> "none"]
  /\ write = [s \in Subs |-> None]
  /\ partial = {} /\ tracked = {} /\ stopping = {} /\ stopped = {}
  /\ notice = [s \in Subs |-> "none"]

(* Mutant: a limit of n admits n + 1. *)
ChildrenLeft_OffByOne(p) ==
  Cardinality({s \in Subs : row[s] # None /\ parent[s] = p}) <= MaxChildren

(* count_children counts every row ever made, whatever its status.  When its
   query fails it returns 0. *)
ChildrenLeft(p) ==
  Cardinality({s \in Subs : row[s] # None /\ parent[s] = p}) < MaxChildren

(* A task holds its permit from "starting" until it is gone. *)
Holders == {s \in Subs : tpc[s] \in {"starting", "working", "ending", "leaving"}}

PermitFree == Cardinality(Holders) < MaxConcurrent

-----------------------------------------------------------------------------
(* spawn_background. *)

(* An agent waits for its tool call, and a chat handles one update at a
   time, so a parent has one request of each way under way. *)
Busy(p, w) ==
  \E s \in Subs : parent[s] = p /\ way[s] = w
                  /\ spc[s] \in {"counted", "inserted", "spawned"}

(* The depth the executor passes: always that of a chat. *)
RequestDepth == 0

(* The user confirmed /spawn_subagent, or an agent called the tool. *)
Request(s, p, w) ==
  /\ spc[s] = "none" /\ \A u \in Subs : u < s => spc[u] # "none"
  /\ ~Busy(p, w)
  /\ IF p \in Roots THEN TRUE ELSE tpc[p] = "working" /\ w = "tool"
  /\ RequestDepth < MaxDepth
  /\ ChildrenLeft(p) \/ "db" \in Faults
  /\ parent' = [parent EXCEPT ![s] = p]
  /\ way' = [way EXCEPT ![s] = w]
  /\ spc' = [spc EXCEPT ![s] = "counted"]
  /\ UNCHANGED <<row, tpc, write, partial, tracked, stopping, notice, stopped>>

Alive(p) == IF p \in Roots THEN TRUE ELSE tpc[p] = "working"

InsertRow(s) ==
  /\ spc[s] = "counted" /\ Alive(parent[s])
  /\ row' = [row EXCEPT ![s] = "pending"]
  /\ spc' = [spc EXCEPT ![s] = "inserted"]
  /\ UNCHANGED <<parent, way, tpc, write, partial, tracked, stopping, notice,
                 stopped>>

InsertFails(s) ==
  /\ "db" \in Faults
  /\ spc[s] = "counted"
  /\ spc' = [spc EXCEPT ![s] = "over"]
  /\ UNCHANGED <<row, parent, way, tpc, write, partial, tracked, stopping,
                 notice, stopped>>

(* The tool call times out, or its agent is gone, while the INSERT is under
   way: the row may still appear, and no task is started for it. *)
AbandonRequest(s) ==
  /\ spc[s] = "counted" /\ way[s] = "tool"
  /\ "timeout" \in Faults \/ ~Alive(parent[s])
  /\ \E status \in {None, "pending"} : row' = [row EXCEPT ![s] = status]
  /\ spc' = [spc EXCEPT ![s] = "over"]
  /\ UNCHANGED <<parent, way, tpc, write, partial, tracked, stopping, notice,
                 stopped>>

StartTask(s) ==
  /\ spc[s] = "inserted"
  /\ tpc' = [tpc EXCEPT ![s] = "waiting"]
  /\ spc' = [spc EXCEPT ![s] = "spawned"]
  /\ UNCHANGED <<row, parent, way, write, partial, tracked, stopping, notice,
                 stopped>>

(* The handle is entered in the map after the task has started; a request of
   the user is followed by a poller once the chat has been told. *)
TrackTask(s) ==
  /\ spc[s] = "spawned"
  /\ tracked' = tracked \union {s}
  /\ spc' = [spc EXCEPT ![s] = "done"]
  /\ \/ way[s] = "user" /\ notice' = [notice EXCEPT ![s] = "polling"]
     \/ UNCHANGED notice
  /\ UNCHANGED <<row, parent, way, tpc, write, partial, stopping, stopped>>

-----------------------------------------------------------------------------
(* The task. *)

Acquire(s) ==
  /\ tpc[s] = "waiting" /\ PermitFree
  /\ tpc' = [tpc EXCEPT ![s] = "starting"]
  /\ write' = [write EXCEPT ![s] = "running"]
  /\ UNCHANGED <<row, request, partial, tracked, stopping, notice, stopped>>

(* Every UPDATE of the task is unconditional, and its error is ignored. *)
Written(s) ==
  /\ \/ row' = [row EXCEPT ![s] = write[s]]
     \/ "db" \in Faults /\ UNCHANGED row
  /\ write' = [write EXCEPT ![s] = None]

MarkRunning(s) ==
  /\ tpc[s] = "starting"
  /\ Written(s)
  /\ tpc' = [tpc EXCEPT ![s] = "working"]
  /\ UNCHANGED <<request, partial, tracked, stopping, notice, stopped>>

(* Mutant: an error of the agent leaves the task without a final status. *)
WorkEnds_Silent(s, outcome) ==
  /\ tpc[s] = "working" /\ ~Busy(s, "tool")
  /\ write' = [write EXCEPT ![s] = IF outcome = "failed" THEN "running" ELSE "completed"]
  /\ partial' = IF outcome = "partial" THEN partial \union {s} ELSE partial
  /\ tpc' = [tpc EXCEPT ![s] = "ending"]
  /\ UNCHANGED <<row, request, tracked, stopping, notice, stopped>>

(* Mutant: the label of the log is written as the status. *)
WorkEnds_LogLabel(s, outcome) ==
  /\ tpc[s] = "working" /\ ~Busy(s, "tool")
  /\ write' = [write EXCEPT ![s] = IF outcome = "partial" THEN "completed_partial" ELSE outcome]
  /\ partial' = IF outcome = "partial" THEN partial \union {s} ELSE partial
  /\ tpc' = [tpc EXCEPT ![s] = "ending"]
  /\ UNCHANGED <<row, request, tracked, stopping, notice, stopped>>

(* The agent answers, fails or runs into the time limit of 600 s, or stops
   at an approval gate; only the limit ends it in the middle of an INSERT. *)
WorkEnds(s, outcome) ==
  /\ tpc[s] = "working"
  /\ Busy(s, "tool") => /\ outcome = "failed" /\ "timeout" \in Faults
                        /\ \A u \in Subs : parent[u] = s => spc[u] \notin {"inserted", "spawned"}
  /\ write' = [write EXCEPT ![s] = IF outcome = "failed" THEN "failed" ELSE "completed"]
  /\ partial' = IF outcome = "partial" THEN partial \union {s} ELSE partial
  /\ tpc' = [tpc EXCEPT ![s] = "ending"]
  /\ UNCHANGED <<row, request, tracked, stopping, notice, stopped>>

(* A partial result returns before the map is cleaned. *)
WriteEnd(s) ==
  /\ tpc[s] = "ending"
  /\ Written(s)
  /\ tpc' = [tpc EXCEPT ![s] = IF s \in partial THEN "gone" ELSE "leaving"]
  /\ UNCHANGED <<request, partial, tracked, stopping, notice, stopped>>

Leave(s) ==
  /\ tpc[s] = "leaving"
  /\ tracked' = tracked \ {s}
  /\ tpc' = [tpc EXCEPT ![s] = "gone"]
  /\ UNCHANGED <<row, request, write, partial, stopping, notice, stopped>>

-----------------------------------------------------------------------------
(* stop_subagent, from a button of the subagent menu. *)

(* Mutant: the handle is dropped, which does not abort the task. *)
StopAbort_Detaches(s) ==
  /\ row[s] # None /\ s \notin stopping
  /\ "early stop" \in Faults \/ spc[s] \in {"done", "over"}
  /\ tracked' = tracked \ {s}
  /\ stopping' = stopping \union {s}
  /\ UNCHANGED <<row, request, tpc, write, partial, notice, stopped>>

(* The task ends at its next await.  A statement it has sent may be carried
   out nevertheless. *)
StopAbort(s) ==
  /\ row[s] # None /\ s \notin stopping
  /\ "early stop" \in Faults \/ spc[s] \in {"done", "over"}
  /\ IF s \in tracked
     THEN /\ tpc' = [tpc EXCEPT ![s] = "gone"]
          /\ write' = IF "stray" \in Faults THEN write
                      ELSE [write EXCEPT ![s] = None]
     ELSE UNCHANGED <<tpc, write>>
  /\ tracked' = tracked \ {s}
  /\ stopping' = stopping \union {s}
  /\ UNCHANGED <<row, request, partial, notice, stopped>>

(* Mutant: the UPDATE has no condition on the status. *)
StopWrite_Always(s) ==
  /\ s \in stopping
  /\ row' = [row EXCEPT ![s] = "cancelled"]
  /\ stopping' = stopping \ {s}
  /\ stopped' = stopped \union {s}
  /\ UNCHANGED <<request, tpc, write, partial, tracked, notice>>

StopWrite(s) ==
  /\ s \in stopping
  /\ row' = [row EXCEPT ![s] =
               IF @ \in {"pending", "running"} THEN "cancelled" ELSE @]
  /\ stopping' = stopping \ {s}
  /\ stopped' = stopped \union {s}
  /\ UNCHANGED <<request, tpc, write, partial, tracked, notice>>

StopFails(s) ==
  /\ "db" \in Faults
  /\ s \in stopping
  /\ stopping' = stopping \ {s}
  /\ UNCHANGED <<row, request, tpc, write, partial, tracked, notice, stopped>>

(* The database carries out a statement whose task was aborted. *)
StrayWrite(s) ==
  /\ tpc[s] = "gone" /\ write[s] # None
  /\ row' = [row EXCEPT ![s] = write[s]]
  /\ write' = [write EXCEPT ![s] = None]
  /\ UNCHANGED <<request, tpc, partial, tracked, stopping, notice, stopped>>

-----------------------------------------------------------------------------
(* wait_and_notify_subagent_result polls the row 180 times. *)

(* Mutant: a cancelled subagent is reported as completed. *)
Notify_Cancelled(s) ==
  /\ notice[s] = "polling" /\ row[s] \in Terminal
  /\ notice' = [notice EXCEPT ![s] = IF row[s] = "failed" THEN "failed" ELSE "completed"]
  /\ UNCHANGED <<row, request, tpc, write, partial, tracked, stopping, stopped>>

Notify(s) ==
  /\ notice[s] = "polling" /\ row[s] \in {"completed", "failed"}
  /\ notice' = [notice EXCEPT ![s] = row[s]]
  /\ UNCHANGED <<row, request, tpc, write, partial, tracked, stopping, stopped>>

GiveUp(s) ==
  /\ notice[s] = "polling" /\ row[s] \notin {"completed", "failed"}
  /\ notice' = [notice EXCEPT ![s] = "gave up"]
  /\ UNCHANGED <<row, request, tpc, write, partial, tracked, stopping, stopped>>

(* The process restarts; the rows stay as they are. *)
Restart ==
  /\ "restart" \in Faults
  /\ spc' = [s \in Subs |-> IF spc[s] = "none" THEN "none" ELSE "over"]
  /\ tpc' = [s \in Subs |-> IF tpc[s] = "none" THEN "none" ELSE "gone"]
  /\ write' = [s \in Subs |-> None]
  /\ partial' = {} /\ tracked' = {} /\ stopping' = {}
  /\ notice' = [s \in Subs |-> IF notice[s] = "polling" THEN "gave up" ELSE notice[s]]
  /\ UNCHANGED <<row, parent, way, stopped>>

Spawning(s) ==
  \/ InsertRow(s)
  \/ InsertFails(s)
  \/ AbandonRequest(s)
  \/ StartTask(s)
  \/ TrackTask(s)

Running(s) ==
  \/ MarkRunning(s)
  \/ \E outcome \in {"completed", "failed", "partial"} : WorkEnds(s, outcome)
  \/ WriteEnd(s)
  \/ Leave(s)

Stopping(s) ==
  \/ StopAbort(s)
  \/ StopWrite(s)
  \/ StopFails(s)
  \/ StrayWrite(s)

Next ==
  \/ \E s \in Subs, p \in Roots \union Subs, w \in Ways : Request(s, p, w)
  \/ \E s \in Subs : Spawning(s) \/ Acquire(s) \/ Running(s) \/ Stopping(s)
  \/ \E s \in Subs : Notify(s) \/ GiveUp(s)
  \/ Restart

Spec == Init /\ [][Next]_vars

(* Tokio runs every ready task, the semaphore is first come, first served,
   an agent's work ends within its time limit, and the database answers. *)
Fairness ==
  \A s \in Subs : /\ WF_vars(Spawning(s))
                  /\ SF_vars(Acquire(s))
                  /\ WF_vars(Running(s))
                  /\ WF_vars(StopWrite(s) \/ StopFails(s))

FairSpec == Spec /\ Fairness

-----------------------------------------------------------------------------
(* Properties. *)

(* The type of every variable. *)
TypeOK ==
  /\ row \in [Subs -> Statuses \union {None}]
  /\ parent \in [Subs -> Roots \union Subs \union {None}]
  /\ way \in [Subs -> {"user", "tool", None}]
  /\ spc \in [Subs -> {"none", "counted", "inserted", "spawned", "done", "over"}]
  /\ tpc \in [Subs -> {"none", "waiting", "starting", "working", "ending",
                       "leaving", "gone"}]
  /\ write \in [Subs -> {"running", "completed", "failed", None}]
  /\ partial \subseteq Subs /\ tracked \subseteq Subs /\ stopping \subseteq Subs
  /\ notice \in [Subs -> {"none", "polling", "completed", "failed", "gave up"}]
  /\ stopped \subseteq Subs

(* No task gets out of reach: one that has not come to its end can be stopped,
   for its handle is in the map or about to be entered, also after a stop that
   came before the handle, failed in the database or was overtaken by a
   statement of the task, so that the row says "cancelled" or "running" again
   (subagent.rs:115-118, 333-338, 382-388). *)
TasksWithinReach ==
  \A s \in Subs :
    tpc[s] \in {"waiting", "starting", "working", "ending"} => s \in tracked \/ spc[s] = "spawned"

(* A parent has at most max_child_subagents_per_parent subagents. *)
ChildrenBounded ==
  \A p \in Roots \union Subs :
    Cardinality({s \in Subs : row[s] # None /\ parent[s] = p}) <= MaxChildren

(* The chain of agents above a subagent is no longer than
   max_subagent_depth. *)
DepthBounded ==
  LET depth[s \in Subs] ==
        IF parent[s] \in Roots \union {None} THEN 1 ELSE depth[parent[s]] + 1
  IN  \A s \in Subs : row[s] # None => depth[s] <= MaxDepth

(* A subagent that ended by itself keeps its result: neither a late stop nor
   its own stale handle in the map turns it into a cancelled one. *)
FinishedRowsFinal ==
  [][\A s \in Subs : row[s] \in {"completed", "failed"} => row'[s] = row[s]]_vars

(* When a stop has been confirmed the subagent does no more work, and its
   row does not come back to life. *)
StoppedStaysStopped ==
  \A s \in stopped : /\ tpc[s] \notin {"waiting", "starting", "working"}
                     /\ row[s] \in Terminal

(* What the user was told of a subagent's end is what its row says. *)
NoticeTrue ==
  \A s \in Subs : notice[s] \in {"completed", "failed"} => row[s] = notice[s]

(* A row shown as active belongs to a task that is alive or about to be, or
   a stop is about to close it. *)
ActiveRowsHaveTasks ==
  \A s \in Subs : row[s] \in {"pending", "running"} =>
    \/ spc[s] \in {"inserted", "spawned"}
    \/ tpc[s] \in {"waiting", "starting", "working", "ending"}
    \/ s \in stopping

(* A subagent that was spawned ends: its row gets a final status although
   the tasks before it in the queue may stop at a gate, fail or be stopped. *)
SubagentEnds == \A s \in Subs : spc[s] = "done" ~> row[s] \in Terminal

=============================================================================
