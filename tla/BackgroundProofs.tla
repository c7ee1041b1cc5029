-------------------------- MODULE BackgroundProofs --------------------------
(***************************************************************************)
(* What runs beside the turns.  First the subagents: types, the bound on   *)
(* children, that no task gets out of reach, that the row of a subagent    *)
(* that ended by itself never changes again, and, where nothing can fail   *)
(* in the way that breaks them, that a stop is final and that an active    *)
(* row has a task.  Then the commands in the background: what is said of a *)
(* command is so and stays said, however often the service ends.           *)
(***************************************************************************)
EXTENDS Subagents, ShellJobs, FiniteSetTheorems, TLAPS

LEMMA InitType == Init => TypeOK
BY DEF Init, TypeOK

(* The rows that spawn_background writes are of the right type. *)
LEMMA SpawnType ==
  ASSUME TypeOK, NEW s \in Subs, Spawning(s)
  PROVE  TypeOK'
<1>1. CASE InsertRow(s)
  BY <1>1 DEF InsertRow, TypeOK, Statuses
<1>2. CASE InsertFails(s)
  BY <1>2 DEF InsertFails, TypeOK
<1>3. CASE AbandonRequest(s)
  BY <1>3 DEF AbandonRequest, TypeOK, Statuses
<1>4. CASE StartTask(s)
  BY <1>4 DEF StartTask, TypeOK
<1>5. CASE TrackTask(s)
  BY <1>5 DEF TrackTask, TypeOK
<1>6. QED
  BY <1>1, <1>2, <1>3, <1>4, <1>5 DEF Spawning

LEMMA WrittenType ==
  ASSUME TypeOK, NEW s \in Subs, Written(s)
  PROVE  /\ row' \in [Subs -> Statuses \union {None}]
         /\ write' \in [Subs -> {"running", "completed", "failed", None}]
<1>1. write[s] \in Statuses \union {None}
  BY DEF TypeOK, Statuses, Terminal
<1>2. row' = [row EXCEPT ![s] = write[s]] \/ row' = row
  BY DEF Written
<1>3. row' \in [Subs -> Statuses \union {None}]
  BY <1>1, <1>2 DEF TypeOK
<1>4. write' \in [Subs -> {"running", "completed", "failed", None}]
  BY DEF Written, TypeOK
<1>5. QED
  BY <1>3, <1>4

LEMMA RunType ==
  ASSUME TypeOK, NEW s \in Subs, Acquire(s) \/ Running(s)
  PROVE  TypeOK'
<1>1. CASE Acquire(s)
  <2>1. tpc' \in [Subs -> {"none", "waiting", "starting", "working", "ending", "leaving", "gone"}]
    BY <1>1 DEF Acquire, TypeOK
  <2>2. write' \in [Subs -> {"running", "completed", "failed", None}]
    BY <1>1 DEF Acquire, TypeOK
  <2>3. QED
    BY <1>1, <2>1, <2>2 DEF Acquire, TypeOK, request
<1>2. CASE MarkRunning(s)
  <2>1. tpc' \in [Subs -> {"none", "waiting", "starting", "working", "ending", "leaving", "gone"}]
    BY <1>2 DEF MarkRunning, TypeOK
  <2>2. UNCHANGED <<parent, way, spc, tracked, stopping, partial, notice, stopped>>
    BY <1>2 DEF MarkRunning, request
  <2>3. QED
    BY <1>2, <2>1, <2>2, WrittenType DEF MarkRunning, TypeOK
<1>3. CASE \E outcome \in {"completed", "failed", "partial"} : WorkEnds(s, outcome)
  <2>0. tpc' = [tpc EXCEPT ![s] = "ending"]
    BY <1>3 DEF WorkEnds
  <2>1. tpc' \in [Subs -> {"none", "waiting", "starting", "working", "ending", "leaving", "gone"}]
    BY <2>0 DEF TypeOK
  <2>2. write' \in [Subs -> {"running", "completed", "failed", None}]
    BY <1>3 DEF WorkEnds, TypeOK
  <2>3. partial' \subseteq Subs
    BY <1>3 DEF WorkEnds, TypeOK
  <2>4. UNCHANGED <<row, parent, way, spc, tracked, stopping, notice, stopped>>
    BY <1>3 DEF WorkEnds, request
  <2>5. QED
    BY <2>1, <2>2, <2>3, <2>4 DEF TypeOK
<1>4. CASE WriteEnd(s)
  <2>1. tpc' \in [Subs -> {"none", "waiting", "starting", "working", "ending", "leaving", "gone"}]
    BY <1>4 DEF WriteEnd, TypeOK
  <2>2. UNCHANGED <<parent, way, spc, tracked, stopping, partial, notice, stopped>>
    BY <1>4 DEF WriteEnd, request
  <2>3. QED
    BY <1>4, <2>1, <2>2, WrittenType DEF WriteEnd, TypeOK
<1>5. CASE Leave(s)
  BY <1>5 DEF Leave, TypeOK, request
<1>6. QED
  BY <1>1, <1>2, <1>3, <1>4, <1>5 DEF Running

LEMMA StopType ==
  ASSUME TypeOK, NEW s \in Subs, Stopping(s)
  PROVE  TypeOK'
<1>1. CASE StopAbort(s)
  BY <1>1 DEF StopAbort, TypeOK, request
<1>2. CASE StopWrite(s)
  BY <1>2 DEF StopWrite, TypeOK, request, Statuses, Terminal
<1>3. CASE StopFails(s)
  BY <1>3 DEF StopFails, TypeOK, request
<1>4. CASE StrayWrite(s)
  BY <1>4 DEF StrayWrite, TypeOK, request, Statuses, Terminal
<1>5. QED
  BY <1>1, <1>2, <1>3, <1>4 DEF Stopping

LEMMA OtherType ==
  ASSUME TypeOK
  PROVE  /\ \A s \in Subs, p \in Roots \union Subs, w \in Ways :
              Request(s, p, w) => TypeOK'
         /\ \A s \in Subs : Notify(s) \/ GiveUp(s) => TypeOK'
         /\ Restart => TypeOK'
<1>1. ASSUME NEW s \in Subs, NEW p \in Roots \union Subs, NEW w \in Ways,
             Request(s, p, w)
      PROVE  TypeOK'
  <2>1. w \in {"user", "tool"}
    BY SubagentConstants
  <2>2. QED
    BY <1>1, <2>1 DEF Request, TypeOK
<1>2. ASSUME NEW s \in Subs, Notify(s) \/ GiveUp(s) PROVE TypeOK'
  <2>1. CASE Notify(s)
    BY <2>1 DEF Notify, TypeOK, request
  <2>2. CASE GiveUp(s)
    BY <2>2 DEF GiveUp, TypeOK, request
  <2>3. QED
    BY <1>2, <2>1, <2>2
<1>3. ASSUME Restart PROVE TypeOK'
  BY <1>3 DEF Restart, TypeOK
<1>4. QED
  BY <1>1, <1>2, <1>3

(* Every variable of the subagent manager keeps its type. *)
THEOREM TypeCorrect == Spec => []TypeOK
<1>1. TypeOK /\ [Next]_vars => TypeOK'
  <2>1. TypeOK /\ UNCHANGED vars => TypeOK'
    BY DEF vars, TypeOK
  <2>2. QED
    BY <2>1, SpawnType, RunType, StopType, OtherType DEF Next
<1>2. QED
  BY InitType, <1>1, PTL DEF Spec

-----------------------------------------------------------------------------
(* What a step does to the subagent it is about, and that it does nothing to
   the others.  The invariants below are proved from these effects. *)
Others(s) ==
  \A u \in Subs : u # s =>
    /\ row'[u] = row[u] /\ parent'[u] = parent[u] /\ way'[u] = way[u]
    /\ spc'[u] = spc[u] /\ tpc'[u] = tpc[u] /\ write'[u] = write[u]
    /\ u \in tracked' <=> u \in tracked
    /\ u \in stopping' <=> u \in stopping
    /\ u \in stopped' <=> u \in stopped

Becomes(s, status, place, at, statement) ==
  /\ row'[s] = status /\ spc'[s] = place /\ tpc'[s] = at /\ write'[s] = statement
  /\ Others(s)

KeepsHandle(s) == s \in tracked' <=> s \in tracked
KeepsStops(s) == (s \in stopping' <=> s \in stopping) /\ (s \in stopped' <=> s \in stopped)

Requested(s, w) ==
  /\ spc[s] = "none" /\ way'[s] = w /\ w \in Ways
  /\ Becomes(s, row[s], "counted", tpc[s], write[s]) /\ KeepsHandle(s) /\ KeepsStops(s)

Spawned(s) ==
  /\ way'[s] = way[s] /\ KeepsStops(s)
  /\ \/ /\ spc[s] = "counted" /\ KeepsHandle(s)
        /\ Becomes(s, "pending", "inserted", tpc[s], write[s])
     \/ /\ spc[s] = "counted" /\ "db" \in Faults /\ KeepsHandle(s)
        /\ Becomes(s, row[s], "over", tpc[s], write[s])
     \/ /\ spc[s] = "counted" /\ way[s] = "tool" /\ KeepsHandle(s)
        /\ \/ Becomes(s, None, "over", tpc[s], write[s])
           \/ Becomes(s, "pending", "over", tpc[s], write[s])
     \/ /\ spc[s] = "inserted" /\ KeepsHandle(s)
        /\ Becomes(s, row[s], "spawned", "waiting", write[s])
     \/ /\ spc[s] = "spawned" /\ s \in tracked'
        /\ Becomes(s, row[s], "done", tpc[s], write[s])

(* A statement of the task: it is carried out, or the database fails. *)
Wrote(s, at) ==
  \/ Becomes(s, write[s], spc[s], at, None)
  \/ "db" \in Faults /\ Becomes(s, row[s], spc[s], at, None)

Worked(s) ==
  /\ way'[s] = way[s] /\ KeepsStops(s)
  /\ \/ /\ tpc[s] = "waiting" /\ KeepsHandle(s)
        /\ Becomes(s, row[s], spc[s], "starting", "running")
     \/ tpc[s] = "starting" /\ KeepsHandle(s) /\ Wrote(s, "working")
     \/ /\ tpc[s] = "working" /\ KeepsHandle(s)
        /\ \/ Becomes(s, row[s], spc[s], "ending", "completed")
           \/ Becomes(s, row[s], spc[s], "ending", "failed")
     \/ /\ tpc[s] = "ending" /\ KeepsHandle(s)
        /\ (Wrote(s, "gone") \/ Wrote(s, "leaving"))
     \/ /\ tpc[s] = "leaving" /\ s \notin tracked'
        /\ Becomes(s, row[s], spc[s], "gone", write[s])

Aborted(s) ==
  /\ row[s] # None /\ s \in stopping' /\ s \notin tracked'
  /\ s \in stopped' <=> s \in stopped
  /\ "early stop" \in Faults \/ spc[s] \in {"done", "over"}
  /\ \/ /\ s \in tracked
        /\ \/ "stray" \in Faults /\ Becomes(s, row[s], spc[s], "gone", write[s])
           \/ "stray" \notin Faults /\ Becomes(s, row[s], spc[s], "gone", None)
     \/ s \notin tracked /\ Becomes(s, row[s], spc[s], tpc[s], write[s])

Stopped(s) ==
  /\ way'[s] = way[s]
  /\ \/ Aborted(s)
     \/ /\ KeepsHandle(s)
        /\ \/ /\ s \in stopping /\ s \notin stopping' /\ s \in stopped'
              /\ \/ /\ row[s] \in {"pending", "running"}
                    /\ Becomes(s, "cancelled", spc[s], tpc[s], write[s])
                 \/ /\ row[s] \notin {"pending", "running"}
                    /\ Becomes(s, row[s], spc[s], tpc[s], write[s])
           \/ /\ "db" \in Faults /\ s \notin stopping' /\ (s \in stopped' <=> s \in stopped)
              /\ Becomes(s, row[s], spc[s], tpc[s], write[s])
           \/ /\ tpc[s] = "gone" /\ write[s] # None /\ KeepsStops(s)
              /\ Becomes(s, write[s], spc[s], "gone", None)

(* Steps that are about no row, request or task. *)
Quiet == UNCHANGED <<row, parent, way, spc, tpc, write, tracked, stopping, stopped>>

LEMMA RequestEffects ==
  ASSUME TypeOK, NEW s \in Subs, NEW p \in Roots \union Subs, NEW w \in Ways, Request(s, p, w)
  PROVE  Requested(s, w)
<1>1. /\ spc[s] = "none" /\ spc' = [spc EXCEPT ![s] = "counted"]
      /\ parent' = [parent EXCEPT ![s] = p] /\ way' = [way EXCEPT ![s] = w]
      /\ UNCHANGED <<row, tpc, write, tracked, stopping, stopped>>
  BY DEF Request
<1>2. /\ spc'[s] = "counted" /\ way'[s] = w
      /\ \A u \in Subs : u # s => spc'[u] = spc[u] /\ parent'[u] = parent[u] /\ way'[u] = way[u]
  BY <1>1 DEF TypeOK
<1>3. QED
  BY <1>1, <1>2 DEF Requested, Becomes, Others, KeepsHandle, KeepsStops

LEMMA SpawnEffects ==
  ASSUME TypeOK, NEW s \in Subs, Spawning(s)
  PROVE  Spawned(s)
<1> USE DEF Spawned, Becomes, Others, KeepsHandle, KeepsStops
<1>1. CASE InsertRow(s)
  <2>1. /\ spc[s] = "counted" /\ row'[s] = "pending" /\ spc'[s] = "inserted"
        /\ \A u \in Subs : u # s => row'[u] = row[u] /\ spc'[u] = spc[u]
        /\ UNCHANGED <<parent, way, tpc, write, tracked, stopping, stopped>>
    BY <1>1 DEF InsertRow, TypeOK
  <2>2. QED
    BY <2>1
<1>2. CASE InsertFails(s)
  <2>1. /\ spc[s] = "counted" /\ "db" \in Faults /\ spc'[s] = "over"
        /\ \A u \in Subs : u # s => spc'[u] = spc[u]
        /\ UNCHANGED <<row, parent, way, tpc, write, tracked, stopping, stopped>>
    BY <1>2 DEF InsertFails, TypeOK
  <2>2. QED
    BY <2>1
<1>3. CASE AbandonRequest(s)
  <2>1. /\ spc[s] = "counted" /\ way[s] = "tool" /\ spc'[s] = "over"
        /\ row'[s] = None \/ row'[s] = "pending"
        /\ \A u \in Subs : u # s => row'[u] = row[u] /\ spc'[u] = spc[u]
        /\ UNCHANGED <<parent, way, tpc, write, tracked, stopping, stopped>>
    BY <1>3 DEF AbandonRequest, TypeOK
  <2>2. QED
    BY <2>1
<1>4. CASE StartTask(s)
  <2>1. /\ spc[s] = "inserted" /\ tpc'[s] = "waiting" /\ spc'[s] = "spawned"
        /\ \A u \in Subs : u # s => tpc'[u] = tpc[u] /\ spc'[u] = spc[u]
        /\ UNCHANGED <<row, parent, way, write, tracked, stopping, stopped>>
    BY <1>4 DEF StartTask, TypeOK
  <2>2. QED
    BY <2>1
<1>5. CASE TrackTask(s)
  <2>1. /\ spc[s] = "spawned" /\ tracked' = tracked \union {s} /\ spc'[s] = "done"
        /\ \A u \in Subs : u # s => spc'[u] = spc[u]
        /\ UNCHANGED <<row, parent, way, tpc, write, stopping, stopped>>
    BY <1>5 DEF TrackTask, TypeOK
  <2>2. QED
    BY <2>1
<1>6. QED
  BY <1>1, <1>2, <1>3, <1>4, <1>5 DEF Spawning

LEMMA WrittenEffects ==
  ASSUME TypeOK, NEW s \in Subs, Written(s)
  PROVE  /\ row'[s] = write[s] \/ ("db" \in Faults /\ row'[s] = row[s])
         /\ write'[s] = None
         /\ \A u \in Subs : u # s => row'[u] = row[u] /\ write'[u] = write[u]
BY DEF Written, TypeOK

LEMMA WorkEffects ==
  ASSUME TypeOK, NEW s \in Subs, Acquire(s) \/ Running(s)
  PROVE  Worked(s)
<1> USE DEF Worked, Becomes, Others, KeepsHandle, KeepsStops
<1>1. CASE Acquire(s)
  <2>1. /\ tpc[s] = "waiting" /\ tpc'[s] = "starting" /\ write'[s] = "running"
        /\ \A u \in Subs : u # s => tpc'[u] = tpc[u] /\ write'[u] = write[u]
        /\ UNCHANGED <<row, parent, way, spc, tracked, stopping, stopped>>
    BY <1>1 DEF Acquire, TypeOK, request
  <2>2. QED
    BY <2>1
<1>2. CASE MarkRunning(s)
  <2>1. /\ tpc[s] = "starting" /\ tpc'[s] = "working" /\ Written(s)
        /\ \A u \in Subs : u # s => tpc'[u] = tpc[u]
        /\ UNCHANGED <<parent, way, spc, tracked, stopping, stopped>>
    BY <1>2 DEF MarkRunning, TypeOK, request
  <2>2. QED
    BY <2>1, WrittenEffects DEF Wrote
<1>3. CASE \E outcome \in {"completed", "failed", "partial"} : WorkEnds(s, outcome)
  <2>1. PICK end \in {"completed", "failed"} :
          /\ write' = [write EXCEPT ![s] = end] /\ tpc[s] = "working"
          /\ tpc' = [tpc EXCEPT ![s] = "ending"]
          /\ UNCHANGED <<row, parent, way, spc, tracked, stopping, stopped>>
    BY <1>3 DEF WorkEnds, request
  <2>2. /\ tpc'[s] = "ending" /\ write'[s] = end
        /\ \A u \in Subs : u # s => tpc'[u] = tpc[u] /\ write'[u] = write[u]
    BY <2>1 DEF TypeOK
  <2>3. QED
    BY <2>1, <2>2
<1>4. CASE WriteEnd(s)
  <2>1. /\ tpc[s] = "ending" /\ tpc'[s] \in {"gone", "leaving"} /\ Written(s)
        /\ \A u \in Subs : u # s => tpc'[u] = tpc[u]
        /\ UNCHANGED <<parent, way, spc, tracked, stopping, stopped>>
    BY <1>4 DEF WriteEnd, TypeOK, request
  <2>2. QED
    BY <2>1, WrittenEffects DEF Wrote
<1>5. CASE Leave(s)
  <2>1. /\ tpc[s] = "leaving" /\ tracked' = tracked \ {s} /\ tpc'[s] = "gone"
        /\ \A u \in Subs : u # s => tpc'[u] = tpc[u]
        /\ UNCHANGED <<row, parent, way, spc, write, stopping, stopped>>
    BY <1>5 DEF Leave, TypeOK, request
  <2>2. QED
    BY <2>1
<1>6. QED
  BY <1>1, <1>2, <1>3, <1>4, <1>5 DEF Running

LEMMA StopEffects ==
  ASSUME TypeOK, NEW s \in Subs, Stopping(s)
  PROVE  Stopped(s)
<1> USE DEF Becomes, Others, KeepsHandle, KeepsStops
<1>1. CASE StopAbort(s)
  <2>1. /\ row[s] # None
        /\ "early stop" \in Faults \/ spc[s] \in {"done", "over"}
        /\ tracked' = tracked \ {s} /\ stopping' = stopping \union {s}
        /\ UNCHANGED <<row, parent, way, spc, stopped>>
    BY <1>1 DEF StopAbort, request
  <2>2. CASE s \in tracked
    <3>1. /\ tpc'[s] = "gone" /\ \A u \in Subs : u # s => tpc'[u] = tpc[u]
          /\ write' = IF "stray" \in Faults THEN write ELSE [write EXCEPT ![s] = None]
      BY <1>1, <2>2 DEF StopAbort, TypeOK
    <3>2. /\ write'[s] = IF "stray" \in Faults THEN write[s] ELSE None
          /\ \A u \in Subs : u # s => write'[u] = write[u]
      BY <3>1 DEF TypeOK
    <3>3. QED
      BY <2>1, <2>2, <3>1, <3>2 DEF Stopped, Aborted
  <2>3. CASE s \notin tracked
    <3>1. UNCHANGED <<tpc, write>>
      BY <1>1, <2>3 DEF StopAbort
    <3>2. QED
      BY <2>1, <2>3, <3>1 DEF Stopped, Aborted
  <2>4. QED
    BY <2>2, <2>3
<1>2. CASE StopWrite(s)
  <2>1. /\ s \in stopping /\ stopping' = stopping \ {s} /\ stopped' = stopped \union {s}
        /\ row'[s] = IF row[s] \in {"pending", "running"} THEN "cancelled" ELSE row[s]
        /\ \A u \in Subs : u # s => row'[u] = row[u]
        /\ UNCHANGED <<parent, way, spc, tpc, write, tracked>>
    BY <1>2 DEF StopWrite, TypeOK, request
  <2>2. QED
    BY <2>1 DEF Stopped
<1>3. CASE StopFails(s)
  <2>1. /\ "db" \in Faults /\ stopping' = stopping \ {s}
        /\ UNCHANGED <<row, parent, way, spc, tpc, write, tracked, stopped>>
    BY <1>3 DEF StopFails, request
  <2>2. QED
    BY <2>1 DEF Stopped
<1>4. CASE StrayWrite(s)
  <2>1. /\ tpc[s] = "gone" /\ write[s] # None /\ row'[s] = write[s] /\ write'[s] = None
        /\ \A u \in Subs : u # s => row'[u] = row[u] /\ write'[u] = write[u]
        /\ UNCHANGED <<parent, way, spc, tpc, tracked, stopping, stopped>>
    BY <1>4 DEF StrayWrite, TypeOK, request
  <2>2. QED
    BY <2>1 DEF Stopped
<1>5. QED
  BY <1>1, <1>2, <1>3, <1>4 DEF Stopping

LEMMA RestartEffects ==
  ASSUME TypeOK, Restart
  PROVE  /\ "restart" \in Faults /\ UNCHANGED <<row, parent, way, stopped>>
         /\ tracked' = {} /\ stopping' = {}
         /\ \A s \in Subs : /\ spc'[s] = IF spc[s] = "none" THEN "none" ELSE "over"
                            /\ tpc'[s] = IF tpc[s] = "none" THEN "none" ELSE "gone"
                            /\ write'[s] = None
BY DEF Restart

(* Every step is one of these. *)
LEMMA StepEffects ==
  ASSUME TypeOK, [Next]_vars
  PROVE  \/ Quiet
         \/ \E s \in Subs : (\E w \in Ways : Requested(s, w)) \/ Spawned(s) \/ Worked(s) \/ Stopped(s)
         \/ Restart
<1>1. CASE UNCHANGED vars
  BY <1>1 DEF vars, request, Quiet
<1>2. ASSUME NEW s \in Subs, Notify(s) \/ GiveUp(s) PROVE Quiet
  BY <1>2 DEF Notify, GiveUp, request, Quiet
<1>3. QED
  BY <1>1, <1>2, RequestEffects, SpawnEffects, WorkEffects, StopEffects DEF Next

-----------------------------------------------------------------------------
LEMMA Limits == MaxSubs \in Nat /\ MaxConcurrent \in Nat /\ MaxChildren \in Nat
BY SubagentConstants

(* A task that has not come to its end is in the map, or its request is about
   to enter it: whatever fails, is stopped early or loses its process, no task
   works on that no stop can abort (subagent.rs:115-118, 333-338, 382-388). *)
THEOREM TasksAreWithinReach == Spec => []TasksWithinReach
<1> DEFINE Reach(s) ==
      tpc[s] \in {"waiting", "starting", "working", "ending"} => s \in tracked \/ spc[s] = "spawned"
<1>1. Init => TasksWithinReach
  BY DEF Init, TasksWithinReach
<1>2. ASSUME TypeOK, TasksWithinReach, [Next]_vars PROVE TasksWithinReach'
  <2>1. \A s \in Subs : Reach(s)
    BY <1>2 DEF TasksWithinReach
  <2>2. SUFFICES \A s \in Subs : Reach(s)'
    BY DEF TasksWithinReach
  <2>3. ASSUME NEW s \in Subs, Others(s), Reach(s)'
        PROVE  \A u \in Subs : Reach(u)'
    BY <2>1, <2>3 DEF Others
  <2>4. CASE Quiet
    BY <2>1, <2>4 DEF Quiet
  <2>5. ASSUME NEW s \in Subs, NEW w \in Ways, Requested(s, w)
        PROVE  Others(s) /\ Reach(s)'
    BY <2>1, <2>5 DEF Requested, Becomes, KeepsHandle
  <2>6. ASSUME NEW s \in Subs, Spawned(s)
        PROVE  Others(s) /\ Reach(s)'
    BY <2>1, <2>6 DEF Spawned, Becomes, KeepsHandle
  <2>7. ASSUME NEW s \in Subs, Worked(s)
        PROVE  Others(s) /\ Reach(s)'
    BY <2>1, <2>7 DEF Worked, Wrote, Becomes, KeepsHandle
  <2>8. ASSUME NEW s \in Subs, Stopped(s)
        PROVE  Others(s) /\ Reach(s)'
    BY <2>1, <2>8 DEF Stopped, Aborted, Becomes, KeepsHandle
  <2>9. CASE Restart
    BY <2>9 DEF Restart
  <2> HIDE DEF Reach
  <2>10. QED
    BY <1>2, <2>3, <2>4, <2>5, <2>6, <2>7, <2>8, <2>9, StepEffects
<1>3. QED
  BY <1>1, <1>2, TypeCorrect, PTL DEF Spec

-----------------------------------------------------------------------------
(* When the row shows a result the task has nothing left to write, and the
   request is over: the rows the request and the task still write are those
   of subagents without a result.  The first statement of a task is the one
   that marks the row as running, and only tasks that started are tracked. *)
Result(s) ==
  /\ row[s] \in {"completed", "failed"} =>
       /\ write[s] = None
       /\ tpc[s] \in {"leaving", "gone"}
  /\ tpc[s] # "none" => spc[s] \in {"spawned", "done", "over"}
  /\ tpc[s] = "starting" => write[s] = "running"
  /\ s \in tracked => spc[s] \in {"done", "over"}

ResultInv == \A s \in Subs : Result(s)

LEMMA NoneIsNoResult == None \notin {"running", "completed", "failed"}
BY SubagentConstants DEF Statuses, Terminal

(* What FinishedRowsFinal says of one step. *)
ResultKept(s) == row[s] \in {"completed", "failed"} => row'[s] = row[s]

ResultsKept == \A s \in Subs : ResultKept(s)

LEMMA ResultStep ==
  ASSUME TypeOK, ResultInv, [Next]_vars
  PROVE  ResultInv' /\ ResultsKept
<1>1. CASE Quiet
  BY <1>1 DEF Quiet, ResultInv, Result, ResultsKept, ResultKept
<1>2. ASSUME NEW s \in Subs,
             (\E w \in Ways : Requested(s, w)) \/ Spawned(s) \/ Worked(s) \/ Stopped(s)
      PROVE  ResultInv' /\ ResultsKept
  <2>1. Others(s)
    BY <1>2 DEF Requested, Spawned, Worked, Wrote, Stopped, Aborted, Becomes
  <2>2. ASSUME NEW u \in Subs, u # s PROVE Result(u)' /\ ResultKept(u)
    BY <2>1, <2>2 DEF Others, ResultInv, Result, ResultKept
  <2>3. Result(s) /\ write[s] \in {"running", "completed", "failed", None}
    BY DEF ResultInv, TypeOK
  <2>4. Result(s)' /\ ResultKept(s)
    <3>1. CASE \E w \in Ways : Requested(s, w)
      BY <2>3, <3>1 DEF Requested, Becomes, KeepsHandle, Result, ResultKept
    <3>2. CASE Spawned(s)
      BY <2>3, <3>2, NoneIsNoResult DEF Spawned, Becomes, KeepsHandle, Result, ResultKept
    <3>3. CASE Worked(s)
      BY <2>3, <3>3, NoneIsNoResult DEF Worked, Wrote, Becomes, KeepsHandle, Result, ResultKept
    <3>4. CASE Stopped(s)
      BY <2>3, <3>4 DEF Stopped, Aborted, Becomes, KeepsHandle, Result, ResultKept
    <3>5. QED
      BY <1>2, <3>1, <3>2, <3>3, <3>4
  <2>5. QED
    BY <2>2, <2>4 DEF ResultInv, ResultsKept
<1>3. CASE Restart
  BY <1>3, RestartEffects DEF ResultInv, Result, ResultsKept, ResultKept
<1>4. QED
  BY <1>1, <1>2, <1>3, StepEffects

LEMMA ResultInvariant == Spec => [](TypeOK /\ ResultInv)
<1>1. Init => ResultInv
  BY NoneIsNoResult DEF Init, ResultInv, Result
<1>2. TypeOK /\ ResultInv /\ [Next]_vars => ResultInv'
  BY ResultStep
<1>3. QED
  BY <1>1, <1>2, TypeCorrect, PTL DEF Spec

(* The result of a subagent that ended by itself is final: no stop, stale
   handle, stray statement or restart changes its row. *)
THEOREM ResultsFinal == Spec => FinishedRowsFinal
<1>1. TypeOK /\ ResultInv /\ [Next]_vars => ResultsKept
  BY ResultStep
<1>2. [](TypeOK /\ ResultInv) /\ [][Next]_vars => [][ResultsKept]_vars
  BY <1>1, PTL
<1>3. [](TypeOK /\ ResultInv) /\ [][Next]_vars => FinishedRowsFinal
  BY <1>2 DEF FinishedRowsFinal, ResultsKept, ResultKept
<1>4. QED
  BY <1>3, ResultInvariant, PTL DEF Spec

-----------------------------------------------------------------------------
(* A step that tells the user of an end reads it from the row. *)
NoticeRead ==
  \A s \in Subs : notice'[s] \in {"completed", "failed"} =>
    notice'[s] = notice[s] \/ notice'[s] = row'[s]

LEMMA NoticeStep ==
  ASSUME TypeOK, [Next]_vars
  PROVE  NoticeRead
<1>1. CASE UNCHANGED vars
  BY <1>1 DEF vars, NoticeRead
<1>2. ASSUME NEW s \in Subs, NEW p \in Roots \union Subs, NEW w \in Ways,
             Request(s, p, w)
      PROVE  NoticeRead
  BY <1>2 DEF Request, NoticeRead
<1>3. ASSUME NEW s \in Subs, Spawning(s) PROVE NoticeRead
  BY <1>3 DEF Spawning, InsertRow, InsertFails, AbandonRequest, StartTask, TrackTask,
              TypeOK, NoticeRead
<1>4. ASSUME NEW s \in Subs, Acquire(s) \/ Running(s) \/ Stopping(s)
      PROVE  NoticeRead
  <2>1. UNCHANGED notice
    BY <1>4 DEF Acquire, Running, MarkRunning, WorkEnds, WriteEnd, Leave, Stopping,
                StopAbort, StopWrite, StopFails, StrayWrite
  <2>2. QED
    BY <2>1 DEF NoticeRead
<1>5. ASSUME NEW s \in Subs, Notify(s) \/ GiveUp(s) PROVE NoticeRead
  BY <1>5 DEF Notify, GiveUp, TypeOK, NoticeRead
<1>6. CASE Restart
  BY <1>6 DEF Restart, TypeOK, NoticeRead
<1>7. QED
  BY <1>1, <1>2, <1>3, <1>4, <1>5, <1>6 DEF Next

(* What the user was told of the end of a subagent stays what its row
   says. *)
THEOREM NoticesTrue == Spec => []NoticeTrue
<1>1. Init => NoticeTrue
  BY DEF Init, NoticeTrue
<1>2. ASSUME TypeOK, ResultInv, NoticeTrue, [Next]_vars PROVE NoticeTrue'
  <2>1. ResultsKept /\ NoticeRead
    BY <1>2, ResultStep, NoticeStep
  <2>2. QED
    BY <1>2, <2>1 DEF ResultsKept, ResultKept, NoticeRead, NoticeTrue
<1>3. QED
  BY <1>1, <1>2, ResultInvariant, PTL DEF Spec

-----------------------------------------------------------------------------
(* A subagent has a row from the INSERT on, and what its task has asked the
   row to take goes with where the task is. *)
RowOf(s) ==
  /\ spc[s] \in {"none", "counted"} => row[s] = None
  /\ spc[s] \notin {"none", "over"} => way[s] \in Ways
  /\ spc[s] \in {"inserted", "spawned", "done"} => row[s] # None
  /\ tpc[s] # "none" => row[s] # None /\ spc[s] \in {"spawned", "done", "over"}
  /\ spc[s] = "spawned" \/ s \in tracked => tpc[s] # "none"
  /\ tpc[s] \in {"none", "waiting"} => write[s] = None
  /\ tpc[s] \in {"leaving", "gone"} /\ "stray" \notin Faults => write[s] = None
  /\ tpc[s] = "starting" => write[s] = "running"
  /\ tpc[s] = "ending" => write[s] \in {"completed", "failed"}

RowInv == \A s \in Subs : RowOf(s)

(* Rows are not deleted, and only the INSERT of a request makes one. *)
RowStays(s) ==
  /\ row[s] # None => row'[s] # None
  /\ row'[s] # None => row[s] # None \/ spc[s] = "counted"

RowsStay == \A s \in Subs : RowStays(s)

LEMMA NoneIsNoStatus ==
  None \notin {"pending", "running", "completed", "failed", "cancelled"}
BY SubagentConstants DEF Statuses, Terminal

LEMMA RowStep ==
  ASSUME TypeOK, RowInv, [Next]_vars
  PROVE  RowInv' /\ RowsStay
<1>1. CASE Quiet
  BY <1>1 DEF Quiet, RowInv, RowOf, RowsStay, RowStays
<1>2. ASSUME NEW s \in Subs,
             (\E w \in Ways : Requested(s, w)) \/ Spawned(s) \/ Worked(s) \/ Stopped(s)
      PROVE  RowInv' /\ RowsStay
  <2>1. Others(s)
    BY <1>2 DEF Requested, Spawned, Worked, Wrote, Stopped, Aborted, Becomes
  <2>2. ASSUME NEW u \in Subs, u # s PROVE RowOf(u)' /\ RowStays(u)
    BY <2>1, <2>2 DEF Others, RowInv, RowOf, RowStays
  <2>3. RowOf(s)
    BY DEF RowInv
  <2>4. RowOf(s)' /\ RowStays(s)
    <3>1. CASE \E w \in Ways : Requested(s, w)
      BY <2>3, <3>1 DEF Requested, Becomes, KeepsHandle, RowOf, RowStays
    <3>2. CASE Spawned(s)
      BY <2>3, <3>2, NoneIsNoStatus DEF Spawned, Becomes, KeepsHandle, RowOf, RowStays
    <3>3. CASE Worked(s)
      BY <2>3, <3>3, NoneIsNoStatus DEF Worked, Wrote, Becomes, KeepsHandle, RowOf, RowStays
    <3>4. CASE Stopped(s)
      BY <2>3, <3>4, NoneIsNoStatus DEF Stopped, Aborted, Becomes, KeepsHandle, RowOf, RowStays
    <3>5. QED
      BY <1>2, <3>1, <3>2, <3>3, <3>4
  <2>5. QED
    BY <2>2, <2>4 DEF RowInv, RowsStay
<1>3. CASE Restart
  BY <1>3, RestartEffects DEF RowInv, RowOf, RowsStay, RowStays
<1>4. QED
  BY <1>1, <1>2, <1>3, StepEffects

LEMMA RowInvariant == Spec => [](TypeOK /\ RowInv)
<1>1. Init => RowInv
  BY DEF Init, RowInv, RowOf
<1>2. TypeOK /\ RowInv /\ [Next]_vars => RowInv'
  BY RowStep
<1>3. QED
  BY <1>1, <1>2, TypeCorrect, PTL DEF Spec

-----------------------------------------------------------------------------
(* The subagents of a parent, with the request that may become one. *)
Children(p) == {s \in Subs : parent[s] = p /\ (row[s] # None \/ spc[s] = "counted")}

ChildrenInv ==
  \A p \in Roots \union Subs : Cardinality(Children(p)) <= MaxChildren

LEMMA ChildrenFinite ==
  ASSUME NEW p
  PROVE  IsFiniteSet(Children(p)) /\ IsFiniteSet(Children(p)')
<1>1. 1 \in Int /\ MaxSubs \in Int
  BY Limits
<1>2. IsFiniteSet(Subs)
  BY <1>1, FS_Interval DEF Subs
<1>3. Children(p) \in SUBSET Subs /\ Children(p)' \in SUBSET Subs
  BY DEF Children
<1>4. QED
  BY <1>2, <1>3, FS_Subset

(* The children a parent gets in a step are the one it requests, if any. *)
LEMMA ChildrenGrow ==
  ASSUME TypeOK, RowInv, [Next]_vars, NEW p \in Roots \union Subs
  PROVE  \/ Children(p)' \subseteq Children(p)
         \/ \E s \in Subs, w \in Ways :
              Request(s, p, w) /\ Children(p)' \subseteq Children(p) \union {s}
<1>1. ASSUME NEW s \in Subs, NEW q \in Roots \union Subs, NEW w \in Ways,
             Request(s, q, w)
      PROVE  \/ Children(p)' \subseteq Children(p)
             \/ Request(s, p, w) /\ Children(p)' \subseteq Children(p) \union {s}
  <2>1. /\ UNCHANGED row /\ parent' = [parent EXCEPT ![s] = q]
        /\ spc' = [spc EXCEPT ![s] = "counted"]
    BY <1>1 DEF Request
  <2>2. CASE q = p
    BY <1>1, <2>1, <2>2 DEF Children, TypeOK
  <2>3. CASE q # p
    BY <2>1, <2>3 DEF Children, TypeOK
  <2>4. QED
    BY <2>2, <2>3
<1>2. ASSUME UNCHANGED parent,
             \A s \in Subs : spc'[s] = "counted" => spc[s] = "counted"
      PROVE  Children(p)' \subseteq Children(p)
  <2>1. RowsStay
    BY RowStep
  <2>2. QED
    BY <1>2, <2>1 DEF Children, RowsStay, RowStays
<1>3. ASSUME NEW s \in Subs, Spawning(s) PROVE Children(p)' \subseteq Children(p)
  BY <1>2, <1>3 DEF Spawning, InsertRow, InsertFails, AbandonRequest, StartTask,
                    TrackTask, TypeOK
<1>4. ASSUME NEW s \in Subs,
             Acquire(s) \/ Running(s) \/ Stopping(s) \/ Notify(s) \/ GiveUp(s)
      PROVE  Children(p)' \subseteq Children(p)
  <2>1. UNCHANGED request
    BY <1>4 DEF Acquire, Running, MarkRunning, WorkEnds, WriteEnd, Leave, Stopping,
                StopAbort, StopWrite, StopFails, StrayWrite, Notify, GiveUp
  <2>2. QED
    BY <1>2, <2>1 DEF request
<1>5. Restart \/ UNCHANGED vars => Children(p)' \subseteq Children(p)
  BY <1>2 DEF Restart, vars, request, TypeOK
<1>6. QED
  BY <1>1, <1>3, <1>4, <1>5 DEF Next

(* ChildrenBounded where the count cannot fail and a parent makes its requests
   one at a time, however they are abandoned, fail or lose their process: the
   limit is kept although it is checked before the INSERT. *)
THEOREM ChildrenLimit ==
  ASSUME "db" \notin Faults, \A v, w \in Ways : v = w
  PROVE  Spec => []ChildrenBounded
<1>1. Init => ChildrenInv
  <2> SUFFICES ASSUME Init, NEW p \in Roots \union Subs
               PROVE  Cardinality(Children(p)) <= MaxChildren
    BY DEF ChildrenInv
  <2>1. Children(p) = {}
    BY DEF Init, Children
  <2>2. Cardinality(Children(p)) = 0
    BY <2>1, FS_EmptySet
  <2>3. QED
    BY <2>2, Limits
<1>2. TypeOK /\ RowInv /\ ChildrenInv /\ [Next]_vars => ChildrenInv'
  <2> SUFFICES ASSUME TypeOK, RowInv, ChildrenInv, [Next]_vars,
                      NEW p \in Roots \union Subs
               PROVE  Cardinality(Children(p)') <= MaxChildren
    BY DEF ChildrenInv
  <2> DEFINE before == Cardinality(Children(p))
             after == Cardinality(Children(p)')
  <2>1. before \in Nat /\ after \in Nat /\ MaxChildren \in Nat
    BY ChildrenFinite, FS_CardinalityType, SubagentConstants
  <2>2. before <= MaxChildren
    BY DEF ChildrenInv
  <2>3. CASE Children(p)' \subseteq Children(p)
    <3>1. Children(p)' \in SUBSET Children(p)
      BY <2>3
    <3>2. after <= before
      BY <3>1, ChildrenFinite, FS_Subset
    <3> HIDE DEF before, after
    <3>3. after <= MaxChildren
      BY <2>1, <2>2, <3>2
    <3>4. QED
      BY <3>3 DEF after
  <2>4. ASSUME NEW s \in Subs, NEW w \in Ways, Request(s, p, w),
               Children(p)' \subseteq Children(p) \union {s}
        PROVE  after <= MaxChildren
    <3> DEFINE rows == {u \in Subs : row[u] # None /\ parent[u] = p}
               most == Cardinality(Children(p) \union {s})
    <3>1. ~Busy(p, w) /\ Cardinality(rows) < MaxChildren
      BY <2>4 DEF Request, ChildrenLeft
    <3>2. \A u \in Subs : parent[u] = p => spc[u] # "counted"
      BY <3>1 DEF Busy, RowInv, RowOf
    <3>3. Children(p) = rows
      BY <3>2 DEF Children
    <3>4. before < MaxChildren
      BY <3>1, <3>3
    <3>5. /\ IsFiniteSet(Children(p) \union {s})
          /\ most = IF s \in Children(p) THEN before ELSE before + 1
      BY ChildrenFinite, FS_AddElement
    <3>6. Children(p)' \in SUBSET (Children(p) \union {s})
      BY <2>4
    <3>7. after <= most
      BY <3>5, <3>6, FS_Subset
    <3> HIDE DEF before, after, most
    <3>8. QED
      BY <2>1, <3>4, <3>5, <3>7
  <2>5. QED
    BY <2>3, <2>4, ChildrenGrow
<1>3. ChildrenInv => ChildrenBounded
  <2> SUFFICES ASSUME ChildrenInv, NEW p \in Roots \union Subs
               PROVE  Cardinality({s \in Subs : row[s] # None /\ parent[s] = p})
                        <= MaxChildren
    BY DEF ChildrenBounded
  <2> DEFINE rows == {s \in Subs : row[s] # None /\ parent[s] = p}
  <2>1. rows \in SUBSET Children(p)
    BY DEF Children
  <2>2. IsFiniteSet(rows) /\ Cardinality(rows) <= Cardinality(Children(p))
    BY <2>1, ChildrenFinite, FS_Subset
  <2>3. Cardinality(rows) \in Nat /\ Cardinality(Children(p)) \in Nat
    BY <2>2, ChildrenFinite, FS_CardinalityType
  <2>4. Cardinality(Children(p)) <= MaxChildren /\ MaxChildren \in Nat
    BY SubagentConstants DEF ChildrenInv
  <2> HIDE DEF rows
  <2>5. Cardinality(rows) <= MaxChildren
    BY <2>2, <2>3, <2>4
  <2>6. QED
    BY <2>5 DEF rows
<1>4. QED
  BY <1>1, <1>2, <1>3, RowInvariant, PTL DEF Spec

-----------------------------------------------------------------------------
(* Where a subagent is once it is no longer being spawned. *)
PlaceOf(s) ==
  /\ spc[s] \in {"none", "counted", "inserted"} => tpc[s] = "none"
  /\ spc[s] = "over" => tpc[s] \in {"none", "gone"}
  /\ spc[s] = "done" => tpc[s] = "gone" \/ s \in tracked
  /\ s \in tracked => spc[s] \in {"done", "over"}

(* A stop is asked for after the spawn, so it finds the handle or a task that
   is gone, and no statement of that task is left. *)
StopOf(s) ==
  /\ PlaceOf(s)
  /\ s \in stopping \union stopped =>
       spc[s] \in {"done", "over"} /\ tpc[s] \in {"none", "gone"}
  /\ s \in stopping => row[s] # None
  /\ s \in stopped => row[s] \in Terminal

StopInv == \A s \in Subs : StopOf(s)

LEMMA StopStep ==
  ASSUME "early stop" \notin Faults, "stray" \notin Faults,
         TypeOK, RowInv, StopInv, [Next]_vars
  PROVE  StopInv'
<1>1. CASE Quiet
  BY <1>1 DEF Quiet, StopInv, StopOf, PlaceOf
<1>2. ASSUME NEW s \in Subs,
             (\E w \in Ways : Requested(s, w)) \/ Spawned(s) \/ Worked(s) \/ Stopped(s)
      PROVE  StopInv'
  <2>1. Others(s)
    BY <1>2 DEF Requested, Spawned, Worked, Wrote, Stopped, Aborted, Becomes
  <2>2. ASSUME NEW u \in Subs, u # s PROVE StopOf(u)'
    BY <2>1, <2>2 DEF Others, StopInv, StopOf, PlaceOf
  <2>3. RowOf(s) /\ StopOf(s)
    BY DEF RowInv, StopInv
  <2>4. row[s] \in {None, "pending", "running", "completed", "failed", "cancelled"}
    BY DEF TypeOK, Statuses, Terminal
  <2>5. StopOf(s)'
    <3>1. CASE \E w \in Ways : Requested(s, w)
      BY <2>3, <3>1 DEF Requested, Becomes, KeepsHandle, KeepsStops, StopOf, PlaceOf
    <3>2. CASE Spawned(s)
      BY <2>3, <3>2 DEF Spawned, Becomes, KeepsHandle, KeepsStops, StopOf, PlaceOf
    <3>3. CASE Worked(s)
      BY <2>3, <3>3 DEF Worked, Wrote, Becomes, KeepsHandle, KeepsStops, StopOf, PlaceOf
    <3>4. CASE Stopped(s)
      BY <2>3, <2>4, <3>4 DEF Stopped, Aborted, Becomes, KeepsHandle, KeepsStops, StopOf, PlaceOf,
        RowOf, Terminal
    <3>5. QED
      BY <1>2, <3>1, <3>2, <3>3, <3>4
  <2>6. QED
    BY <2>2, <2>5 DEF StopInv
<1>3. CASE Restart
  BY <1>3, RestartEffects DEF StopInv, StopOf, PlaceOf
<1>4. QED
  BY <1>1, <1>2, <1>3, StepEffects

(* StoppedStaysStopped unless a stop comes between the start of the task and
   the entry of its handle, or a statement outlives its task: what was stopped
   does no more work and its row stays closed, even if the database fails or
   the process restarts. *)
THEOREM StopsAreFinal ==
  ASSUME "early stop" \notin Faults, "stray" \notin Faults
  PROVE  Spec => []StoppedStaysStopped
<1>1. Init => StopInv
  BY DEF Init, StopInv, StopOf, PlaceOf
<1>2. TypeOK /\ RowInv /\ StopInv /\ [Next]_vars => StopInv'
  BY StopStep
<1>3. TypeOK /\ StopInv => StoppedStaysStopped
  BY DEF TypeOK, StopInv, StopOf, StoppedStaysStopped
<1>4. QED
  BY <1>1, <1>2, <1>3, RowInvariant, PTL DEF Spec

-----------------------------------------------------------------------------
(* A row that is not final yet will be closed by its task or by a stop. *)
ActiveOf(s) ==
  row[s] \in {"pending", "running"} =>
    \/ spc[s] = "inserted"
    \/ tpc[s] \in {"waiting", "starting", "working", "ending"}
    \/ s \in stopping

ActiveInv == \A s \in Subs : ActiveOf(s)

LEMMA ActiveStep ==
  ASSUME Faults \subseteq {"timeout", "early stop"}, Ways \subseteq {"user"},
         TypeOK, RowInv, ActiveInv, [Next]_vars
  PROVE  ActiveInv'
<1>1. "db" \notin Faults /\ "restart" \notin Faults /\ "stray" \notin Faults
  OBVIOUS
<1>2. CASE Quiet
  BY <1>2 DEF Quiet, ActiveInv, ActiveOf
<1>3. ASSUME NEW s \in Subs,
             (\E w \in Ways : Requested(s, w)) \/ Spawned(s) \/ Worked(s) \/ Stopped(s)
      PROVE  ActiveInv'
  <2>1. Others(s)
    BY <1>3 DEF Requested, Spawned, Worked, Wrote, Stopped, Aborted, Becomes
  <2>2. ASSUME NEW u \in Subs, u # s PROVE ActiveOf(u)'
    BY <2>1, <2>2 DEF Others, ActiveInv, ActiveOf
  <2>3. RowOf(s) /\ ActiveOf(s) /\ (spc[s] = "counted" => way[s] # "tool")
    BY DEF RowInv, ActiveInv, RowOf
  <2>4. ActiveOf(s)'
    <3>1. CASE \E w \in Ways : Requested(s, w)
      BY <2>3, <3>1, NoneIsNoStatus DEF Requested, Becomes, RowOf, ActiveOf
    <3>2. CASE Spawned(s)
      BY <1>1, <2>3, <3>2 DEF Spawned, Becomes, KeepsStops, ActiveOf
    <3>3. CASE Worked(s)
      BY <1>1, <2>3, <3>3 DEF Worked, Wrote, Becomes, KeepsStops, RowOf, ActiveOf
    <3>4. CASE Stopped(s)
      BY <1>1, <2>3, <3>4 DEF Stopped, Aborted, Becomes, KeepsStops, RowOf, ActiveOf
    <3>5. QED
      BY <1>3, <3>1, <3>2, <3>3, <3>4
  <2>5. QED
    BY <2>2, <2>4 DEF ActiveInv
<1>4. CASE Restart
  BY <1>1, <1>4 DEF Restart
<1>5. QED
  BY <1>2, <1>3, <1>4, StepEffects

(* ActiveRowsHaveTasks for users' requests while the database answers and the
   process lives: a row shown as active is never left behind by a subagent that
   ended, failed, timed out or was stopped, at whatever moment. *)
THEOREM ActiveRowsAreAlive ==
  ASSUME Faults \subseteq {"timeout", "early stop"}, Ways \subseteq {"user"}
  PROVE  Spec => []ActiveRowsHaveTasks
<1>1. Init => ActiveInv
  <2>1. Init => \A s \in Subs : row[s] = None
    BY DEF Init
  <2>2. QED
    BY <2>1, NoneIsNoStatus DEF ActiveInv, ActiveOf
<1>2. TypeOK /\ RowInv /\ ActiveInv /\ [Next]_vars => ActiveInv'
  BY ActiveStep
<1>3. ActiveInv => ActiveRowsHaveTasks
  BY DEF ActiveInv, ActiveOf, ActiveRowsHaveTasks
<1>4. QED
  BY <1>1, <1>2, <1>3, RowInvariant, PTL DEF Spec

-----------------------------------------------------------------------------
(* The commands in the background. *)

JobsSpec == JobsInit /\ [][JobsNext]_jobVars

-----------------------------------------------------------------------------
(* The inductive invariant. *)

JobRecord ==
  [status : {"none", "running", "completed", "failed", "refused", "not found"},
   code : {"none", "zero", "other"}]

JobsTypeOK ==
  /\ job \in [Commands -> JobRecord]
  /\ answer \in [Commands -> JobRecord]
  /\ task \in [Commands -> {"none", "spawned", "awaiting"}]
  /\ process \in [Commands -> {"none", "running", "ok", "early", "last", "signal"}]
  /\ tool \in [Commands -> [name : {"none", "shell", "bash"}, mode : {"none", "run", "start"}]]
  /\ stops \in Nat

(* What a record says of a command is so. *)
SaysTrue(c, r) ==
  /\ r.status = "completed" =>
       Ended(c) /\ process[c] # "signal" /\ (process[c] = "ok" \/ tool[c].name = "shell")
  /\ r.status = "failed" =>
       \/ process[c] = "none"
       \/ Ended(c) /\ process[c] # "ok" /\ ~(process[c] = "early" /\ tool[c].name = "shell")
  /\ r.code # "none" => process[c] \notin {"running", "signal"}
  /\ r.status = "refused" => process[c] = "none"

(* Only an end has an exit code. *)
EndsHaveCodes(r) == r.status \notin {"completed", "failed"} => r.code = "none"

(* A command that nothing was done about. *)
Unused(c) ==
  tool[c].name = "none" =>
    /\ tool[c].mode = "none" /\ task[c] = "none" /\ process[c] = "none"
    /\ job[c].status = "none" /\ answer[c].status = "none"

(* The task goes before the process and ends after it; while it is there the
   entry says "running", and of a command that was awaited nothing was said. *)
TaskAndProcess(c) ==
  /\ task[c] = "spawned" => process[c] = "none"
  /\ task[c] = "awaiting" => process[c] # "none"
  /\ task[c] # "none" => tool[c].mode \in {"run", "start"}
  /\ task[c] # "none" /\ tool[c].mode = "start" =>
       job[c].status = "running" /\ answer[c].status \in {"none", "running"}
  /\ task[c] # "none" /\ tool[c].mode = "run" => answer[c].status = "none"

(* An entry is made by mode start and stays until the service ends. *)
Entry(c) ==
  /\ tool[c].mode # "start" => job[c].status = "none"
  /\ job[c].status \in {"none", "running", "completed", "failed"}
  /\ tool[c].mode = "start" /\ job[c].status = "none" =>
       stops > 0 \/ answer[c].status = "refused"
  /\ EndsHaveCodes(job[c]) /\ EndsHaveCodes(answer[c])

(* The last answer repeats the entry, or the entry is gone. *)
LastAnswer(c) ==
  /\ answer[c].status \in {"completed", "failed"} /\ tool[c].mode = "start" =>
       \/ job[c].status = "none"
       \/ job[c].status = answer[c].status /\ job[c].code = answer[c].code
  /\ answer[c].status = "not found" => stops > 0
  /\ answer[c].status = "refused" =>
       job[c].status = "none" /\ task[c] = "none" /\ process[c] = "none"

Tells(c) ==
  /\ SaysTrue(c, answer[c]) /\ SaysTrue(c, job[c])
  /\ Unused(c) /\ TaskAndProcess(c) /\ Entry(c) /\ LastAnswer(c)

JobsAreTold == JobsTypeOK /\ \A c \in Commands : Tells(c)

-----------------------------------------------------------------------------

LEMMA Records ==
  ASSUME NEW r \in JobRecord, NEW q \in JobRecord
  PROVE  /\ (r = q) = (r.status = q.status /\ r.code = q.code)
         /\ NoJob \in JobRecord /\ NoJob.status = "none" /\ NoJob.code = "none"
         /\ RunningJob \in JobRecord /\ RunningJob.status = "running"
         /\ RunningJob.code = "none"
<1>1. r = [status |-> r.status, code |-> r.code] /\ q = [status |-> q.status, code |-> q.code]
  BY DEF JobRecord
<1>2. (r = q) = (r.status = q.status /\ r.code = q.code)
  BY <1>1
<1>3. QED
  BY <1>2 DEF JobRecord, NoJob, RunningJob

(* A step about one command leaves what is known of the others. *)
Only(c) ==
  /\ stops' = stops
  /\ \A d \in Commands \ {c} :
       /\ job'[d] = job[d] /\ task'[d] = task[d] /\ process'[d] = process[d]
       /\ tool'[d] = tool[d] /\ answer'[d] = answer[d]

(* A step that changes nothing of a command leaves what is known of it. *)
LEMMA SameIsTold ==
  ASSUME NEW c, Tells(c), stops' = stops,
         job'[c] = job[c], task'[c] = task[c], process'[c] = process[c],
         tool'[c] = tool[c], answer'[c] = answer[c]
  PROVE  Tells(c)'
<1>1. SaysTrue(c, answer[c])'
  BY DEF Tells, SaysTrue, Ended
<1>2. SaysTrue(c, job[c])'
  BY DEF Tells, SaysTrue, Ended
<1>3. Unused(c)' /\ TaskAndProcess(c)'
  BY DEF Tells, Unused, TaskAndProcess
<1>4. Entry(c)'
  BY DEF Tells, Entry, EndsHaveCodes
<1>5. LastAnswer(c)'
  BY DEF Tells, LastAnswer
<1>6. QED
  BY <1>1, <1>2, <1>3, <1>4, <1>5 DEF Tells

LEMMA OthersAreTold ==
  ASSUME NEW c, NEW d \in Commands \ {c}, Only(c), Tells(d)
  PROVE  Tells(d)'
<1>1. /\ job'[d] = job[d] /\ task'[d] = task[d] /\ process'[d] = process[d]
      /\ tool'[d] = tool[d] /\ answer'[d] = answer[d] /\ stops' = stops
  BY DEF Only
<1>2. QED
  BY <1>1, SameIsTold

LEMMA JobsStep == JobsAreTold /\ [JobsNext]_jobVars => JobsAreTold'
<1> SUFFICES ASSUME JobsAreTold, [JobsNext]_jobVars PROVE JobsAreTold'
  OBVIOUS
<1> USE DEF JobsAreTold
<1>1. ASSUME NEW c \in Commands, Only(c), JobsTypeOK', Tells(c)' PROVE JobsAreTold'
  <2>1. \A d \in Commands \ {c} : Tells(d)'
    BY <1>1, OthersAreTold
  <2>2. QED
    BY <1>1, <2>1
<1>2. NoJob \in JobRecord /\ RunningJob \in JobRecord
  BY DEF NoJob, RunningJob, JobRecord
<1>3. ASSUME NEW c \in Commands, NEW name \in {"shell", "bash"}, NEW mode \in {"run", "start"},
             NotAllowed(c, name, mode)
      PROVE  JobsAreTold'
  <2>1. JobsTypeOK'
    BY <1>3 DEF NotAllowed, Answers, JobsTypeOK, JobRecord
  <2>2. Only(c)
    BY <1>3 DEF NotAllowed, Answers, Only, JobsTypeOK
  <2>3. Tells(c)
    OBVIOUS
  <2>4. /\ tool[c].name = "none" /\ tool'[c].name = name /\ tool'[c].mode = mode
        /\ answer'[c].status = "refused" /\ answer'[c].code = "none" /\ stops' = stops
        /\ job'[c] = job[c] /\ task'[c] = task[c] /\ process'[c] = process[c]
    BY <1>3 DEF NotAllowed, Answers, JobsTypeOK
  <2>5. /\ job[c].status = "none" /\ job[c].code = "none" /\ task[c] = "none"
        /\ process[c] = "none"
    BY <2>3, <2>4 DEF Tells, Unused, Entry, EndsHaveCodes
  <2>6. SaysTrue(c, answer[c])' /\ SaysTrue(c, job[c])'
    BY <2>4, <2>5 DEF SaysTrue
  <2>7. Unused(c)' /\ TaskAndProcess(c)'
    BY <2>4, <2>5 DEF Unused, TaskAndProcess
  <2>8. Entry(c)' /\ LastAnswer(c)'
    BY <2>4, <2>5 DEF Entry, LastAnswer, EndsHaveCodes
  <2>9. Tells(c)'
    BY <2>6, <2>7, <2>8 DEF Tells
  <2>10. QED
    BY <1>1, <2>1, <2>2, <2>9
<1>4. ASSUME NEW c \in Commands, NEW name \in {"shell", "bash"}, StartInBackground(c, name)
      PROVE  JobsAreTold'
  <2>1. JobsTypeOK'
    BY <1>2, <1>4 DEF StartInBackground, JobsTypeOK
  <2>2. Only(c)
    BY <1>4 DEF StartInBackground, Only, JobsTypeOK
  <2>3. /\ Tells(c) /\ tool[c].name = "none"
        /\ tool'[c].name = name /\ tool'[c].mode = "start"
        /\ job'[c].status = "running" /\ job'[c].code = "none" /\ stops' = stops
        /\ task'[c] = "spawned" /\ process'[c] = process[c] /\ answer'[c] = answer[c]
    BY <1>4, <1>2, Records DEF StartInBackground, JobsTypeOK
  <2>4. Tells(c)'
    <3>1. SaysTrue(c, answer[c])' /\ SaysTrue(c, job[c])'
      BY <1>4, <2>3 DEF Tells, SaysTrue, Unused, TaskAndProcess, Entry, LastAnswer,
        Ended, EndsHaveCodes
    <3>2. Unused(c)' /\ TaskAndProcess(c)'
      BY <1>4, <2>3 DEF Tells, Unused, TaskAndProcess, Entry, LastAnswer,
        Ended, EndsHaveCodes
    <3>3. Entry(c)' /\ LastAnswer(c)'
      BY <1>4, <2>3 DEF Tells, Unused, TaskAndProcess, Entry, LastAnswer,
        Ended, EndsHaveCodes
    <3>4. QED
      BY <3>1, <3>2, <3>3 DEF Tells
  <2>5. QED
    BY <1>1, <2>1, <2>2, <2>4
<1>5. ASSUME NEW c \in Commands, NEW name \in {"shell", "bash"}, RunCommand(c, name)
      PROVE  JobsAreTold'
  <2>1. JobsTypeOK'
    BY <1>5 DEF RunCommand, JobsTypeOK
  <2>2. Only(c)
    BY <1>5 DEF RunCommand, Only, JobsTypeOK
  <2>3. /\ Tells(c) /\ tool[c].name = "none"
        /\ tool'[c].name = name /\ tool'[c].mode = "run" /\ job'[c] = job[c] /\ stops' = stops
        /\ task'[c] = "spawned" /\ process'[c] = process[c] /\ answer'[c] = answer[c]
    BY <1>5 DEF RunCommand, JobsTypeOK
  <2>4. Tells(c)'
    <3>1. SaysTrue(c, answer[c])' /\ SaysTrue(c, job[c])'
      BY <1>5, <2>3 DEF Tells, SaysTrue, Unused, TaskAndProcess, Entry, LastAnswer,
        Ended, EndsHaveCodes
    <3>2. Unused(c)' /\ TaskAndProcess(c)'
      BY <1>5, <2>3 DEF Tells, Unused, TaskAndProcess, Entry, LastAnswer,
        Ended, EndsHaveCodes
    <3>3. Entry(c)' /\ LastAnswer(c)'
      BY <1>5, <2>3 DEF Tells, Unused, TaskAndProcess, Entry, LastAnswer,
        Ended, EndsHaveCodes
    <3>4. QED
      BY <3>1, <3>2, <3>3 DEF Tells
  <2>5. QED
    BY <1>1, <2>1, <2>2, <2>4
<1>6. ASSUME NEW c \in Commands, AskStatus(c) PROVE JobsAreTold'
  <2>1. PICK r \in JobRecord :
          /\ answer' = [answer EXCEPT ![c] = r]
          /\ r = IF job[c] = NoJob THEN [status |-> "not found", code |-> "none"] ELSE job[c]
    BY <1>6 DEF AskStatus, Answers, JobsTypeOK, JobRecord
  <2>2. JobsTypeOK'
    BY <1>6, <2>1 DEF AskStatus, JobsTypeOK
  <2>3. Only(c)
    BY <1>6, <2>1 DEF AskStatus, Only, JobsTypeOK
  <2>4. /\ Tells(c) /\ answer'[c] = r /\ job'[c] = job[c] /\ task'[c] = task[c]
        /\ process'[c] = process[c] /\ tool'[c] = tool[c] /\ stops' = stops /\ stops \in Nat
        /\ tool[c].mode = "start" /\ answer[c].status # "refused"
    BY <1>6, <2>1 DEF AskStatus, JobsTypeOK
  <2> DEFINE e == job[c]
  <2>5. /\ Tells(c) /\ e \in JobRecord
        /\ (e.status # "none" \/ e.code # "none") => r = e
        /\ e.status = "none" /\ e.code = "none" => r.status = "not found" /\ r.code = "none"
    <3>1. Tells(c) /\ e \in JobRecord
      BY <2>4 DEF JobsTypeOK
    <3>2. (e = NoJob) = (e.status = "none" /\ e.code = "none")
      BY <3>1, Records
    <3>3. CASE e = NoJob
      BY <2>1, <3>1, <3>2, <3>3
    <3>4. CASE e # NoJob
      BY <2>1, <3>1, <3>2, <3>4
    <3>5. QED
      BY <3>3, <3>4
  <2>6. /\ answer'[c].status = r.status /\ answer'[c].code = r.code
        /\ e.status # "none" => r.status = e.status /\ r.code = e.code
        /\ e.status = "none" => r.status = "not found" /\ r.code = "none"
    <3>1. e.status = "none" => e.code = "none"
      BY <2>5 DEF Tells, Entry, EndsHaveCodes
    <3>2. answer'[c].status = r.status /\ answer'[c].code = r.code
      BY <2>4
    <3> HIDE DEF e
    <3>3. QED
      BY <2>5, <3>1, <3>2
  <2>7. Tells(c)'
    <3>0. SaysTrue(c, job[c]) /\ SaysTrue(c, job[c])'
      BY <2>4 DEF Tells, SaysTrue, Ended
    <3>1. SaysTrue(c, answer[c])' /\ SaysTrue(c, job[c])'
      <4>1. CASE e.status = "none"
        BY <2>6, <3>0, <4>1 DEF SaysTrue
      <4>2. CASE e.status # "none"
        BY <2>4, <2>6, <3>0, <4>2 DEF SaysTrue, Ended
      <4>3. QED
        BY <4>1, <4>2
    <3>2. Unused(c)' /\ TaskAndProcess(c)'
      BY <2>4, <2>6 DEF Tells, Unused, TaskAndProcess
    <3>3. Entry(c)' /\ LastAnswer(c)'
      BY <2>4, <2>6 DEF Tells, Unused, TaskAndProcess, Entry, LastAnswer,
        Ended, EndsHaveCodes
    <3>4. QED
      BY <3>1, <3>2, <3>3 DEF Tells
  <2>8. QED
    BY <1>1, <2>2, <2>3, <2>7
<1>7. ASSUME NEW c \in Commands, CallDropped(c) PROVE JobsAreTold'
  <2>1. JobsTypeOK'
    BY <1>7 DEF CallDropped, JobsTypeOK
  <2>2. Only(c)
    BY <1>7 DEF CallDropped, Only, JobsTypeOK
  <2>3. Tells(c)
    OBVIOUS
  <2>4. /\ tool[c].mode = "run" /\ task'[c] = "none" /\ stops' = stops
        /\ job'[c] = job[c] /\ process'[c] = process[c]
        /\ tool'[c] = tool[c] /\ answer'[c] = answer[c]
    BY <1>7 DEF CallDropped, JobsTypeOK
  <2>5. SaysTrue(c, answer[c])'
    BY <2>3, <2>4 DEF Tells, SaysTrue, Ended
  <2>6. SaysTrue(c, job[c])'
    BY <2>3, <2>4 DEF Tells, SaysTrue, Ended
  <2>7. Unused(c)' /\ TaskAndProcess(c)'
    BY <2>3, <2>4 DEF Tells, Unused, TaskAndProcess
  <2>8. Entry(c)' /\ LastAnswer(c)'
    BY <2>3, <2>4 DEF Tells, Entry, LastAnswer, EndsHaveCodes
  <2>9. Tells(c)'
    BY <2>5, <2>6, <2>7, <2>8 DEF Tells
  <2>10. QED
    BY <1>1, <2>1, <2>2, <2>9
(* The end of a task: what it reports is true of the process. *)
<1>8. ASSUME NEW c \in Commands, NEW r \in JobRecord, task[c] # "none", Report(c, r),
             process' = process, r.status \in {"completed", "failed"}, SaysTrue(c, r)
      PROVE  JobsAreTold'
  <2>1. JobsTypeOK'
    BY <1>8, <1>2 DEF Report, Answers, JobsTypeOK
  <2>2. Only(c)
    BY <1>8 DEF Report, Answers, Only, JobsTypeOK
  <2>3. Tells(c) /\ task'[c] = "none" /\ tool' = tool /\ stops' = stops
    BY <1>8 DEF Report, JobsTypeOK
  <2>4. CASE tool[c].mode = "start"
    <3>1. job'[c] = r /\ answer' = answer
      BY <1>8, <2>3, <2>4 DEF Report, JobsTypeOK, Tells, TaskAndProcess, RunningJob, NoJob
    <3>2. Tells(c)'
      <4>1. SaysTrue(c, answer[c])' /\ SaysTrue(c, job[c])'
        BY <1>8, <2>3, <2>4, <3>1 DEF Tells, SaysTrue, Unused, TaskAndProcess, Entry, LastAnswer,
          Ended, EndsHaveCodes
      <4>2. Unused(c)' /\ TaskAndProcess(c)'
        BY <1>8, <2>3, <2>4, <3>1 DEF Tells, Unused, TaskAndProcess, Entry, LastAnswer,
          Ended, EndsHaveCodes
      <4>3. Entry(c)' /\ LastAnswer(c)'
        BY <1>8, <2>3, <2>4, <3>1 DEF Tells, Unused, TaskAndProcess, Entry, LastAnswer,
          Ended, EndsHaveCodes
      <4>4. QED
        BY <4>1, <4>2, <4>3 DEF Tells
    <3>3. QED
      BY <1>1, <2>1, <2>2, <3>2
  <2>5. CASE tool[c].mode = "run"
    <3>1. job' = job /\ answer'[c] = r
      BY <1>8, <2>5 DEF Report, Answers, JobsTypeOK
    <3>2. Tells(c)'
      BY <1>8, <2>3, <2>5, <3>1 DEF JobsTypeOK, Tells, SaysTrue, Unused, TaskAndProcess,
        Entry, LastAnswer, Ended, EndsHaveCodes
    <3>3. QED
      BY <1>1, <2>1, <2>2, <3>2
  <2>6. QED
    BY <1>8, <2>3, <2>4, <2>5 DEF Tells, TaskAndProcess
<1>9. ASSUME NEW c \in Commands, Spawn(c) PROVE JobsAreTold'
  <2>1. CASE Report(c, [status |-> "failed", code |-> "other"]) /\ UNCHANGED process
    <3> DEFINE r == [status |-> "failed", code |-> "other"]
    <3>1. r \in JobRecord /\ r.status = "failed" /\ task[c] = "spawned"
      BY <1>9 DEF Spawn, JobRecord
    <3>2. process[c] = "none"
      BY <3>1 DEF Tells, TaskAndProcess
    <3>3. SaysTrue(c, r)
      BY <3>2 DEF SaysTrue
    <3> HIDE DEF r
    <3>4. Report(c, r)
      BY <2>1 DEF r
    <3>5. QED
      BY <1>8, <2>1, <3>1, <3>3, <3>4
  <2>2. CASE /\ task' = [task EXCEPT ![c] = "awaiting"]
             /\ process' = [process EXCEPT ![c] = "running"]
             /\ UNCHANGED <<job, tool, answer, stops>>
    <3>1. JobsTypeOK'
      BY <2>2 DEF JobsTypeOK
    <3>2. Only(c)
      BY <2>2 DEF Only, JobsTypeOK
    <3>3. /\ Tells(c) /\ task[c] = "spawned" /\ task'[c] = "awaiting" /\ process'[c] = "running"
          /\ job'[c] = job[c] /\ answer'[c] = answer[c] /\ tool'[c] = tool[c] /\ stops' = stops
      BY <1>9, <2>2 DEF Spawn, JobsTypeOK
    <3>4. /\ answer[c].status \in {"none", "running"} /\ job[c].status \in {"none", "running"}
          /\ answer[c].code = "none" /\ job[c].code = "none"
      BY <3>3 DEF Tells, TaskAndProcess, Entry, EndsHaveCodes
    <3>5. Tells(c)'
      <4>1. SaysTrue(c, answer[c])' /\ SaysTrue(c, job[c])'
        BY <3>3, <3>4 DEF SaysTrue
      <4>2. Unused(c)' /\ TaskAndProcess(c)'
        BY <3>3 DEF Tells, Unused, TaskAndProcess, Entry, LastAnswer,
          Ended, EndsHaveCodes
      <4>3. Entry(c)' /\ LastAnswer(c)'
        BY <3>3 DEF Tells, Unused, TaskAndProcess, Entry, LastAnswer,
          Ended, EndsHaveCodes
      <4>4. QED
        BY <4>1, <4>2, <4>3 DEF Tells
    <3>6. QED
      BY <1>1, <3>1, <3>2, <3>5
  <2>3. QED
    BY <1>9, <2>1, <2>2 DEF Spawn
<1>10. ASSUME NEW c \in Commands, Collect(c) PROVE JobsAreTold'
  <2>1. task[c] = "awaiting" /\ process[c] # "running" /\ process' = process
        /\ Report(c, ResultOf(c))
    BY <1>10 DEF Collect
  <2>2. process[c] \in {"ok", "early", "last", "signal"} /\ tool[c].name \in {"shell", "bash"}
    BY <2>1 DEF JobsTypeOK, Tells, TaskAndProcess, Unused
  <2>3. PICK r : r = ResultOf(c)
    OBVIOUS
  <2>4. r \in JobRecord /\ r.status \in {"completed", "failed"} /\ SaysTrue(c, r)
    BY <2>2, <2>3 DEF ResultOf, Succeeded, JobRecord, SaysTrue, Ended
  <2>5. QED
    BY <1>8, <2>1, <2>3, <2>4
<1>11. ASSUME NEW c \in Commands, ProcessEnds(c) PROVE JobsAreTold'
  <2>1. PICK end \in {"ok", "early", "last", "signal"} : process' = [process EXCEPT ![c] = end]
    BY <1>11 DEF ProcessEnds
  <2>2. JobsTypeOK'
    BY <1>11, <2>1 DEF ProcessEnds, JobsTypeOK
  <2>3. Only(c)
    BY <1>11, <2>1 DEF ProcessEnds, Only, JobsTypeOK
  <2>4. Tells(c) /\ process[c] = "running" /\ process'[c] = end
    BY <1>11, <2>1 DEF ProcessEnds, JobsTypeOK
  <2>5. Tells(c)'
    BY <1>11, <2>4 DEF ProcessEnds, JobsTypeOK, Tells, SaysTrue, Unused, TaskAndProcess,
      Entry, LastAnswer, Ended, EndsHaveCodes
  <2>6. QED
    BY <1>1, <2>2, <2>3, <2>5
<1>12. CASE ServiceStops
  <2>1. JobsTypeOK' /\ stops' > 0
    BY <1>2, <1>12 DEF ServiceStops, JobsTypeOK
  <2>2. ASSUME NEW c \in Commands PROVE Tells(c)'
    <3>1. /\ Tells(c) /\ job'[c].status = "none" /\ job'[c].code = "none" /\ task'[c] = "none" /\ process'[c] = process[c]
          /\ tool'[c] = tool[c] /\ answer'[c] = answer[c]
      BY <1>12, <1>2, Records DEF ServiceStops
    <3>2. QED
      <4>1. SaysTrue(c, answer[c])' /\ SaysTrue(c, job[c])'
        BY <3>1 DEF Tells, SaysTrue, Ended
      <4>2. Unused(c)' /\ TaskAndProcess(c)'
        BY <2>1, <3>1 DEF Tells, Unused, TaskAndProcess, Entry, LastAnswer,
          Ended, EndsHaveCodes
      <4>3. Entry(c)' /\ LastAnswer(c)'
        BY <2>1, <3>1 DEF Tells, Unused, TaskAndProcess, Entry, LastAnswer,
          Ended, EndsHaveCodes
      <4>4. QED
        BY <4>1, <4>2, <4>3 DEF Tells
  <2>3. QED
    BY <2>1, <2>2
<1>13. CASE UNCHANGED jobVars
  <2>1. JobsTypeOK'
    BY <1>13 DEF jobVars, JobsTypeOK
  <2>2. ASSUME NEW c \in Commands PROVE Tells(c)'
    <3>1. Tells(c)
      OBVIOUS
    <3>2. QED
      BY <1>13, <3>1, SameIsTold DEF jobVars
  <2>3. QED
    BY <2>1, <2>2
<1>14. QED
  BY <1>3, <1>4, <1>5, <1>6, <1>7, <1>9, <1>10, <1>11, <1>12, <1>13 DEF JobsNext, JobStep

LEMMA JobsInitially == JobsInit => JobsAreTold
<1> SUFFICES ASSUME JobsInit PROVE JobsAreTold
  OBVIOUS
<1>1. JobsTypeOK
  BY DEF JobsInit, JobsTypeOK, JobRecord, NoJob
<1>2. ASSUME NEW c \in Commands PROVE Tells(c)
  <2>1. /\ job[c].status = "none" /\ job[c].code = "none"
        /\ answer[c].status = "none" /\ answer[c].code = "none"
        /\ task[c] = "none" /\ process[c] = "none" /\ tool[c].mode = "none"
    BY DEF JobsInit, NoJob
  <2>2. QED
    BY <2>1 DEF Tells, SaysTrue, Unused, TaskAndProcess, Entry, LastAnswer, Ended, EndsHaveCodes
<1>3. QED
  BY <1>1, <1>2 DEF JobsAreTold

(* Whatever is answered about a command, by the call that ran it or by mode
   status, is true of its process, a job that was started is known until the
   service ends, and its end is never taken back (shell.rs:149-171, 268-328,
   449-474). *)
THEOREM AnswersStayTrue == JobsSpec => []JobsInv
<1>1. JobsAreTold => JobsInv
  <2> SUFFICES ASSUME JobsAreTold PROVE JobsInv
    OBVIOUS
  <2>1. \A c \in Commands : SaysTrue(c, answer[c])
    BY DEF JobsAreTold, Tells
  <2>2. AnswersAreTrue
    BY <2>1 DEF AnswersAreTrue, SaysTrue
  <2>3. stops = 0 => \A c \in Commands : answer[c].status # "not found"
    <3>1. \A c \in Commands : LastAnswer(c) /\ stops \in Nat
      BY DEF JobsAreTold, JobsTypeOK, Tells
    <3>2. QED
      <4>1. SUFFICES ASSUME stops = 0, NEW c \in Commands PROVE answer[c].status # "not found"
        OBVIOUS
      <4>2. LastAnswer(c) /\ ~(stops > 0)
        BY <3>1, <4>1
      <4>3. QED
        BY <4>2 DEF LastAnswer
  <2>4. ASSUME NEW c \in Commands, answer[c].status \in {"completed", "failed"},
               tool[c].mode = "start"
        PROVE  job[c] \in {answer[c], NoJob} /\ (job[c] = NoJob => stops > 0)
    <3>1. job[c] \in JobRecord /\ answer[c] \in JobRecord /\ LastAnswer(c) /\ Entry(c)
      BY DEF JobsAreTold, JobsTypeOK, Tells
    <3>2. job[c].status = "none" => job[c].code = "none" /\ stops > 0
      BY <2>4, <3>1 DEF Entry, EndsHaveCodes
    <3>3. QED
      <4>1. \/ job[c].status = "none"
            \/ job[c].status = answer[c].status /\ job[c].code = answer[c].code
        BY <2>4, <3>1 DEF LastAnswer
      <4>2. job[c] \in {answer[c], NoJob}
        BY <3>1, <3>2, <4>1, Records
      <4>3. job[c] = NoJob => stops > 0
        BY <3>2 DEF NoJob
      <4>4. QED
        BY <4>2, <4>3
  <2>5. QED
    BY <2>2, <2>3, <2>4 DEF JobsInv, EndsAreFinal
<1>2. QED
  BY <1>1, JobsInitially, JobsStep, PTL DEF JobsSpec

=============================================================================
