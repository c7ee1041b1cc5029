----------------------------- MODULE Scheduler -----------------------------
(***************************************************************************)
(* The job scheduler (crates/unly-scheduler/src/scheduler.rs), the job     *)
(* rows (crates/unly-db/src/repo/job.rs) and the cron_job tool             *)
(* (crates/unly-tools/src/builtin/orchestration.rs).                       *)
(*                                                                         *)
(* The loop wakes every Period, holds the read lock of the job table for   *)
(* the whole tick, and starts a task for each job that is due.  The agent  *)
(* of such a task, like the agent of a user, may call cron_job, which      *)
(* writes the row and the table; a tool call ends at its time limit.       *)
(* Only the order of times matters, and that the margin is less than the   *)
(* period.                                                                 *)
(***************************************************************************)
EXTENDS Naturals, FiniteSets, FiniteSetsExt

CONSTANTS
  Jobs,            (* job ids                                              *)
  None,            (* no row, no entry, no job                             *)
  Users,           (* agents of chats that call cron_job                   *)
  Due,             (* job -> the times its cron expression names           *)
  Period,          (* 60 s                                                 *)
  Margin,          (* the 1 s by which the window is longer                *)
  Permits,         (* max_concurrent_jobs                                  *)
  MaxTime,         (* bound: the clock                                     *)
  MaxRuns,         (* bound: jobs that run at a time                       *)
  MaxOps,          (* bound: calls of cron_job                             *)
  MaxRestarts,     (* bound: restarts                                      *)
  Kinds,           (* the cron_job actions that are called                 *)
  Faults           (* "db", "timeout"                                      *)

Times == 0..MaxTime

Runs == 1..MaxRuns

(* Who may call cron_job: users' agents and the agents of running jobs. *)
Actors == Users \union Runs

ASSUME SchedulerConstants ==
  /\ Due \in [Jobs -> SUBSET Times]
  /\ Period \in Nat \ {0} /\ Margin \in Nat /\ Permits \in Nat \ {0}
  /\ MaxTime \in Nat /\ MaxRuns \in Nat /\ MaxOps \in Nat /\ MaxRestarts \in Nat
  /\ None \notin Jobs /\ None \notin Times /\ None \notin {"enabled", "disabled"}
  /\ Users \intersect Runs = {}
  /\ Kinds \subseteq {"create", "enable", "disable", "delete"}
  /\ Faults \subseteq {"db", "timeout"}

VARIABLES
  now,             (* the clock                                            *)
  started,         (* when the process started                             *)
  loop,            (* the scheduler's loop                                 *)
  table,           (* jobs: job -> "enabled", "disabled" or None           *)
  row,             (* the enabled column of the job's row, or None         *)
  last,            (* last_dispatched                                      *)
  run,             (* run -> its task                                      *)
  op,              (* actor -> its call of cron_job                        *)
  ops, restarts,   (* counters for the bounds                              *)
  ledger           (* history for the properties; no action reads it       *)

vars == <<now, started, loop, table, row, last, run, op, ops, restarts, ledger>>

NoOp == [pc |-> "none", kind |-> None, job |-> None]

(* new: the permit is of the semaphore of the present tick. *)
NoRun == [pc |-> "none", job |-> None, new |-> FALSE]

(* The interval's first tick is immediate and ignored; a tick that is late
   does not delay the next one. *)
NewLoop(time) ==
  [pc |-> "sleep", next |-> time + Period, at |-> time,
   todo |-> {}, job |-> None]

(* restore_jobs_from_db loads the enabled rows. *)
Restored == [j \in Jobs |-> IF row[j] = "enabled" THEN "enabled" ELSE None]

(* A process that starts over the rows of an earlier one. *)
Init ==
  /\ now = 0 /\ started = 0
  /\ loop = NewLoop(0)
  /\ row \in [Jobs -> {"enabled", "disabled", None}]
  /\ table = Restored
  /\ last = [j \in Jobs |-> None]
  /\ run = [r \in Runs |-> NoRun]
  /\ op = [a \in Actors |-> NoOp]
  /\ ops = 0 /\ restarts = 0
  /\ ledger = [fired |-> [j \in Jobs |-> {}], again |-> FALSE, early |-> FALSE,
               off |-> {}, mixed |-> {}]

Clock ==
  /\ now < MaxTime
  /\ now' = now + 1
  /\ UNCHANGED <<started, loop, table, row, last, run, op, ops, restarts, ledger>>

-----------------------------------------------------------------------------
(* The loop. *)

(* The tick takes the read lock, and a new semaphore. *)
Tick ==
  /\ loop.pc = "sleep" /\ now >= loop.next
  /\ Cardinality({r \in Runs : run[r] = NoRun}) >= Cardinality(Jobs)
  /\ loop' = [loop EXCEPT !.pc = "scan", !.next = @ + Period, !.at = now,
                          !.todo = {j \in Jobs : table[j] # None}]
  /\ run' = [r \in Runs |-> [run[r] EXCEPT !.new = FALSE]]
  /\ UNCHANGED <<now, started, table, row, last, op, ops, restarts, ledger>>

(* The times of the job in the window that ends with the tick. *)
InWindow(j) ==
  {t \in Due[j] : t <= loop.at /\ t + Period + Margin > loop.at}

(* Mutant: <= for <. *)
IsDue_Inclusive(j) ==
  /\ table[j] = "enabled" /\ InWindow(j) # {}
  /\ IF last[j] = None THEN TRUE ELSE last[j] <= Max(InWindow(j))

IsDue(j) ==
  /\ table[j] = "enabled" /\ InWindow(j) # {}
  /\ IF last[j] = None THEN TRUE ELSE last[j] < Max(InWindow(j))

(* A job is passed over when it is not due, or while a call of cron_job
   holds the lock of last_dispatched. *)
SkipJob(j) ==
  /\ loop.pc = "scan" /\ j \in loop.todo
  /\ ~IsDue(j) \/ \E a \in Actors : op[a].pc = "forget"
  /\ loop' = [loop EXCEPT !.todo = @ \ {j}]
  /\ UNCHANGED <<now, started, table, row, last, run, op, ops, restarts, ledger>>

(* The dispatch is recorded before there is a permit for it. *)
Dispatch(j) ==
  /\ loop.pc = "scan" /\ j \in loop.todo
  /\ IsDue(j)
  /\ last' = [last EXCEPT ![j] = loop.at]
  /\ loop' = [loop EXCEPT !.pc = "acquire", !.todo = @ \ {j}, !.job = j]
  /\ LET due == Max(InWindow(j)) IN
     ledger' = [ledger EXCEPT !.fired[j] = @ \union {due},
                              !.again = @ \/ due \in ledger.fired[j],
                              !.early = @ \/ due + Margin <= started]
  /\ UNCHANGED <<now, started, table, row, run, op, ops, restarts>>

Active == {r \in Runs : run[r] # NoRun}

StartRun(r) ==
  /\ loop.pc = "acquire"
  /\ Cardinality({q \in Runs : run[q].new}) < Permits
  /\ run[r] = NoRun /\ \A q \in Runs : q < r => run[q] # NoRun
  /\ run' = [run EXCEPT ![r] = [pc |-> "working", job |-> loop.job, new |-> TRUE]]
  /\ loop' = [loop EXCEPT !.pc = "scan", !.job = None]
  /\ UNCHANGED <<now, started, table, row, last, op, ops, restarts, ledger>>

(* The lock is released at the end of the tick. *)
EndTick ==
  /\ loop.pc = "scan" /\ loop.todo = {}
  /\ loop' = [loop EXCEPT !.pc = "sleep"]
  /\ UNCHANGED <<now, started, table, row, last, run, op, ops, restarts, ledger>>

(* The callback returns; the run is recorded whatever it returned. *)
CallbackEnds(r) ==
  /\ run[r].pc = "working" /\ op[r] = NoOp
  /\ run' = [run EXCEPT ![r].pc = "saving"]
  /\ UNCHANGED <<now, started, loop, table, row, last, op, ops, restarts, ledger>>

(* Database errors are ignored.  The permit is dropped with the task. *)
EndRun(r) ==
  /\ run[r].pc = "saving"
  /\ run' = [run EXCEPT ![r] = NoRun]
  /\ UNCHANGED <<now, started, loop, table, row, last, op, ops, restarts, ledger>>

-----------------------------------------------------------------------------
(* The cron_job tool. *)

May(a) == op[a] = NoOp /\ (IF a \in Runs THEN run[a].pc = "working" ELSE TRUE)

(* create writes the table first, the other actions the row. *)
CallTool(a, kind, j) ==
  /\ May(a) /\ ops < MaxOps
  /\ ops' = ops + 1
  /\ op' = [op EXCEPT ![a] = [pc |-> IF kind = "create" THEN "lock" ELSE "row",
                              kind |-> kind, job |-> j]]
  /\ ledger' = [ledger EXCEPT
       !.off = @ \ {j},
       !.mixed = IF \E b \in Actors : op[b].job = j THEN @ \union {j} ELSE @ \ {j}]
  /\ UNCHANGED <<now, started, loop, table, row, last, run, restarts>>

(* What an action leaves in the row or the table for the job. *)
Stored(kind, old) ==
  CASE kind = "create" -> "enabled"
    [] kind = "delete" -> None
    [] old = None -> None
    [] kind = "enable" -> "enabled"
    [] kind = "disable" -> "disabled"

WriteRow(a) ==
  LET j == op[a].job IN
  /\ op[a].pc = "row"
  /\ row' = [row EXCEPT ![j] = Stored(op[a].kind, @)]
  /\ op' = [op EXCEPT ![a].pc = "lock"]
  /\ UNCHANGED <<now, started, loop, table, last, run, ops, restarts, ledger>>

RowFails(a) ==
  /\ "db" \in Faults
  /\ op[a].pc = "row"
  /\ op' = [op EXCEPT ![a] = NoOp]
  /\ UNCHANGED <<now, started, loop, table, row, last, run, ops, restarts, ledger>>

(* ledger.off learns of a disable or delete that returns and that no other
   call on the job overlapped. *)
TurnedOff(a) ==
  {op[a].job} \ (IF op[a].kind \in {"disable", "delete"} THEN ledger.mixed ELSE Jobs)

Return(a) ==
  /\ op' = [op EXCEPT ![a] = NoOp]
  /\ ledger' = [ledger EXCEPT !.off = @ \union TurnedOff(a)]

(* Mutant: delete removes the row only. *)
WriteTable_KeepsDeleted(a) ==
  LET j == op[a].job IN
  /\ op[a].pc = "lock" /\ loop.pc = "sleep"
  /\ op[a].kind = "delete"
  /\ Return(a)
  /\ UNCHANGED <<now, started, loop, table, row, last, run, ops, restarts>>

(* The write lock waits for the end of a tick. *)
WriteTable(a) ==
  LET j == op[a].job IN
  /\ op[a].pc = "lock" /\ loop.pc = "sleep"
  /\ table' = [table EXCEPT ![j] = Stored(op[a].kind, @)]
  /\ \/ /\ op[a].kind = "create"
        /\ op' = [op EXCEPT ![a].pc = "persist"] /\ UNCHANGED ledger
     \/ /\ op[a].kind = "disable" \/ (op[a].kind = "delete" /\ table[j] # None)
        /\ op' = [op EXCEPT ![a].pc = "forget"] /\ UNCHANGED ledger
     \/ /\ op[a].kind = "enable" \/ (op[a].kind = "delete" /\ table[j] = None)
        /\ Return(a)
  /\ UNCHANGED <<now, started, loop, row, last, run, ops, restarts>>

(* A disabled or deleted job loses its entry in last_dispatched. *)
Forget(a) ==
  LET j == op[a].job IN
  /\ op[a].pc = "forget"
  /\ last' = [last EXCEPT ![j] = None]
  /\ op' = [op EXCEPT ![a] = NoOp]
  /\ ledger' = [ledger EXCEPT
       !.fired[j] = {}, !.off = @ \union TurnedOff(a)]
  /\ UNCHANGED <<now, started, loop, table, row, run, ops, restarts>>

(* create ends with the upsert, whose error is ignored. *)
Persist(a) ==
  LET j == op[a].job IN
  /\ op[a].pc = "persist"
  /\ \/ row' = [row EXCEPT ![j] = "enabled"]
     \/ "db" \in Faults /\ UNCHANGED row
  /\ op' = [op EXCEPT ![a] = NoOp]
  /\ UNCHANGED <<now, started, loop, table, last, run, ops, restarts, ledger>>

(* Mutant: a call that waits for the lock has no time limit. *)
CallTimesOut_NotLocked(a) ==
  /\ "timeout" \in Faults
  /\ op[a].pc \in {"row", "persist"}
  /\ op' = [op EXCEPT ![a] = NoOp]
  /\ UNCHANGED <<now, started, loop, table, row, last, run, ops, restarts, ledger>>

(* The time limit of the tool ends the call; a statement it has sent may be
   carried out. *)
CallTimesOut(a) ==
  LET j == op[a].job IN
  /\ "timeout" \in Faults
  /\ op[a].pc # "none"
  /\ op' = [op EXCEPT ![a] = NoOp]
  /\ \/ UNCHANGED row
     \/ /\ op[a].pc \in {"row", "persist"}
        /\ row' = [row EXCEPT ![j] = Stored(op[a].kind, @)]
  /\ UNCHANGED <<now, started, loop, table, last, run, ops, restarts, ledger>>

-----------------------------------------------------------------------------
(* No job is restored when the query fails; then the loop starts. *)
Restart ==
  /\ restarts < MaxRestarts
  /\ restarts' = restarts + 1
  /\ \/ table' = Restored
     \/ "db" \in Faults /\ table' = [j \in Jobs |-> None]
  /\ last' = [j \in Jobs |-> None]
  /\ loop' = NewLoop(now)
  /\ started' = now
  /\ run' = [r \in Runs |-> NoRun]
  /\ op' = [a \in Actors |-> NoOp]
  /\ ledger' = [ledger EXCEPT !.fired = [j \in Jobs |-> {}]]
  /\ UNCHANGED <<now, row, ops>>

Loop ==
  \/ Tick
  \/ \E j \in Jobs : SkipJob(j)
  \/ \E j \in Jobs : Dispatch(j)
  \/ \E r \in Runs : StartRun(r)
  \/ EndTick

Work(r) == CallbackEnds(r) \/ EndRun(r)

Call(a) ==
  \/ WriteRow(a)
  \/ RowFails(a)
  \/ WriteTable(a)
  \/ Forget(a)
  \/ Persist(a)
  \/ CallTimesOut(a)

Next ==
  \/ Clock
  \/ Loop
  \/ \E r \in Runs : Work(r)
  \/ \E a \in Actors, kind \in Kinds, j \in Jobs : CallTool(a, kind, j)
  \/ \E a \in Actors : Call(a)
  \/ Restart

Spec == Init /\ [][Next]_vars

(* Tokio runs every ready task, tool calls have time limits, and the database
   answers.  The callback of a job is awaited without a limit, and neither the
   turn it runs nor each of its tools has one: it need not end. *)
FairSpec ==
  /\ Spec
  /\ WF_vars(Loop)
  /\ \A r \in Runs : WF_vars(EndRun(r))
  /\ \A a \in Actors : WF_vars(Call(a))

-----------------------------------------------------------------------------
(* Properties. *)

Times0 == 0..(MaxTime + 2 * Period)

(* The type of every variable. *)
TypeOK ==
  /\ now \in Times /\ started \in Times
  /\ loop \in [pc : {"sleep", "scan", "acquire"}, next : Times0, at : Times,
               todo : SUBSET Jobs, job : Jobs \union {None}]
  /\ table \in [Jobs -> {"enabled", "disabled", None}]
  /\ row \in [Jobs -> {"enabled", "disabled", None}]
  /\ last \in [Jobs -> Times \union {None}]
  /\ run \in [Runs -> [pc : {"none", "working", "saving"},
                       job : Jobs \union {None}, new : BOOLEAN]]
  /\ op \in [Actors -> [pc : {"none", "row", "lock", "forget", "persist"},
                        kind : Kinds \union {None}, job : Jobs \union {None}]]
  /\ ops \in 0..MaxOps /\ restarts \in 0..MaxRestarts
  /\ ledger \in [fired : [Jobs -> SUBSET Times], again : BOOLEAN,
                 early : BOOLEAN, off : SUBSET Jobs,
                 mixed : SUBSET Jobs]

(* A time of a job is dispatched once, although the windows of two ticks
   overlap and late ticks follow each other at once, as long as the job is
   neither disabled nor deleted and the process runs on. *)
FiredOnce == ~ledger.again

(* A new process does not catch up: nothing that was due more than the
   margin before its start is dispatched. *)
NoCatchUp == ~ledger.early

(* Each time that is due is dispatched at most once, and never late after a
   restart, through late ticks, restarts and changes of the jobs. *)
FiringInv == TypeOK /\ FiredOnce /\ NoCatchUp

(* A disable or delete that returned success and that no other call on the
   job overlapped holds until the next call, through ticks and restarts. *)
OffStaysOff ==
  \A j \in ledger.off : table[j] # "enabled" /\ row[j] # "enabled"

(* No more jobs run at a time than max_concurrent_jobs. *)
ConcurrentJobsBounded == Cardinality(Active) <= Permits

(* The permits of this tick are all held by jobs at work, none of which waits
   for a call of cron_job. *)
KeptByJobs ==
  /\ loop.pc = "acquire"
  /\ Cardinality({r \in Runs : run[r].new /\ run[r].pc = "working" /\ op[r] = NoOp}) >= Permits

(* A tick ends, unless jobs that it dispatched itself work for ever: the loop
   does not wait for ever for the permit of a job whose agent waits for the lock
   the loop holds, nor for jobs of the ticks before it (scheduler.rs:133, 190). *)
TickEnds == [](loop.pc # "sleep" => <>(loop.pc = "sleep" \/ []KeptByJobs))

=============================================================================
