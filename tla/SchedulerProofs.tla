-------------------------- MODULE SchedulerProofs --------------------------
(***************************************************************************)
(* Proofs about Scheduler: types, that a time is dispatched once and never *)
(* long before the start, and that what was turned off stays off.          *)
(***************************************************************************)
EXTENDS Scheduler, WellFoundedInduction, TLAPS

(* Max of the community modules is the largest element: a nonempty set of
   naturals up to n has one, as the distances to n have a least. *)
LEMMA MaxIsLargest ==
  ASSUME NEW n \in Nat, NEW S \in SUBSET (0..n), S # {}
  PROVE  Max(S) \in S /\ \A x \in S : x <= Max(S)
<1> DEFINE T == {n - x : x \in S}
<1>1. T \subseteq Nat /\ T # {}
  <2>1. \A x \in S : n - x \in Nat
    OBVIOUS
  <2>2. QED
    BY <2>1
<1>2. IsWellFoundedOn(OpToRel(<, Nat), Nat)
  BY NatLessThanWellFounded
<1>3. PICK d \in T : \A y \in T : <<y, d>> \notin OpToRel(<, Nat)
  <2> HIDE DEF T
  <2>1. QED
    BY <1>1, <1>2, WFMin
<1>4. \A y \in T : ~(y < d)
  BY <1>1, <1>3 DEF OpToRel
<1>5. PICK m \in S : d = n - m
  BY <1>3
<1>6. \A x \in S : m >= x
  <2>1. \A x \in S : ~(n - x < n - m)
    BY <1>4, <1>5
  <2>2. \A x \in S : x \in Int /\ m \in Int
    OBVIOUS
  <2>3. QED
    BY <2>1, <2>2
<1>7. Max(S) \in S /\ \A x \in S : Max(S) >= x
  BY <1>6 DEF Max
<1>8. S \subseteq Int
  OBVIOUS
<1>9. \A x \in S : x <= Max(S)
  <2> DEFINE M == Max(S)
  <2>1. M \in Int /\ \A x \in S : x \in Int /\ M >= x
    BY <1>7, <1>8
  <2> HIDE DEF M
  <2>2. \A x \in S : x <= M
    BY <2>1
  <2>3. QED
    BY <2>2 DEF M
<1>10. QED
  BY <1>7, <1>9

(* What a job is dispatched for lies in the window of the tick. *)
LEMMA DueInWindow ==
  ASSUME TypeOK, NEW j \in Jobs, IsDue(j)
  PROVE  LET due == Max(InWindow(j)) IN
         /\ due \in Due[j] /\ due \in Times
         /\ due <= loop.at /\ due + Period + Margin > loop.at
         /\ last[j] # None => last[j] < due
<1>1. InWindow(j) \subseteq Due[j] /\ Due[j] \subseteq Times
  BY SchedulerConstants DEF InWindow
<1>2. InWindow(j) \in SUBSET (0..MaxTime) /\ InWindow(j) # {} /\ MaxTime \in Nat
  BY <1>1, SchedulerConstants DEF Times, IsDue
<1>3. Max(InWindow(j)) \in InWindow(j)
  BY <1>2, MaxIsLargest
<1>4. last[j] # None => last[j] < Max(InWindow(j))
  BY DEF IsDue
<1>5. QED
  BY <1>1, <1>3, <1>4 DEF InWindow

-----------------------------------------------------------------------------
LEMMA Numbers ==
  /\ Period \in Nat \ {0} /\ Margin \in Nat /\ MaxTime \in Nat
  /\ MaxOps \in Nat /\ MaxRestarts \in Nat
BY SchedulerConstants

(* The records of the variables that are records, as TypeOK has them. *)
LoopRecords ==
  [pc : {"sleep", "scan", "acquire"}, next : Times0, at : Times,
   todo : SUBSET Jobs, job : Jobs \union {None}]

RunRecords ==
  [pc : {"none", "working", "saving"}, job : Jobs \union {None}, new : BOOLEAN]

OpRecords ==
  [pc : {"none", "row", "lock", "forget", "persist"},
   kind : Kinds \union {None}, job : Jobs \union {None}]

LedgerRecords ==
  [fired : [Jobs -> SUBSET Times], again : BOOLEAN, early : BOOLEAN,
   off : SUBSET Jobs, mixed : SUBSET Jobs]

Records ==
  /\ loop \in LoopRecords /\ run \in [Runs -> RunRecords]
  /\ op \in [Actors -> OpRecords] /\ ledger \in LedgerRecords

LEMMA TypeRecords == TypeOK => Records
BY DEF TypeOK, Records, LoopRecords, RunRecords, OpRecords, LedgerRecords

LEMMA InitType == Init => TypeOK
BY Numbers DEF Init, TypeOK, NewLoop, NoRun, NoOp, Restored, Times, Times0

LEMMA LoopType == TypeOK /\ Loop => TypeOK'
<1> SUFFICES ASSUME TypeOK, Loop PROVE TypeOK'
  OBVIOUS
<1>1. CASE Tick
  <2>1. loop.next + Period \in Times0
    BY <1>1, Numbers DEF Tick, TypeOK, Times, Times0
  <2>2. loop' \in LoopRecords
    BY <1>1, <2>1, TypeRecords DEF Tick, TypeOK, Records, LoopRecords
  <2>3. run' \in [Runs -> RunRecords]
    BY <1>1, TypeRecords DEF Tick, Records, RunRecords
  <2>4. QED
    BY <1>1, <2>2, <2>3 DEF Tick, TypeOK, LoopRecords, RunRecords
<1>2. ASSUME NEW j \in Jobs, SkipJob(j) PROVE TypeOK'
  BY <1>2 DEF SkipJob, TypeOK
<1>3. ASSUME NEW j \in Jobs, Dispatch(j) PROVE TypeOK'
  <2>1. Max(InWindow(j)) \in Times
    BY <1>3, DueInWindow DEF Dispatch
  <2>2. ledger' \in [fired : [Jobs -> SUBSET Times], again : BOOLEAN,
                     early : BOOLEAN, off : SUBSET Jobs, mixed : SUBSET Jobs]
    BY <1>3, <2>1 DEF Dispatch, TypeOK
  <2>3. QED
    BY <1>3, <2>2 DEF Dispatch, TypeOK
<1>4. ASSUME NEW r \in Runs, StartRun(r) PROVE TypeOK'
  BY <1>4 DEF StartRun, TypeOK
<1>5. CASE EndTick
  BY <1>5 DEF EndTick, TypeOK
<1>6. QED
  BY <1>1, <1>2, <1>3, <1>4, <1>5 DEF Loop

LEMMA StoredType ==
  \A kind \in Kinds, old \in {"enabled", "disabled", None} :
    /\ Stored(kind, old) \in {"enabled", "disabled", None}
    /\ kind \in {"disable", "delete"} => Stored(kind, old) # "enabled"
BY SchedulerConstants DEF Stored

(* A call under way is of a known kind and on a job. *)
CallsKnown ==
  \A a \in Actors :
    op[a].pc # "none" => op[a].kind \in Kinds /\ op[a].job \in Jobs

LEMMA CallType ==
  ASSUME TypeOK, CallsKnown, NEW a \in Actors, Call(a)
  PROVE  TypeOK'
<1> DEFINE j == op[a].job
<1>0. op[a].pc # "none" => op[a].kind \in Kinds /\ j \in Jobs
  BY DEF CallsKnown
<1>1. CASE WriteRow(a)
  <2>1. PICK v : v = Stored(op[a].kind, row[j])
    OBVIOUS
  <2>2. v \in {"enabled", "disabled", None}
    BY <1>0, <1>1, <2>1, StoredType DEF WriteRow, TypeOK
  <2>3. row' = [row EXCEPT ![j] = v]
    BY <1>1, <2>1 DEF WriteRow
  <2>4. row' \in [Jobs -> {"enabled", "disabled", None}]
    BY <2>2, <2>3 DEF TypeOK
  <2>5. QED
    BY <1>1, <2>4 DEF WriteRow, TypeOK
<1>2. CASE RowFails(a)
  BY <1>2 DEF RowFails, TypeOK, NoOp
<1>3. CASE WriteTable(a)
  <2>1. table' \in [Jobs -> {"enabled", "disabled", None}]
    BY <1>3, <1>0, StoredType DEF WriteTable, TypeOK
  <2>2. op' \in [Actors -> OpRecords]
    BY <1>3, TypeRecords DEF WriteTable, Return, NoOp, Records, OpRecords
  <2>3. j \in Jobs
    BY <1>3, <1>0 DEF WriteTable
  <2>4. ledger' \in LedgerRecords
    BY <1>3, <2>3, TypeRecords DEF WriteTable, Return, TurnedOff, Records, LedgerRecords
  <2>5. QED
    BY <1>3, <2>1, <2>2, <2>4 DEF WriteTable, TypeOK, OpRecords, LedgerRecords
<1>4. CASE Forget(a)
  BY <1>4, <1>0 DEF Forget, TypeOK, TurnedOff, NoOp
<1>5. CASE Persist(a)
  BY <1>5, <1>0 DEF Persist, TypeOK, NoOp
<1>6. CASE CallTimesOut(a)
  BY <1>6, <1>0, StoredType DEF CallTimesOut, TypeOK, NoOp
<1>7. QED
  BY <1>1, <1>2, <1>3, <1>4, <1>5, <1>6 DEF Call

LEMMA CallsKnownStep ==
  ASSUME TypeOK, CallsKnown, [Next]_vars
  PROVE  CallsKnown'
<1>1. ASSUME NEW a \in Actors, NEW kind \in Kinds, NEW j \in Jobs,
             CallTool(a, kind, j)
      PROVE  CallsKnown'
  BY <1>1 DEF CallTool, TypeOK, CallsKnown
<1>2. ASSUME NEW a \in Actors, Call(a) PROVE CallsKnown'
  <2>1. op[a].pc # "none"
    BY <1>2 DEF Call, WriteRow, RowFails, WriteTable, Forget, Persist, CallTimesOut
  <2>2. \/ op' = [op EXCEPT ![a] = NoOp]
        \/ \E pc \in {"lock", "persist", "forget"} : op' = [op EXCEPT ![a].pc = pc]
    BY <1>2 DEF Call, WriteRow, RowFails, WriteTable, Return, Forget, Persist,
                CallTimesOut
  <2>3. CASE op' = [op EXCEPT ![a] = NoOp]
    BY <2>3 DEF NoOp, TypeOK, CallsKnown
  <2>4. ASSUME NEW pc \in {"lock", "persist", "forget"}, op' = [op EXCEPT ![a].pc = pc]
        PROVE  CallsKnown'
    <3>1. \A b \in Actors : /\ op'[b].kind = op[b].kind /\ op'[b].job = op[b].job
                            /\ b # a => op'[b].pc = op[b].pc
      BY <2>4, TypeRecords DEF Records, OpRecords
    <3>2. QED
      BY <2>1, <3>1 DEF CallsKnown
  <2>5. QED
    BY <2>2, <2>3, <2>4
<1>3. CASE Restart
  BY <1>3 DEF Restart, NoOp, CallsKnown
<1>4. CASE UNCHANGED op
  BY <1>4 DEF CallsKnown
<1>5. Clock \/ Loop \/ (\E r \in Runs : Work(r)) \/ UNCHANGED vars => UNCHANGED op
  BY DEF Clock, Loop, Tick, SkipJob, Dispatch, StartRun, EndTick, Work,
         CallbackEnds, EndRun, vars
<1>6. QED
  BY <1>1, <1>2, <1>3, <1>4, <1>5 DEF Next

LEMMA TypeStep ==
  ASSUME TypeOK, CallsKnown, [Next]_vars
  PROVE  TypeOK'
<1>1. CASE UNCHANGED vars
  BY <1>1 DEF vars, TypeOK
<1>2. CASE Clock
  BY <1>2, Numbers DEF Clock, TypeOK, Times
<1>3. CASE Loop
  BY <1>3, LoopType
<1>4. ASSUME NEW r \in Runs, Work(r) PROVE TypeOK'
  <2>1. run' \in [Runs -> RunRecords]
    <3>1. CASE CallbackEnds(r)
      BY <3>1, TypeRecords DEF CallbackEnds, Records, RunRecords
    <3>2. CASE EndRun(r)
      BY <3>2, TypeRecords DEF EndRun, NoRun, Records, RunRecords
    <3>3. QED
      BY <1>4, <3>1, <3>2 DEF Work
  <2>2. QED
    BY <1>4, <2>1 DEF Work, CallbackEnds, EndRun, TypeOK, RunRecords
<1>5. ASSUME NEW a \in Actors, NEW kind \in Kinds, NEW j \in Jobs,
             CallTool(a, kind, j)
      PROVE  TypeOK'
  <2>1. op' \in [Actors -> OpRecords]
    BY <1>5, TypeRecords DEF CallTool, Records, OpRecords
  <2>2. ledger' \in LedgerRecords
    BY <1>5, TypeRecords DEF CallTool, Records, LedgerRecords
  <2>3. ops' \in 0..MaxOps
    BY <1>5, Numbers DEF CallTool, TypeOK
  <2>4. QED
    BY <1>5, <2>1, <2>2, <2>3 DEF CallTool, TypeOK, OpRecords, LedgerRecords
<1>6. ASSUME NEW a \in Actors, Call(a) PROVE TypeOK'
  BY <1>6, CallType
<1>7. CASE Restart
  <2>1. now + Period \in Times0 /\ now \in Times
    BY Numbers DEF TypeOK, Times, Times0
  <2>2. table' \in [Jobs -> {"enabled", "disabled", None}]
    BY <1>7 DEF Restart, Restored
  <2>3. loop' \in LoopRecords
    BY <1>7, <2>1 DEF Restart, NewLoop, LoopRecords
  <2>4. run' \in [Runs -> RunRecords] /\ op' \in [Actors -> OpRecords]
    BY <1>7 DEF Restart, NoRun, NoOp, RunRecords, OpRecords
  <2>5. ledger' \in LedgerRecords /\ last' \in [Jobs -> Times \union {None}]
    BY <1>7, TypeRecords DEF Restart, Records, LedgerRecords
  <2>6. restarts' \in 0..MaxRestarts
    BY <1>7, Numbers DEF Restart, TypeOK
  <2>7. QED
    BY <1>7, <2>1, <2>2, <2>3, <2>4, <2>5, <2>6
    DEF Restart, TypeOK, LoopRecords, RunRecords, OpRecords, LedgerRecords
<1>8. QED
  BY <1>1, <1>2, <1>3, <1>4, <1>5, <1>6, <1>7 DEF Next

LEMMA TypeCorrect == Spec => [](TypeOK /\ CallsKnown)
<1>1. Init => CallsKnown
  BY DEF Init, CallsKnown, NoOp
<1>2. TypeOK /\ CallsKnown /\ [Next]_vars => TypeOK' /\ CallsKnown'
  BY TypeStep, CallsKnownStep
<1>3. QED
  BY InitType, <1>1, <1>2, PTL DEF Spec

-----------------------------------------------------------------------------
(* A tick is at least a period behind the start. *)
TicksAfterStart ==
  /\ loop.next >= started + Period
  /\ loop.pc # "sleep" => loop.at >= started + Period

(* What was dispatched is not behind what last_dispatched says, and with its
   entry a job loses what it was dispatched for. *)
FiredBeforeLast ==
  \A j \in Jobs : \A t \in ledger.fired[j] : last[j] # None /\ t <= last[j]

(* FiredOnce and NoCatchUp with what makes them inductive. *)
FiringIInv == TicksAfterStart /\ FiredBeforeLast /\ FiredOnce /\ NoCatchUp

LEMMA DispatchFires ==
  ASSUME TypeOK, FiringIInv, NEW j \in Jobs, Dispatch(j)
  PROVE  FiringIInv'
<1> DEFINE due == Max(InWindow(j))
           at == loop.at
<1>1. /\ due \in Times /\ due <= at /\ due + Period + Margin > at
      /\ last[j] # None => last[j] < due
  BY DueInWindow DEF Dispatch
<1>2. loop' = [loop EXCEPT !.pc = "acquire", !.todo = @ \ {j}, !.job = j]
  BY DEF Dispatch
<1>3. loop'.pc = "acquire" /\ loop'.next = loop.next /\ loop'.at = at
  BY <1>2, TypeRecords DEF Records, LoopRecords
<1>4. at >= started + Period /\ loop.next >= started + Period
  BY DEF Dispatch, FiringIInv, TicksAfterStart
<1>5. TicksAfterStart'
  BY <1>3, <1>4 DEF Dispatch, TicksAfterStart
<1>6. at \in Nat /\ started \in Nat /\ due \in Nat
  BY <1>1, Numbers DEF TypeOK, Times
<1>7. ~(due + Margin <= started)
  <2> HIDE DEF due, at
  <2>1. QED
    BY <1>1, <1>4, <1>6, Numbers
<1>8. due \notin ledger.fired[j]
  <2>1. SUFFICES ASSUME due \in ledger.fired[j] PROVE FALSE
    OBVIOUS
  <2>2. last[j] # None /\ due <= last[j]
    BY <2>1 DEF FiringIInv, FiredBeforeLast
  <2>3. last[j] \in Nat
    BY <2>2 DEF TypeOK, Times
  <2> HIDE DEF due
  <2>4. QED
    BY <1>1, <1>6, <2>2, <2>3
<1>9. /\ ledger'.fired = [ledger.fired EXCEPT ![j] = @ \union {due}]
      /\ ledger'.again = (ledger.again \/ due \in ledger.fired[j])
      /\ ledger'.early = (ledger.early \/ due + Margin <= started)
  BY TypeRecords DEF Dispatch, Records, LedgerRecords
<1>10. FiredOnce' /\ NoCatchUp'
  <2> HIDE DEF due
  <2>1. QED
    BY <1>7, <1>8, <1>9 DEF FiringIInv, FiredOnce, NoCatchUp
<1>11. last' = [last EXCEPT ![j] = at] /\ at \in Times /\ at # None
  BY SchedulerConstants DEF Dispatch, TypeOK
<1>12. ASSUME NEW i \in Jobs, NEW t \in ledger'.fired[i]
       PROVE  last'[i] # None /\ t <= last'[i]
  <2>1. ledger.fired \in [Jobs -> SUBSET Times] /\ last \in [Jobs -> Times \union {None}]
    BY DEF TypeOK
  <2>2. CASE i # j
    <3>1. t \in ledger.fired[i] /\ last'[i] = last[i]
      BY <1>9, <1>11, <1>12, <2>1, <2>2
    <3>2. QED
      BY <3>1 DEF FiringIInv, FiredBeforeLast
  <2>3. CASE i = j
    <3>1. last'[i] = at
      BY <1>11, <2>1, <2>3
    <3>2. CASE t = due
      BY <1>1, <1>11, <3>1, <3>2
    <3>3. CASE t \in ledger.fired[j]
      <4>1. last[j] # None /\ t <= last[j]
        BY <3>3 DEF FiringIInv, FiredBeforeLast
      <4>2. last[j] \in Nat /\ t \in Nat
        BY <2>1, <3>3, <4>1 DEF Times
      <4> HIDE DEF due, at
      <4>3. QED
        BY <1>1, <1>6, <1>11, <3>1, <4>1, <4>2
    <3>4. QED
      BY <1>9, <1>12, <2>1, <2>3, <3>2, <3>3
  <2>4. QED
    BY <2>2, <2>3
<1>13. QED
  BY <1>5, <1>10, <1>12 DEF FiringIInv, FiredBeforeLast

LEMMA LoopFires ==
  ASSUME TypeOK, FiringIInv, Loop
  PROVE  FiringIInv'
<1>1. CASE Tick
  <2>1. loop'.at = now /\ loop'.next = loop.next + Period
    BY <1>1, TypeRecords DEF Tick, Records, LoopRecords
  <2>2. now >= loop.next /\ loop.next >= started + Period
    BY <1>1 DEF Tick, FiringIInv, TicksAfterStart
  <2>3. now \in Nat /\ loop.next \in Nat /\ started \in Nat
    BY Numbers DEF TypeOK, Times, Times0
  <2>4. now >= started + Period /\ loop.next + Period >= started + Period
    BY <2>2, <2>3, Numbers
  <2>5. QED
    BY <1>1, <2>1, <2>4 DEF Tick, FiringIInv, TicksAfterStart, FiredBeforeLast,
                            FiredOnce, NoCatchUp
<1>2. ASSUME NEW j \in Jobs, SkipJob(j) PROVE FiringIInv'
  BY <1>2 DEF SkipJob, TypeOK, FiringIInv, TicksAfterStart, FiredBeforeLast,
              FiredOnce, NoCatchUp
<1>3. ASSUME NEW j \in Jobs, Dispatch(j) PROVE FiringIInv'
  BY <1>3, DispatchFires
<1>4. ASSUME NEW r \in Runs, StartRun(r) PROVE FiringIInv'
  BY <1>4 DEF StartRun, TypeOK, FiringIInv, TicksAfterStart, FiredBeforeLast,
              FiredOnce, NoCatchUp
<1>5. CASE EndTick
  BY <1>5 DEF EndTick, TypeOK, FiringIInv, TicksAfterStart, FiredBeforeLast,
              FiredOnce, NoCatchUp
<1>6. QED
  BY <1>1, <1>2, <1>3, <1>4, <1>5 DEF Loop

(* Of the calls only the one that forgets a job touches what was fired. *)
LEMMA CallFires ==
  ASSUME TypeOK, CallsKnown, FiringIInv, NEW a \in Actors, Call(a)
  PROVE  FiringIInv'
<1>1. CASE Forget(a)
  <2>1. op[a].job \in Jobs
    BY <1>1 DEF Forget, CallsKnown
  <2>2. /\ ledger'.fired = [ledger.fired EXCEPT ![op[a].job] = {}]
        /\ ledger'.again = ledger.again /\ ledger'.early = ledger.early
    BY <1>1, TypeRecords DEF Forget, Records, LedgerRecords
  <2>3. last' = [last EXCEPT ![op[a].job] = None]
    BY <1>1 DEF Forget
  <2>4. FiredBeforeLast'
    BY <2>1, <2>2, <2>3 DEF TypeOK, FiringIInv, FiredBeforeLast
  <2>5. QED
    BY <1>1, <2>2, <2>4 DEF Forget, FiringIInv, TicksAfterStart, FiredOnce, NoCatchUp
<1>2. CASE ~Forget(a)
  <2>1. UNCHANGED <<loop, started, last>>
    BY <1>2 DEF Call, WriteRow, RowFails, WriteTable, Persist, CallTimesOut
  <2>2. /\ ledger'.fired = ledger.fired
        /\ ledger'.again = ledger.again /\ ledger'.early = ledger.early
    BY <1>2, TypeRecords DEF Call, WriteRow, RowFails, WriteTable, Return, Persist,
                             CallTimesOut, Records, LedgerRecords
  <2>3. QED
    BY <2>1, <2>2 DEF FiringIInv, TicksAfterStart, FiredBeforeLast, FiredOnce, NoCatchUp
<1>3. QED
  BY <1>1, <1>2

LEMMA FiringStep ==
  ASSUME TypeOK, CallsKnown, FiringIInv, [Next]_vars
  PROVE  FiringIInv'
<1> USE DEF FiringIInv, TicksAfterStart, FiredBeforeLast, FiredOnce, NoCatchUp
<1>1. CASE UNCHANGED vars
  BY <1>1 DEF vars
<1>2. CASE Clock
  BY <1>2 DEF Clock
<1>3. CASE Loop
  BY <1>3, LoopFires
<1>4. ASSUME NEW r \in Runs, Work(r) PROVE FiringIInv'
  BY <1>4 DEF Work, CallbackEnds, EndRun
<1>5. ASSUME NEW a \in Actors, NEW kind \in Kinds, NEW j \in Jobs,
             CallTool(a, kind, j)
      PROVE  FiringIInv'
  <2>1. /\ ledger'.fired = ledger.fired
        /\ ledger'.again = ledger.again /\ ledger'.early = ledger.early
    BY <1>5, TypeRecords DEF CallTool, Records, LedgerRecords
  <2>2. QED
    BY <1>5, <2>1 DEF CallTool
<1>6. ASSUME NEW a \in Actors, Call(a) PROVE FiringIInv'
  BY <1>6, CallFires
<1>7. CASE Restart
  <2>1. /\ ledger'.fired = [j \in Jobs |-> {}]
        /\ ledger'.again = ledger.again /\ ledger'.early = ledger.early
    BY <1>7, TypeRecords DEF Restart, Records, LedgerRecords
  <2>2. loop'.pc = "sleep" /\ loop'.next = now + Period /\ started' = now
    BY <1>7 DEF Restart, NewLoop
  <2>3. now \in Nat
    BY Numbers DEF TypeOK, Times
  <2>4. QED
    BY <2>1, <2>2, <2>3, Numbers
<1>8. QED
  BY <1>1, <1>2, <1>3, <1>4, <1>5, <1>6, <1>7 DEF Next

(* Every time is dispatched at most once, and nothing that was due more than
   the margin before the start of the process is dispatched, however late the
   ticks are, whatever calls change the jobs and however often the process
   restarts. *)
THEOREM FiringIsRight == Spec => []FiringInv
<1>1. Init => FiringIInv
  <2> SUFFICES ASSUME Init PROVE FiringIInv
    OBVIOUS
  <2>1. loop.pc = "sleep" /\ loop.next = 0 + Period /\ started = 0
    BY DEF Init, NewLoop
  <2>2. QED
    BY <2>1, Numbers DEF Init, FiringIInv, TicksAfterStart, FiredBeforeLast,
                         FiredOnce, NoCatchUp
<1>2. TypeOK /\ CallsKnown /\ FiringIInv /\ [Next]_vars => FiringIInv'
  BY FiringStep
<1>3. TypeOK /\ FiringIInv => FiringInv
  BY DEF FiringIInv, FiringInv
<1>4. QED
  BY <1>1, <1>2, <1>3, TypeCorrect, PTL DEF Spec

-----------------------------------------------------------------------------
(* Two calls on one job are known to have overlapped. *)
OverlapsAreMixed ==
  \A a, b \in Actors :
    a # b /\ op[a].pc # "none" /\ op[a].job = op[b].job => op[a].job \in ledger.mixed

(* A disable or delete that nothing overlaps has written the row before it
   waits for the lock, and the table before it waits for the next one. *)
TurningOff ==
  \A a \in Actors :
    /\ op[a].kind \in {"disable", "delete"}
    /\ op[a].pc \in {"lock", "forget"}
    /\ op[a].job \notin ledger.mixed
    => /\ row[op[a].job] # "enabled"
       /\ op[a].pc = "forget" => table[op[a].job] # "enabled"

(* Nobody is at work on a job that is recorded as off. *)
OffIsQuiet == \A a \in Actors : op[a].pc # "none" => op[a].job \notin ledger.off

OffIInv == OverlapsAreMixed /\ TurningOff /\ OffIsQuiet /\ OffStaysOff

(* What an end of a call adds to ledger.off is off, and nobody else is at
   work on it. *)
LEMMA ReturnTurnsOff ==
  ASSUME TypeOK, CallsKnown, OffIInv, NEW a \in Actors,
         op[a].pc \in {"lock", "forget"}, NEW j \in TurnedOff(a)
  PROVE  /\ j = op[a].job /\ j \in Jobs /\ row[j] # "enabled"
         /\ op[a].kind \in {"disable", "delete"}
         /\ op[a].pc = "forget" => table[j] # "enabled"
         /\ \A b \in Actors : op[b].pc # "none" /\ op[b].job = j => b = a
<1>1. j = op[a].job /\ j \in Jobs
  BY DEF TurnedOff, CallsKnown
<1>2. op[a].kind \in {"disable", "delete"} /\ j \notin ledger.mixed
  BY <1>1 DEF TurnedOff
<1>3. QED
  BY <1>1, <1>2 DEF OffIInv, TurningOff, OverlapsAreMixed

(* A call that ends, with what it may have turned off. *)
LEMMA EndKeepsOff ==
  ASSUME TypeOK, CallsKnown, OffIInv, NEW a \in Actors, NEW O,
         op[a].pc # "none", op' = [op EXCEPT ![a] = NoOp],
         ledger'.mixed = ledger.mixed, ledger'.off = ledger.off \union O,
         \A j \in O : /\ j = op[a].job /\ table'[j] # "enabled" /\ row'[j] # "enabled"
                      /\ \A b \in Actors : op[b].pc # "none" /\ op[b].job = j => b = a,
         \A j \in Jobs : j # op[a].job => table'[j] = table[j] /\ row'[j] = row[j]
  PROVE  OffIInv'
<1>1. /\ op'[a] = NoOp
      /\ \A b \in Actors : b # a => op'[b] = op[b]
  BY DEF TypeOK
<1>2. OverlapsAreMixed'
  <2>1. SUFFICES ASSUME NEW b \in Actors, NEW c \in Actors, b # c,
                        op'[b].pc # "none", op'[b].job = op'[c].job
                 PROVE  op'[b].job \in ledger.mixed
    BY DEF OverlapsAreMixed
  <2>2. b # a /\ op'[b] = op[b]
    BY <1>1, <2>1 DEF NoOp
  <2>3. op[b].job \in Jobs
    BY <2>1, <2>2 DEF CallsKnown
  <2>4. c # a
    BY <1>1, <2>1, <2>2, <2>3, SchedulerConstants DEF NoOp
  <2>5. QED
    BY <1>1, <2>1, <2>2, <2>4 DEF OffIInv, OverlapsAreMixed
<1>3. OffIsQuiet'
  BY <1>1 DEF NoOp, OffIInv, OffIsQuiet
<1>4. OffStaysOff'
  <2>1. ledger.off \subseteq Jobs /\ op[a].job \notin ledger.off
    BY DEF TypeOK, OffIInv, OffIsQuiet
  <2>2. QED
    BY <2>1 DEF OffIInv, OffStaysOff
<1>5. TurningOff'
  <2>1. SUFFICES ASSUME NEW b \in Actors, op'[b].kind \in {"disable", "delete"},
                        op'[b].pc \in {"lock", "forget"},
                        op'[b].job \notin ledger.mixed
                 PROVE  /\ row'[op'[b].job] # "enabled"
                        /\ op'[b].pc = "forget" => table'[op'[b].job] # "enabled"
    BY DEF TurningOff
  <2>2. b # a /\ op'[b] = op[b]
    BY <1>1, <2>1 DEF NoOp
  <2>3. op[b].job \in Jobs
    BY <2>1, <2>2 DEF CallsKnown
  <2>4. \A c \in Actors : op[c].pc # "none" /\ op[c].job = op[b].job => c = b
    BY <2>1, <2>2 DEF OffIInv, OverlapsAreMixed
  <2>5. op[b].job # op[a].job
    BY <2>2, <2>4
  <2>6. table'[op[b].job] = table[op[b].job] /\ row'[op[b].job] = row[op[b].job]
    BY <2>3, <2>5
  <2>7. QED
    BY <2>1, <2>2, <2>6 DEF OffIInv, TurningOff
<1>6. QED
  BY <1>2, <1>3, <1>4, <1>5 DEF OffIInv

(* A call that goes on to its next step, and has written what it must have
   written by then. *)
LEMMA MoveKeepsOff ==
  ASSUME TypeOK, CallsKnown, OffIInv, NEW a \in Actors,
         NEW pc \in {"lock", "persist", "forget"},
         op[a].pc # "none", op' = [op EXCEPT ![a].pc = pc], UNCHANGED ledger,
         \A j \in Jobs : j # op[a].job => table'[j] = table[j] /\ row'[j] = row[j],
         op[a].kind \in {"disable", "delete"} /\ op[a].job \notin ledger.mixed =>
           /\ pc \in {"lock", "forget"} => row'[op[a].job] # "enabled"
           /\ pc = "forget" => table'[op[a].job] # "enabled"
  PROVE  OffIInv'
<1>1. \A b \in Actors : /\ op'[b].kind = op[b].kind /\ op'[b].job = op[b].job
                        /\ b # a => op'[b].pc = op[b].pc
  BY TypeRecords DEF Records, OpRecords
<1>2. op'[a].pc = pc
  BY TypeRecords DEF Records, OpRecords
<1>3. OverlapsAreMixed'
  <2>1. SUFFICES ASSUME NEW b \in Actors, NEW c \in Actors, b # c,
                        op'[b].pc # "none", op'[b].job = op'[c].job
                 PROVE  op'[b].job \in ledger.mixed
    BY DEF OverlapsAreMixed
  <2>2. op[b].pc # "none"
    BY <1>1, <2>1
  <2>3. QED
    BY <1>1, <2>1, <2>2 DEF OffIInv, OverlapsAreMixed
<1>4. OffIsQuiet'
  BY <1>1 DEF OffIInv, OffIsQuiet
<1>5. OffStaysOff'
  <2>1. ledger.off \subseteq Jobs /\ op[a].job \notin ledger.off
    BY DEF TypeOK, OffIInv, OffIsQuiet
  <2>2. QED
    BY <2>1 DEF OffIInv, OffStaysOff
<1>6. TurningOff'
  <2>1. SUFFICES ASSUME NEW b \in Actors, op'[b].kind \in {"disable", "delete"},
                        op'[b].pc \in {"lock", "forget"},
                        op'[b].job \notin ledger.mixed
                 PROVE  /\ row'[op'[b].job] # "enabled"
                        /\ op'[b].pc = "forget" => table'[op'[b].job] # "enabled"
    BY DEF TurningOff
  <2>2. CASE b = a
    BY <1>1, <1>2, <2>1, <2>2
  <2>3. CASE b # a
    <3>1. op[b].pc = op'[b].pc /\ op[b].kind = op'[b].kind /\ op[b].job = op'[b].job
      BY <1>1, <2>3
    <3>2. op[b].job \in Jobs
      BY <2>1, <3>1 DEF CallsKnown
    <3>3. op[b].job # op[a].job
      BY <2>1, <2>3, <3>1 DEF OffIInv, OverlapsAreMixed
    <3>4. table'[op[b].job] = table[op[b].job] /\ row'[op[b].job] = row[op[b].job]
      BY <3>2, <3>3
    <3>5. QED
      BY <2>1, <3>1, <3>4 DEF OffIInv, TurningOff
  <2>4. QED
    BY <2>2, <2>3
<1>7. QED
  BY <1>3, <1>4, <1>5, <1>6 DEF OffIInv

LEMMA BeginKeepsOff ==
  ASSUME TypeOK, CallsKnown, OffIInv, NEW a \in Actors, NEW kind \in Kinds,
         NEW j \in Jobs, CallTool(a, kind, j)
  PROVE  OffIInv'
<1>1. /\ ledger'.off = ledger.off \ {j}
      /\ ledger'.mixed = IF \E b \in Actors : op[b].job = j
                         THEN ledger.mixed \union {j} ELSE ledger.mixed \ {j}
  BY TypeRecords DEF CallTool, Records, LedgerRecords
<1>2. /\ op'[a].job = j /\ op'[a].kind = kind
      /\ op'[a].pc = IF kind = "create" THEN "lock" ELSE "row"
      /\ \A b \in Actors : b # a => op'[b] = op[b]
      /\ op[a] = NoOp
  BY DEF CallTool, May, TypeOK
<1>3. UNCHANGED <<table, row>>
  BY DEF CallTool
<1>4. OverlapsAreMixed'
  <2>1. SUFFICES ASSUME NEW b \in Actors, NEW c \in Actors, b # c,
                        op'[b].pc # "none", op'[b].job = op'[c].job
                 PROVE  op'[b].job \in ledger'.mixed
    BY DEF OverlapsAreMixed
  <2>2. CASE b = a \/ c = a
    BY <1>1, <1>2, <2>1, <2>2
  <2>3. CASE b # a /\ c # a
    <3>1. op[b].job \in ledger.mixed
      BY <1>2, <2>1, <2>3 DEF OffIInv, OverlapsAreMixed
    <3>2. QED
      BY <1>1, <1>2, <2>3, <3>1
  <2>4. QED
    BY <2>2, <2>3
<1>5. TurningOff'
  <2>1. SUFFICES ASSUME NEW b \in Actors, op'[b].kind \in {"disable", "delete"},
                        op'[b].pc \in {"lock", "forget"},
                        op'[b].job \notin ledger'.mixed
                 PROVE  /\ row[op'[b].job] # "enabled"
                        /\ op'[b].pc = "forget" => table[op'[b].job] # "enabled"
    BY <1>3 DEF TurningOff
  <2>2. b # a /\ op'[b] = op[b]
    BY <1>2, <2>1
  <2>3. op[b].job \notin ledger.mixed
    BY <1>1, <2>1, <2>2
  <2>4. QED
    BY <2>1, <2>2, <2>3 DEF OffIInv, TurningOff
<1>6. OffIsQuiet'
  BY <1>1, <1>2 DEF OffIInv, OffIsQuiet
<1>7. OffStaysOff'
  BY <1>1, <1>3 DEF OffIInv, OffStaysOff
<1>8. QED
  BY <1>4, <1>5, <1>6, <1>7 DEF OffIInv

LEMMA CallKeepsOff ==
  ASSUME TypeOK, CallsKnown, OffIInv, NEW a \in Actors, Call(a)
  PROVE  OffIInv'
<1> DEFINE j == op[a].job
<1>1. op[a].pc # "none" /\ op[a].kind \in Kinds /\ j \in Jobs
  BY DEF Call, WriteRow, RowFails, WriteTable, Forget, Persist, CallTimesOut,
         CallsKnown
<1>2. CASE WriteRow(a)
  <2>1. \A i \in Jobs : i # j => table'[i] = table[i] /\ row'[i] = row[i]
    BY <1>2 DEF WriteRow, TypeOK
  <2>2. op[a].kind \in {"disable", "delete"} => row'[j] # "enabled"
    BY <1>1, <1>2, StoredType DEF WriteRow, TypeOK
  <2>3. op' = [op EXCEPT ![a].pc = "lock"] /\ UNCHANGED ledger
    BY <1>2 DEF WriteRow
  <2>4. QED
    BY <1>1, <2>1, <2>2, <2>3, MoveKeepsOff
<1>3. ASSUME RowFails(a) \/ Persist(a) \/ CallTimesOut(a) PROVE OffIInv'
  <2>1. op' = [op EXCEPT ![a] = NoOp] /\ UNCHANGED <<table, ledger>>
    BY <1>3 DEF RowFails, Persist, CallTimesOut
  <2>2. \A i \in Jobs : i # j => table'[i] = table[i] /\ row'[i] = row[i]
    BY <1>3 DEF RowFails, Persist, CallTimesOut, TypeOK
  <2> DEFINE O == {}
  <2>3. ledger'.mixed = ledger.mixed /\ ledger'.off = ledger.off \union O
    BY <2>1
  <2>4. \A i \in O : /\ i = j /\ table'[i] # "enabled" /\ row'[i] # "enabled"
                    /\ \A b \in Actors : op[b].pc # "none" /\ op[b].job = i => b = a
    OBVIOUS
  <2> HIDE DEF O
  <2>5. QED
    BY <1>1, <2>1, <2>2, <2>3, <2>4, EndKeepsOff
<1>4. CASE WriteTable(a)
  <2>1. \A i \in Jobs : i # j => table'[i] = table[i] /\ row'[i] = row[i]
    BY <1>4 DEF WriteTable, TypeOK
  <2>2. table'[j] = Stored(op[a].kind, table[j]) /\ UNCHANGED row
    BY <1>1, <1>4 DEF WriteTable, TypeOK
  <2>3. op[a].kind \in {"disable", "delete"} => table'[j] # "enabled"
    BY <1>1, <2>2, StoredType DEF TypeOK
  <2>4. ASSUME NEW pc \in {"persist", "forget"}, op' = [op EXCEPT ![a].pc = pc],
               UNCHANGED ledger
        PROVE  OffIInv'
    <3>1. op[a].kind \in {"disable", "delete"} /\ j \notin ledger.mixed
            => row'[j] # "enabled"
      BY <1>4, <2>2 DEF WriteTable, OffIInv, TurningOff
    <3>2. QED
      BY <1>1, <2>1, <2>3, <2>4, <3>1, MoveKeepsOff
  <2>5. ASSUME Return(a) PROVE OffIInv'
    <3>1. /\ op' = [op EXCEPT ![a] = NoOp]
          /\ ledger'.mixed = ledger.mixed
          /\ ledger'.off = ledger.off \union TurnedOff(a)
      BY <2>5, TypeRecords DEF Return, Records, LedgerRecords
    <3>2. \A i \in TurnedOff(a) :
            /\ i = j /\ table'[i] # "enabled" /\ row'[i] # "enabled"
            /\ \A b \in Actors : op[b].pc # "none" /\ op[b].job = i => b = a
      BY <1>4, <2>2, <2>3, ReturnTurnsOff DEF WriteTable
    <3>3. QED
      BY <1>1, <2>1, <3>1, <3>2, EndKeepsOff
  <2>6. \/ Return(a)
        \/ \E pc \in {"persist", "forget"} : /\ op' = [op EXCEPT ![a].pc = pc]
                                            /\ UNCHANGED ledger
    BY <1>4 DEF WriteTable
  <2>7. QED
    BY <2>4, <2>5, <2>6
<1>5. CASE Forget(a)
  <2>1. /\ op' = [op EXCEPT ![a] = NoOp]
        /\ ledger'.mixed = ledger.mixed
        /\ ledger'.off = ledger.off \union TurnedOff(a)
        /\ UNCHANGED <<table, row>>
    BY <1>5, TypeRecords DEF Forget, Records, LedgerRecords
  <2>2. \A i \in TurnedOff(a) :
          /\ i = j /\ table'[i] # "enabled" /\ row'[i] # "enabled"
          /\ \A b \in Actors : op[b].pc # "none" /\ op[b].job = i => b = a
    BY <1>5, <2>1, ReturnTurnsOff DEF Forget
  <2>3. QED
    BY <1>1, <2>1, <2>2, EndKeepsOff
<1>6. QED
  BY <1>2, <1>3, <1>4, <1>5 DEF Call

LEMMA OffStep ==
  ASSUME TypeOK, CallsKnown, OffIInv, [Next]_vars
  PROVE  OffIInv'
<1> USE DEF OffIInv, OverlapsAreMixed, TurningOff, OffIsQuiet, OffStaysOff
<1>1. CASE UNCHANGED vars
  BY <1>1 DEF vars
<1>2. CASE Clock
  BY <1>2 DEF Clock
<1>3. CASE Loop
  <2>1. UNCHANGED <<table, row, op>>
    BY <1>3 DEF Loop, Tick, SkipJob, Dispatch, StartRun, EndTick
  <2>2. ledger'.off = ledger.off /\ ledger'.mixed = ledger.mixed
    BY <1>3, TypeRecords DEF Loop, Tick, SkipJob, Dispatch, StartRun, EndTick,
                             Records, LedgerRecords
  <2>3. QED
    BY <2>1, <2>2
<1>4. ASSUME NEW r \in Runs, Work(r) PROVE OffIInv'
  BY <1>4 DEF Work, CallbackEnds, EndRun
<1>5. ASSUME NEW a \in Actors, NEW kind \in Kinds, NEW j \in Jobs,
             CallTool(a, kind, j)
      PROVE  OffIInv'
  BY <1>5, BeginKeepsOff
<1>6. ASSUME NEW a \in Actors, Call(a) PROVE OffIInv'
  BY <1>6, CallKeepsOff
<1>7. CASE Restart
  <2>1. \A a \in Actors : op'[a].pc = "none"
    BY <1>7 DEF Restart, NoOp
  <2>2. ledger'.off = ledger.off /\ ledger.off \subseteq Jobs
    BY <1>7, TypeRecords DEF Restart, Records, LedgerRecords
  <2>3. \A j \in Jobs : row'[j] # "enabled" => table'[j] # "enabled"
    BY <1>7, SchedulerConstants DEF Restart, Restored
  <2>4. UNCHANGED row
    BY <1>7 DEF Restart
  <2>5. OverlapsAreMixed' /\ TurningOff' /\ OffIsQuiet'
    BY <2>1
  <2>6. OffStaysOff'
    BY <2>2, <2>3, <2>4
  <2>7. QED
    BY <2>5, <2>6
<1>8. QED
  BY <1>1, <1>2, <1>3, <1>4, <1>5, <1>6, <1>7 DEF Next

(* A disable or delete that returned success, and that no other call on the
   job overlapped, holds in the row and in the table until the next call on
   that job, through ticks, time limits, failing statements and restarts. *)
THEOREM OffIsOff == Spec => []OffStaysOff
<1>1. Init => OffIInv
  BY DEF Init, NoOp, OffIInv, OverlapsAreMixed, TurningOff, OffIsQuiet, OffStaysOff
<1>2. TypeOK /\ CallsKnown /\ OffIInv /\ [Next]_vars => OffIInv'
  BY OffStep
<1>3. OffIInv => OffStaysOff
  BY DEF OffIInv
<1>4. QED
  BY <1>1, <1>2, <1>3, TypeCorrect, PTL DEF Spec

=============================================================================
