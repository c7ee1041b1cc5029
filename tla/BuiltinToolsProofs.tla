------------------------- MODULE BuiltinToolsProofs -------------------------
(***************************************************************************)
(* What the built-in tools report is true.  First skills and plugins: what  *)
(* was reported of one is so, and the next turn shows it, however many      *)
(* tools and commands change them at once.  Then the file tools, for any    *)
(* number of calls at once and any tree they find: no text is lost that no  *)
(* call was asked to give up, and what a call reports is so.                *)
(***************************************************************************)
EXTENDS Extensions, FileTools, TLAPS, FiniteSetTheorems, SequenceTheorems

ExtSpec == ExtInit /\ [][ExtNext]_extVars

-----------------------------------------------------------------------------
(* The inductive invariant. *)

DirRecord == [there : BOOLEAN, md : BOOLEAN, marker : BOOLEAN]

OpRecord ==
  [what : {"none", "create", "install", "remove", "enable", "disable"},
   at : {"none", "make", "fill", "unlink", "look", "mark"},
   dir : SUBSET Dirs, off : BOOLEAN, alone : BOOLEAN]

LoadRecord ==
  [on : BOOLEAN, todo : SUBSET Dirs, read : SUBSET Dirs, active : SUBSET Dirs]

ExtShape ==
  /\ dir \in [Dirs -> DirRecord]
  /\ op \in [Actors -> OpRecord]
  /\ told \in [Dirs -> {"on", "off", "gone", "mixed"}]
  /\ load \in LoadRecord
  /\ base \subseteq Dirs /\ appended \subseteq Dirs /\ touched \subseteq Dirs

(* An operation under way is about one directory. *)
OneDirectory(a) ==
  \/ op[a] = NoWork
  \/ op[a].at # "none" /\ \E d \in Dirs : op[a].dir = {d}

EntriesNeedIt(d) == dir[d].md \/ dir[d].marker => dir[d].there

(* alone says what it should: two operations on one directory know of each
   other, ... *)
NotAlone(a, b) == a # b /\ op[a].dir # {} /\ op[a].dir = op[b].dir => ~op[a].alone

(* ... and one that is alone finds what it left. *)
FindsWhatItLeft(a, d) ==
  op[a].alone /\ op[a].dir = {d} =>
    /\ op[a].at = "make" => dir[d] = Missing
    /\ op[a].at = "fill" => dir[d].there /\ (dir[d].marker => op[a].off)
    /\ op[a].at \in {"look", "mark"} => told[d] = "mixed" \/ dir[d].md

(* What was reported of a directory that nobody works on is so. *)
ReportIsWhole(d) ==
  (\A a \in Actors : op[a].dir # {d}) =>
    /\ told[d] \in {"on", "off"} => dir[d].md /\ dir[d].marker = (told[d] = "off")
    /\ told[d] = "gone" => dir[d] = Missing

WorkInv ==
  /\ \A a \in Actors : OneDirectory(a)
  /\ \A d \in Dirs : EntriesNeedIt(d) /\ ReportIsWhole(d)
  /\ \A a, b \in Actors : NotAlone(a, b)
  /\ \A a \in Actors, d \in Dirs : FindsWhatItLeft(a, d)

(* What a directory without a disabled marker adds to the prompt. *)
Shown(d) == dir[d].md /\ ~dir[d].marker

(* A load has passed, read or not yet seen each directory; about one that
   nobody worked on since it began, what it has seen is so. *)
LoadSees(d) ==
  /\ d \in load.todo => d \notin load.read /\ d \notin load.active
  /\ d \in load.read => d \notin load.active
  /\ load.on /\ d \notin touched =>
       /\ d \in load.read => dir[d].md
       /\ d \notin load.todo /\ d \notin load.read => (d \in load.active <=> Shown(d))

AppendedIsSo(d) == Settled(d) => (d \in appended <=> Shown(d))

LoadInv ==
  /\ ~load.on => load = NoLoad
  /\ load.read = {} \/ \E d \in Dirs : load.read = {d}
  /\ \A a \in Actors, d \in Dirs : op[a].dir = {d} => d \in touched
  /\ \A d \in Dirs : LoadSees(d) /\ AppendedIsSo(d)

ExtIInv == ExtShape /\ WorkInv /\ LoadInv

-----------------------------------------------------------------------------
(* What the invariant says beyond its parts. *)

LEMMA ExtIInvImplies == ExtIInv => ExtInv
<1> SUFFICES ASSUME ExtIInv PROVE ExtInv
  OBVIOUS
<1>1. ExtTypeOK
  <2>1. \A d \in Dirs : dir[d].md \/ dir[d].marker => dir[d].there
    BY DEF ExtIInv, WorkInv, EntriesNeedIt
  <2>2. ASSUME NEW a \in Actors
        PROVE  (op[a].dir = {}) = (op[a].at = "none") /\ Cardinality(op[a].dir) <= 1
    <3>1. CASE op[a] = NoWork
      BY <3>1, FS_EmptySet DEF NoWork
    <3>2. CASE op[a].at # "none" /\ \E d \in Dirs : op[a].dir = {d}
      BY <3>2, FS_Singleton
    <3> QED BY <3>1, <3>2 DEF ExtIInv, WorkInv, OneDirectory
  <2>3. base \union load.active \union appended \subseteq Dirs
    BY DEF ExtIInv, ExtShape, LoadRecord
  <2>4. told \in [Dirs -> {"on", "off", "gone", "mixed"}]
    BY DEF ExtIInv, ExtShape
  <2> QED BY <2>1, <2>2, <2>3, <2>4 DEF ExtTypeOK
<1>2. ReportsAreWhole
  BY DEF ExtIInv, WorkInv, ReportIsWhole, ReportsAreWhole, WorkingOn
<1>3. NextTurnShowsIt
  <2>1. SUFFICES ASSUME NEW d \in Dirs, Settled(d)
                 PROVE  /\ told[d] = "on" => d \in appended
                        /\ told[d] \in {"off", "gone"} => d \notin appended
    BY DEF NextTurnShowsIt
  <2>2. d \in appended <=> Shown(d)
    BY <2>1 DEF ExtIInv, LoadInv, AppendedIsSo
  <2>3. \A a \in Actors : op[a].dir # {d}
    BY <2>1 DEF ExtIInv, LoadInv, Settled
  <2>4. /\ told[d] \in {"on", "off"} => dir[d].md /\ dir[d].marker = (told[d] = "off")
        /\ told[d] = "gone" => dir[d] = Missing
    BY <2>3 DEF ExtIInv, WorkInv, ReportIsWhole
  <2>5. ~Missing.md
    BY DEF Missing
  <2> QED BY <2>2, <2>4, <2>5 DEF Shown
<1> QED BY <1>1, <1>2, <1>3 DEF ExtInv

(* The directory of an operation under way. *)
LEMMA DirOfIt ==
  ASSUME ExtIInv, NEW a \in Actors, op[a] # NoWork
  PROVE  DirOf(a) \in Dirs /\ op[a].dir = {DirOf(a)}
<1>1. PICK d \in Dirs : op[a].dir = {d}
  BY DEF ExtIInv, WorkInv, OneDirectory
<1> QED BY <1>1 DEF DirOf

LEMMA AtWork ==
  ASSUME ExtIInv, NEW a \in Actors, op[a].at # "none"
  PROVE  op[a] # NoWork /\ DirOf(a) \in Dirs /\ op[a].dir = {DirOf(a)} /\ DirOf(a) \in touched
<1>1. op[a] # NoWork
  BY DEF NoWork
<1> QED BY <1>1, DirOfIt DEF ExtIInv, LoadInv

-----------------------------------------------------------------------------
(* The operations leave a load as it was, except of directories they touch. *)

LEMMA LoadKept ==
  ASSUME ExtIInv, UNCHANGED <<load, appended, loads>>,
         touched \subseteq touched',
         \A d \in Dirs \ touched' : dir'[d] = dir[d],
         \A a \in Actors, d \in Dirs : op'[a].dir = {d} => d \in touched'
  PROVE  LoadInv'
<1>1. (~load.on => load = NoLoad)' /\ (load.read = {} \/ \E d \in Dirs : load.read = {d})'
  BY DEF ExtIInv, LoadInv
<1>2. ASSUME NEW d \in Dirs
      PROVE  LoadSees(d)'
  <2>1. LoadSees(d)
    BY DEF ExtIInv, LoadInv
  <2> QED BY <2>1 DEF LoadSees, Shown
<1>3. ASSUME NEW d \in Dirs
      PROVE  AppendedIsSo(d)'
  <2>1. AppendedIsSo(d)
    BY DEF ExtIInv, LoadInv
  <2> QED BY <2>1 DEF AppendedIsSo, Settled, Shown
<1> QED BY <1>1, <1>2, <1>3 DEF LoadInv

(* The load steps leave the operations as they were. *)
LEMMA WorkKept ==
  ASSUME ExtIInv, UNCHANGED <<dir, op, told>>
  PROVE  WorkInv'
  BY DEF ExtIInv, WorkInv, OneDirectory, EntriesNeedIt, ReportIsWhole, NotAlone, FindsWhatItLeft

-----------------------------------------------------------------------------
(* The steps of a load. *)

LEMMA LoadShape ==
  ASSUME ExtIInv
  PROVE  /\ load \in LoadRecord
         /\ \A d \in Dirs : LoadSees(d) /\ AppendedIsSo(d)
         /\ \A a \in Actors, d \in Dirs : op[a].dir = {d} => d \in touched
         /\ ~load.on => load = NoLoad
         /\ load.read = {} \/ \E d \in Dirs : load.read = {d}
  BY DEF ExtIInv, ExtShape, LoadInv

LEMMA NoLoadIsOne == NoLoad \in LoadRecord /\ ~NoLoad.on /\ NoLoad.read = {} /\ NoLoad.todo = {}
                     /\ NoLoad.active = {}
  BY DEF NoLoad, LoadRecord

LEMMA StartsServiceKeeps ==
  ASSUME ExtIInv, StartsService
  PROVE  ExtIInv'
<1>1. /\ load' = NoLoad /\ appended' = {} /\ touched' = Dirs
      /\ UNCHANGED <<dir, op, told>>
      /\ base' \subseteq Dirs
  BY DEF StartsService
<1>2. ExtShape'
  BY <1>1, NoLoadIsOne DEF ExtIInv, ExtShape
<1>3. LoadInv'
  BY <1>1, NoLoadIsOne DEF LoadInv, LoadSees, AppendedIsSo, Settled
<1> QED BY <1>1, <1>2, <1>3, WorkKept DEF ExtIInv

LEMMA LoadBeginsKeeps ==
  ASSUME ExtIInv, LoadBegins
  PROVE  ExtIInv'
<1>1. /\ load' = [on |-> TRUE, todo |-> Dirs, read |-> {}, active |-> {}]
      /\ touched' = {d \in Dirs : WorkingOn(d) # {}}
      /\ UNCHANGED <<dir, op, base, appended, told>>
  BY DEF LoadBegins
<1>2. /\ load' \in LoadRecord /\ load'.on /\ load'.todo = Dirs
      /\ load'.read = {} /\ load'.active = {}
  BY <1>1 DEF LoadRecord
<1>3. load' # NoLoad
  BY <1>2, NoLoadIsOne
<1>4. ExtShape'
  BY <1>1, <1>2 DEF ExtIInv, ExtShape
<1>5. \A a \in Actors, d \in Dirs : op'[a].dir = {d} => d \in touched'
  BY <1>1 DEF WorkingOn
<1>6. LoadInv'
  BY <1>2, <1>3, <1>5 DEF LoadInv, LoadSees, AppendedIsSo, Settled
<1> QED BY <1>1, <1>4, <1>6, WorkKept DEF ExtIInv

LEMMA ReadMdKeeps ==
  ASSUME ExtIInv, NEW d \in Dirs, ReadMd(d)
  PROVE  ExtIInv'
<1>1. /\ load.read = {} /\ d \in load.todo
      /\ load' = [load EXCEPT !.todo = @ \ {d}, !.read = IF dir[d].md THEN {d} ELSE {}]
      /\ UNCHANGED <<dir, op, base, appended, told, touched, loads>>
  BY DEF ReadMd
<1>2. load \in LoadRecord /\ load.on
  BY <1>1, LoadShape, NoLoadIsOne
<1>3. /\ load' \in LoadRecord /\ load'.on = load.on /\ load'.todo = load.todo \ {d}
      /\ load'.read = (IF dir[d].md THEN {d} ELSE {}) /\ load'.active = load.active
  BY <1>1, <1>2 DEF LoadRecord
<1>4. load' # NoLoad
  BY <1>2, <1>3, NoLoadIsOne
<1>5. ExtShape'
  BY <1>1, <1>3 DEF ExtIInv, ExtShape
<1>6. ASSUME NEW e \in Dirs
      PROVE  LoadSees(e)'
  <2>1. LoadSees(e)
    BY LoadShape
  <2>2. CASE e = d
    BY <1>1, <1>2, <1>3, <2>1, <2>2 DEF LoadSees, Shown
  <2>3. CASE e # d
    <3>1. e \notin load'.read /\ e \notin load.read /\ (e \in load'.todo <=> e \in load.todo)
      BY <1>1, <1>3, <2>3
    <3> QED BY <1>1, <1>3, <2>1, <3>1 DEF LoadSees, Shown
  <2> QED BY <2>2, <2>3
<1>7. LoadInv'
  BY <1>1, <1>2, <1>3, <1>4, <1>6, LoadShape DEF LoadInv, AppendedIsSo, Settled
<1> QED BY <1>1, <1>5, <1>7, WorkKept DEF ExtIInv

LEMMA LookForMarkerKeeps ==
  ASSUME ExtIInv, NEW d \in Dirs, LookForMarker(d)
  PROVE  ExtIInv'
<1>1. /\ load.read = {d}
      /\ load' = [load EXCEPT !.read = {}, !.active = IF dir[d].marker THEN @ ELSE @ \union {d}]
      /\ UNCHANGED <<dir, op, base, appended, told, touched, loads>>
  BY DEF LookForMarker
<1>2. load \in LoadRecord /\ load.on
  BY <1>1, LoadShape, NoLoadIsOne
<1>3. /\ load' \in LoadRecord /\ load'.on = load.on /\ load'.todo = load.todo /\ load'.read = {}
      /\ load'.active = (IF dir[d].marker THEN load.active ELSE load.active \union {d})
  BY <1>1, <1>2 DEF LoadRecord
<1>4. load' # NoLoad
  BY <1>2, <1>3, NoLoadIsOne
<1>5. ExtShape'
  BY <1>1, <1>3 DEF ExtIInv, ExtShape
<1>6. ASSUME NEW e \in Dirs
      PROVE  LoadSees(e)'
  <2>1. LoadSees(e)
    BY LoadShape
  <2>2. CASE e = d
    BY <1>1, <1>2, <1>3, <2>1, <2>2 DEF LoadSees, Shown
  <2>3. CASE e # d
    <3>1. e \notin load'.read /\ e \notin load.read /\ (e \in load'.active <=> e \in load.active)
      BY <1>1, <1>3, <2>3
    <3> QED BY <1>1, <1>3, <2>1, <3>1 DEF LoadSees, Shown
  <2> QED BY <2>2, <2>3
<1>7. LoadInv'
  BY <1>1, <1>2, <1>3, <1>4, <1>6, LoadShape DEF LoadInv, AppendedIsSo, Settled
<1> QED BY <1>1, <1>5, <1>7, WorkKept DEF ExtIInv

LEMMA LoadEndsKeeps ==
  ASSUME ExtIInv, LoadEnds
  PROVE  ExtIInv'
<1>1. /\ load.on /\ load.todo = {} /\ load.read = {}
      /\ load' = NoLoad /\ appended' = load.active
      /\ UNCHANGED <<dir, op, base, told, touched>>
  BY DEF LoadEnds
<1>2. ExtShape'
  BY <1>1, NoLoadIsOne, LoadShape DEF ExtIInv, ExtShape, LoadRecord
<1>3. ASSUME NEW d \in Dirs
      PROVE  AppendedIsSo(d)'
  <2>1. LoadSees(d)
    BY LoadShape
  <2> QED BY <1>1, <2>1 DEF AppendedIsSo, LoadSees, Settled, Shown
<1>4. \A d \in Dirs : LoadSees(d)'
  BY <1>1, NoLoadIsOne DEF LoadSees
<1>5. LoadInv'
  BY <1>1, <1>3, <1>4, NoLoadIsOne, LoadShape DEF LoadInv
<1> QED BY <1>1, <1>2, <1>5, WorkKept DEF ExtIInv

-----------------------------------------------------------------------------
(* The start of an operation. *)

(* What the others hear of an operation on d: they are not alone on it. *)
Hears(b, d) ==
  /\ op'[b] \in OpRecord
  /\ op'[b].dir = op[b].dir /\ op'[b].at = op[b].at /\ op'[b].off = op[b].off
  /\ op'[b].alone => op[b].alone /\ op[b].dir # {d}
  /\ op[b] = NoWork => op'[b] = NoWork

LEMMA HearsKeeps ==
  ASSUME ExtIInv, NEW b \in Actors, NEW d \in Dirs, Hears(b, d)
  PROVE  OneDirectory(b)'
<1>1. OneDirectory(b)
  BY DEF ExtIInv, WorkInv
<1> QED BY <1>1 DEF OneDirectory, Hears

(* An operation begins on d. *)
LEMMA BeginsKeeps ==
  ASSUME ExtIInv, NEW a \in Actors, NEW d \in Dirs, Starts(a, d),
         NEW what \in {"create", "install", "remove", "enable", "disable"},
         NEW at \in {"make", "unlink", "look"},
         NEW off \in BOOLEAN, Becomes(a, d, what, at, off),
         at = "make" => ~dir[d].there, at = "look" => dir[d].there, UNCHANGED <<dir, told>>
  PROVE  ExtIInv'
<1>1. /\ op[a] = NoWork /\ touched' = touched \union {d}
      /\ UNCHANGED <<base, load, appended, loads>>
  BY DEF Starts
<1>2. op \in [Actors -> OpRecord] /\ dir \in [Dirs -> DirRecord]
  BY DEF ExtIInv, ExtShape
<1>3. a \notin WorkingOn(d)
  BY <1>1 DEF WorkingOn, NoWork
<1>4. op' = [b \in Actors |->
        IF b = a THEN [what |-> what, at |-> at, dir |-> {d}, off |-> off, alone |-> WorkingOn(d) = {}]
        ELSE IF b \in WorkingOn(d) THEN [op[b] EXCEPT !.alone = FALSE] ELSE op[b]]
  BY DEF Becomes
<1>5. op'[a] = [what |-> what, at |-> at, dir |-> {d}, off |-> off, alone |-> WorkingOn(d) = {}]
  BY <1>4
<1>6. /\ op'[a] \in OpRecord /\ op'[a].dir = {d} /\ op'[a].at = at /\ op'[a].off = off
      /\ op'[a].alone = (WorkingOn(d) = {})
  BY <1>5 DEF OpRecord
<1>7. ASSUME NEW b \in Actors, b # a
      PROVE  Hears(b, d)
  <2>1. CASE b \in WorkingOn(d)
    <3>1. op'[b] = [op[b] EXCEPT !.alone = FALSE]
      BY <1>4, <1>7, <2>1
    <3>2. op[b] # NoWork
      BY <2>1 DEF WorkingOn, NoWork
    <3>3. PICK o \in OpRecord : o = op[b]
      BY <1>2
    <3>4. PICK x : x = [o EXCEPT !.alone = FALSE]
      OBVIOUS
    <3>5. x \in OpRecord /\ ~x.alone /\ x.dir = o.dir /\ x.at = o.at /\ x.off = o.off
      BY <3>4 DEF OpRecord
    <3>6. op'[b] = x
      BY <3>1, <3>3, <3>4
    <3> QED BY <3>2, <3>3, <3>5, <3>6 DEF Hears
  <2>2. CASE b \notin WorkingOn(d)
    <3>1. op'[b] = op[b]
      BY <1>4, <1>7, <2>2
    <3> QED BY <1>2, <2>2, <3>1 DEF Hears, WorkingOn
  <2> QED BY <2>1, <2>2
<1>8. op' \in [Actors -> OpRecord]
  BY <1>4, <1>6, <1>7 DEF Hears
<1>9. ExtShape'
  BY <1>1, <1>8 DEF ExtIInv, ExtShape
<1>10. \A b \in Actors : OneDirectory(b)'
  BY <1>6, <1>7, HearsKeeps DEF OneDirectory
<1>11. \A e \in Dirs : EntriesNeedIt(e)'
  BY DEF ExtIInv, WorkInv, EntriesNeedIt
<1>12. ASSUME NEW e \in Dirs
       PROVE  ReportIsWhole(e)'
  <2>1. ReportIsWhole(e)
    BY DEF ExtIInv, WorkInv
  <2>2. SUFFICES ASSUME \A b \in Actors : op'[b].dir # {e} PROVE \A b \in Actors : op[b].dir # {e}
    BY <2>1 DEF ReportIsWhole
  <2> QED BY <1>1, <1>7, <2>2 DEF Hears, NoWork
<1>13. ASSUME NEW b \in Actors, NEW c \in Actors
       PROVE  NotAlone(b, c)'
  <2>1. NotAlone(b, c)
    BY DEF ExtIInv, WorkInv
  <2>2. CASE b = a /\ c # a
    <3>1. op'[c].dir = {d} => c \in WorkingOn(d)
      BY <1>7, <2>2 DEF Hears, WorkingOn
    <3> QED BY <1>6, <2>2, <3>1 DEF NotAlone
  <2>3. CASE b # a /\ c = a
    BY <1>6, <1>7, <2>3 DEF NotAlone, Hears
  <2>4. CASE b # a /\ c # a
    BY <1>7, <2>1, <2>4 DEF NotAlone, Hears
  <2>5. CASE b = a /\ c = a
    BY <2>5 DEF NotAlone
  <2> QED BY <2>2, <2>3, <2>4, <2>5
<1>14. ASSUME NEW b \in Actors, NEW e \in Dirs
       PROVE  FindsWhatItLeft(b, e)'
  <2>1. FindsWhatItLeft(b, e)
    BY DEF ExtIInv, WorkInv
  <2>2. CASE b # a
    BY <1>7, <2>1, <2>2 DEF FindsWhatItLeft, Hears
  <2>3. CASE b = a
    <3>1. at = "make" => dir[d] = Missing
      <4>1. SUFFICES ASSUME at = "make" PROVE dir[d] = Missing
        OBVIOUS
      <4>2. dir[d] \in DirRecord /\ ~dir[d].there /\ ~dir[d].md /\ ~dir[d].marker
        BY <1>2, <4>1 DEF ExtIInv, WorkInv, EntriesNeedIt
      <4> QED BY <4>2 DEF DirRecord, Missing
    <3>2. at = "look" /\ WorkingOn(d) = {} => told[d] = "mixed" \/ dir[d].md
      <4>1. SUFFICES ASSUME at = "look", WorkingOn(d) = {} PROVE told[d] = "mixed" \/ dir[d].md
        OBVIOUS
      <4>2. ReportIsWhole(d) /\ told[d] \in {"on", "off", "gone", "mixed"}
        BY DEF ExtIInv, ExtShape, WorkInv
      <4>3. \A x \in Actors : op[x].dir # {d}
        BY <4>1 DEF WorkingOn
      <4>4. dir[d] # Missing
        BY <4>1 DEF Missing
      <4> QED BY <4>2, <4>3, <4>4 DEF ReportIsWhole
    <3>3. op'[a].dir = {e} => e = d
      BY <1>6
    <3> QED BY <1>6, <2>3, <3>1, <3>2, <3>3 DEF FindsWhatItLeft
  <2> QED BY <2>2, <2>3
<1>15. WorkInv'
  BY <1>10, <1>11, <1>12, <1>13, <1>14 DEF WorkInv
<1>16. \A b \in Actors, e \in Dirs : op'[b].dir = {e} => e \in touched'
  BY <1>1, <1>6, <1>7, LoadShape DEF Hears
<1>17. LoadInv'
  BY <1>1, <1>16, LoadKept
<1> QED BY <1>9, <1>15, <1>17 DEF ExtIInv

LEMMA RefusedKeeps ==
  ASSUME ExtIInv, NEW a \in Actors, NEW d \in Dirs, Starts(a, d), UNCHANGED <<dir, op, told>>
  PROVE  ExtIInv'
<1>1. touched' = touched \union {d} /\ UNCHANGED <<base, load, appended, loads>>
  BY DEF Starts
<1>2. ExtShape'
  BY <1>1 DEF ExtIInv, ExtShape
<1>3. LoadInv'
  BY <1>1, LoadShape, LoadKept
<1> QED BY <1>2, <1>3, WorkKept DEF ExtIInv

(* The handlers that begin an operation. *)
LEMMA CreateKeeps ==
  ASSUME ExtIInv, NEW a \in Actors, NEW d \in Dirs, Create(a, d)
  PROVE  ExtIInv'
  BY BeginsKeeps, RefusedKeeps DEF Create

LEMMA RemoveExtKeeps ==
  ASSUME ExtIInv, NEW a \in Actors, NEW d \in Dirs, RemoveExt(a, d)
  PROVE  ExtIInv'
  BY BeginsKeeps, RefusedKeeps DEF RemoveExt

LEMMA InstallKeeps ==
  ASSUME ExtIInv, NEW d \in Dirs, Install(d)
  PROVE  ExtIInv'
<1>1. Cli \in Actors
  BY DEF Actors
<1>2. PICK off \in BOOLEAN :
        IF dir[d].there THEN UNCHANGED op ELSE Becomes(Cli, d, "install", "make", off)
  BY DEF Install
<1> QED BY <1>1, <1>2, BeginsKeeps, RefusedKeeps DEF Install

LEMMA EnableKeeps ==
  ASSUME ExtIInv, NEW a \in Actors, NEW d \in Dirs, Enable(a, d) \/ Disable(a, d)
  PROVE  ExtIInv'
  BY BeginsKeeps, RefusedKeeps DEF Enable, Disable

-----------------------------------------------------------------------------
(* The steps of an operation under way. *)

(* It changes its own directory, and its place, and tells nothing yet. *)
LEMMA WorksOn ==
  ASSUME ExtIInv, NEW a \in Actors, NEW d \in Dirs, op[a].dir = {d}, d \in touched,
         NEW r \in DirRecord, dir' = [dir EXCEPT ![d] = r],
         NEW s \in OpRecord, op' = [op EXCEPT ![a] = s],
         s.dir = {d}, s.at # "none", s.alone = op[a].alone,
         r.md \/ r.marker => r.there,
         s.alone => /\ s.at = "make" => r = Missing
                    /\ s.at = "fill" => r.there /\ (r.marker => s.off)
                    /\ s.at \in {"look", "mark"} => told[d] = "mixed" \/ r.md,
         UNCHANGED <<base, load, appended, told, touched, loads>>
  PROVE  ExtIInv'
<1>1. op \in [Actors -> OpRecord] /\ dir \in [Dirs -> DirRecord]
  BY DEF ExtIInv, ExtShape
<1>2. /\ op' \in [Actors -> OpRecord] /\ op'[a] = s
      /\ \A b \in Actors : b # a => op'[b] = op[b]
      /\ \A b \in Actors : op'[b].dir = op[b].dir /\ op'[b].alone = op[b].alone
  BY <1>1
<1>3. /\ dir' \in [Dirs -> DirRecord] /\ dir'[d] = r
      /\ \A e \in Dirs : e # d => dir'[e] = dir[e]
  BY <1>1
<1>4. ExtShape'
  BY <1>2, <1>3 DEF ExtIInv, ExtShape
<1>5. \A b \in Actors : OneDirectory(b)'
  BY <1>2 DEF ExtIInv, WorkInv, OneDirectory
<1>6. \A e \in Dirs : EntriesNeedIt(e)'
  BY <1>3 DEF ExtIInv, WorkInv, EntriesNeedIt
<1>7. ASSUME NEW e \in Dirs
      PROVE  ReportIsWhole(e)'
  <2>1. ReportIsWhole(e)
    BY DEF ExtIInv, WorkInv
  <2>2. CASE e = d
    BY <1>2, <2>2 DEF ReportIsWhole
  <2>3. CASE e # d
    BY <1>2, <1>3, <2>1, <2>3 DEF ReportIsWhole
  <2> QED BY <2>2, <2>3
<1>8. \A b, c \in Actors : NotAlone(b, c)'
  BY <1>2 DEF ExtIInv, WorkInv, NotAlone
<1>9. ASSUME NEW b \in Actors, NEW e \in Dirs
      PROVE  FindsWhatItLeft(b, e)'
  <2>1. FindsWhatItLeft(b, e)
    BY DEF ExtIInv, WorkInv
  <2>2. CASE b = a
    <3>1. op'[a].dir = {e} => e = d
      BY <1>2
    <3> QED BY <1>2, <1>3, <2>2, <3>1 DEF FindsWhatItLeft
  <2>3. CASE b # a /\ e = d
    <3>1. NotAlone(b, a)
      BY DEF ExtIInv, WorkInv
    <3>2. op[b].dir = {d} => ~op[b].alone
      BY <2>3, <3>1 DEF NotAlone
    <3> QED BY <1>2, <2>3, <3>2 DEF FindsWhatItLeft
  <2>4. CASE b # a /\ e # d
    BY <1>2, <1>3, <2>1, <2>4 DEF FindsWhatItLeft
  <2> QED BY <2>2, <2>3, <2>4
<1>10. WorkInv'
  BY <1>5, <1>6, <1>7, <1>8, <1>9 DEF WorkInv
<1>11. LoadInv'
  BY <1>2, <1>3, LoadShape, LoadKept
<1> QED BY <1>4, <1>10, <1>11 DEF ExtIInv

(* What the step of an operation finds. *)
LEMMA Finds ==
  ASSUME ExtIInv, NEW a \in Actors, op[a].at # "none", NEW d, d = DirOf(a)
  PROVE  /\ d \in Dirs /\ op[a].dir = {d} /\ d \in touched /\ op[a] # NoWork
         /\ op[a] \in OpRecord /\ dir[d] \in DirRecord
         /\ dir \in [Dirs -> DirRecord] /\ op \in [Actors -> OpRecord]
         /\ dir[d].md \/ dir[d].marker => dir[d].there
         /\ op[a].alone => /\ op[a].at = "make" => dir[d] = Missing
                           /\ op[a].at = "fill" => dir[d].there /\ (dir[d].marker => op[a].off)
                           /\ op[a].at \in {"look", "mark"} => told[d] = "mixed" \/ dir[d].md
<1>1. d \in Dirs /\ op[a].dir = {d} /\ d \in touched /\ op[a] # NoWork
  BY AtWork
<1>2. EntriesNeedIt(d) /\ FindsWhatItLeft(a, d)
  BY <1>1 DEF ExtIInv, WorkInv
<1> QED BY <1>1, <1>2 DEF ExtIInv, ExtShape, EntriesNeedIt, FindsWhatItLeft

LEMMA MakeDirKeeps ==
  ASSUME ExtIInv, NEW a \in Actors, MakeDir(a)
  PROVE  ExtIInv'
<1>1. PICK d : d = DirOf(a)
  OBVIOUS
<1>2. /\ op[a].at = "make" /\ op' = [op EXCEPT ![a].at = "fill"]
      /\ dir' = [dir EXCEPT ![d].there = TRUE]
      /\ UNCHANGED <<base, load, appended, told, touched, loads>>
  BY <1>1 DEF MakeDir, Step
<1>3. /\ d \in Dirs /\ op[a].dir = {d} /\ d \in touched
      /\ op[a] \in OpRecord /\ dir[d] \in DirRecord
      /\ op[a].alone => dir[d] = Missing
  BY <1>1, <1>2, Finds
<1>4. PICK r : r = [dir[d] EXCEPT !.there = TRUE]
  OBVIOUS
<1>5. PICK s : s = [op[a] EXCEPT !.at = "fill"]
  OBVIOUS
<1>6. /\ r \in DirRecord /\ r.there /\ r.marker = dir[d].marker
      /\ dir' = [dir EXCEPT ![d] = r]
  BY <1>2, <1>3, <1>4 DEF DirRecord
<1>7. /\ s \in OpRecord /\ s.dir = {d} /\ s.at = "fill" /\ s.alone = op[a].alone
      /\ op' = [op EXCEPT ![a] = s]
  BY <1>2, <1>3, <1>5 DEF OpRecord
<1>8. ~Missing.marker
  BY DEF Missing
<1> QED BY <1>2, <1>3, <1>6, <1>7, <1>8, WorksOn

(* Fill and Unlink change an entry of the directory, and nothing else. *)
LEMMA EntryKeeps ==
  ASSUME ExtIInv, NEW a \in Actors, NEW d, d = DirOf(a), op[a].at \in {"fill", "unlink"},
         NEW r \in DirRecord, dir' = [dir EXCEPT ![d] = r],
         r.there = dir[d].there, r.md \/ r.marker => r.there,
         op[a].at = "fill" => (r.marker => dir[d].marker \/ op[a].off),
         UNCHANGED <<op, base, load, appended, told, touched, loads>>
  PROVE  ExtIInv'
<1>1. /\ d \in Dirs /\ op[a].dir = {d} /\ d \in touched
      /\ op[a] \in OpRecord /\ dir[d] \in DirRecord /\ op \in [Actors -> OpRecord]
      /\ op[a].alone => (op[a].at = "fill" => dir[d].there /\ (dir[d].marker => op[a].off))
  BY Finds
<1>2. PICK s : s = op[a]
  OBVIOUS
<1>3. op' = [op EXCEPT ![a] = s]
  BY <1>1, <1>2
<1> QED BY <1>1, <1>2, <1>3, WorksOn

LEMMA FillKeeps ==
  ASSUME ExtIInv, NEW a \in Actors, Fill(a)
  PROVE  ExtIInv'
<1>1. PICK d : d = DirOf(a)
  OBVIOUS
<1>2. /\ op[a].at = "fill" /\ dir[d].there
      /\ \/ dir' = [dir EXCEPT ![d].md = TRUE]
         \/ dir' = [dir EXCEPT ![d].marker = TRUE] /\ op[a].off
      /\ UNCHANGED <<op, base, load, appended, told, touched, loads>>
  BY <1>1 DEF Fill
<1>3. dir[d] \in DirRecord
  BY <1>1, <1>2, Finds
<1>4. CASE dir' = [dir EXCEPT ![d].md = TRUE]
  <2>1. PICK r : r = [dir[d] EXCEPT !.md = TRUE]
    OBVIOUS
  <2>2. /\ r \in DirRecord /\ r.there = dir[d].there /\ r.marker = dir[d].marker
        /\ dir' = [dir EXCEPT ![d] = r]
    BY <1>3, <1>4, <2>1 DEF DirRecord
  <2> QED BY <1>1, <1>2, <2>2, EntryKeeps
<1>5. CASE dir' = [dir EXCEPT ![d].marker = TRUE] /\ op[a].off
  <2>1. PICK r : r = [dir[d] EXCEPT !.marker = TRUE]
    OBVIOUS
  <2>2. r \in DirRecord /\ r.there = dir[d].there /\ dir' = [dir EXCEPT ![d] = r]
    BY <1>3, <1>5, <2>1 DEF DirRecord
  <2>3. op[a].at = "fill" /\ op[a].off /\ dir[d].there /\ dir' = [dir EXCEPT ![d].marker = TRUE]
    BY <1>2, <1>5
  <2>5. r.md \/ r.marker => r.there
    BY <2>2, <2>3
  <2>4. UNCHANGED <<op, base, load, appended, told, touched, loads>>
    BY <1>2
  <2>6. op[a].at \in {"fill", "unlink"} /\ (r.marker => dir[d].marker \/ op[a].off)
    BY <2>3
  <2> QED BY <1>1, <2>2, <2>4, <2>5, <2>6, EntryKeeps
<1> QED BY <1>2, <1>4, <1>5

LEMMA UnlinkKeeps ==
  ASSUME ExtIInv, NEW a \in Actors, Unlink(a)
  PROVE  ExtIInv'
<1>1. PICK d : d = DirOf(a)
  OBVIOUS
<1>2. /\ op[a].at = "unlink"
      /\ \/ dir' = [dir EXCEPT ![d].md = FALSE]
         \/ dir' = [dir EXCEPT ![d].marker = FALSE]
      /\ UNCHANGED <<op, base, load, appended, told, touched, loads>>
  BY <1>1 DEF Unlink
<1>3. dir[d] \in DirRecord /\ (dir[d].md \/ dir[d].marker => dir[d].there)
  BY <1>1, <1>2, Finds
<1>4. CASE dir' = [dir EXCEPT ![d].md = FALSE]
  <2>1. PICK r : r = [dir[d] EXCEPT !.md = FALSE]
    OBVIOUS
  <2>2. /\ r \in DirRecord /\ r.there = dir[d].there /\ ~r.md /\ r.marker = dir[d].marker
        /\ dir' = [dir EXCEPT ![d] = r]
    BY <1>3, <1>4, <2>1 DEF DirRecord
  <2> QED BY <1>1, <1>2, <1>3, <2>2, EntryKeeps
<1>5. CASE dir' = [dir EXCEPT ![d].marker = FALSE]
  <2>1. PICK r : r = [dir[d] EXCEPT !.marker = FALSE]
    OBVIOUS
  <2>2. /\ r \in DirRecord /\ r.there = dir[d].there /\ ~r.marker /\ r.md = dir[d].md
        /\ dir' = [dir EXCEPT ![d] = r]
    BY <1>3, <1>5, <2>1 DEF DirRecord
  <2> QED BY <1>1, <1>2, <1>3, <2>2, EntryKeeps
<1> QED BY <1>2, <1>4, <1>5

(* An operation ends and reports: what it reports is so if it was alone. *)
LEMMA EndsKeeps ==
  ASSUME ExtIInv, NEW a \in Actors, op[a] # NoWork, NEW d, d = DirOf(a),
         NEW outcome \in {"on", "off", "gone", "mixed"}, Ends(a, outcome),
         NEW r \in DirRecord, dir' = [dir EXCEPT ![d] = r],
         r.md \/ r.marker => r.there,
         op[a].alone =>
           /\ outcome \in {"on", "off"} => r.md /\ r.marker = (outcome = "off")
           /\ outcome = "gone" => r = Missing
  PROVE  ExtIInv'
<1>1. /\ op' = [op EXCEPT ![a] = NoWork]
      /\ told' = [told EXCEPT ![d] = IF op[a].alone THEN outcome ELSE "mixed"]
      /\ touched' = touched \union {d}
      /\ UNCHANGED <<base, load, appended, loads>>
  BY DEF Ends
<1>2. /\ op \in [Actors -> OpRecord] /\ dir \in [Dirs -> DirRecord]
      /\ told \in [Dirs -> {"on", "off", "gone", "mixed"}]
      /\ d \in Dirs /\ op[a].dir = {d}
  BY DirOfIt DEF ExtIInv, ExtShape
<1>3. NoWork \in OpRecord /\ NoWork.dir = {}
  BY DEF NoWork, OpRecord
<1>4. /\ op' \in [Actors -> OpRecord] /\ op'[a] = NoWork
      /\ \A b \in Actors : b # a => op'[b] = op[b]
  BY <1>1, <1>2, <1>3
<1>5. /\ dir' \in [Dirs -> DirRecord] /\ dir'[d] = r
      /\ \A e \in Dirs : e # d => dir'[e] = dir[e]
  BY <1>2
<1>6. /\ told' \in [Dirs -> {"on", "off", "gone", "mixed"}]
      /\ told'[d] = (IF op[a].alone THEN outcome ELSE "mixed")
      /\ \A e \in Dirs : e # d => told'[e] = told[e]
  BY <1>1, <1>2
<1>7. ExtShape'
  BY <1>1, <1>2, <1>4, <1>5, <1>6 DEF ExtIInv, ExtShape
<1>8. \A b \in Actors : OneDirectory(b)'
  BY <1>4 DEF ExtIInv, WorkInv, OneDirectory
<1>9. \A e \in Dirs : EntriesNeedIt(e)'
  BY <1>5 DEF ExtIInv, WorkInv, EntriesNeedIt
<1>10. ASSUME NEW e \in Dirs
       PROVE  ReportIsWhole(e)'
  <2>1. ReportIsWhole(e)
    BY DEF ExtIInv, WorkInv
  <2>2. CASE e # d
    <3>1. (\A b \in Actors : op'[b].dir # {e}) => \A b \in Actors : op[b].dir # {e}
      <4>1. op[a].dir # {e}
        BY <1>2, <2>2
      <4> QED BY <1>4, <4>1
    <3> QED BY <1>5, <1>6, <2>1, <2>2, <3>1 DEF ReportIsWhole
  <2>3. CASE e = d
    BY <1>5, <1>6, <2>3 DEF ReportIsWhole
  <2> QED BY <2>2, <2>3
<1>11. ASSUME NEW b \in Actors, NEW c \in Actors
       PROVE  NotAlone(b, c)'
  <2>1. NotAlone(b, c)
    BY DEF ExtIInv, WorkInv
  <2> QED BY <1>3, <1>4, <2>1 DEF NotAlone
<1>12. ASSUME NEW b \in Actors, NEW e \in Dirs
       PROVE  FindsWhatItLeft(b, e)'
  <2>1. FindsWhatItLeft(b, e)
    BY DEF ExtIInv, WorkInv
  <2>2. CASE b = a
    BY <1>3, <1>4, <2>2 DEF FindsWhatItLeft
  <2>3. CASE b # a /\ e = d
    <3>1. NotAlone(b, a)
      BY DEF ExtIInv, WorkInv
    <3>2. op[b].dir = {d} => ~op[b].alone
      BY <1>2, <2>3, <3>1 DEF NotAlone
    <3> QED BY <1>4, <2>3, <3>2 DEF FindsWhatItLeft
  <2>4. CASE b # a /\ e # d
    BY <1>4, <1>5, <1>6, <2>1, <2>4 DEF FindsWhatItLeft
  <2> QED BY <2>2, <2>3, <2>4
<1>13. WorkInv'
  BY <1>8, <1>9, <1>10, <1>11, <1>12 DEF WorkInv
<1>14. \A b \in Actors, e \in Dirs : op'[b].dir = {e} => e \in touched'
  BY <1>1, <1>3, <1>4, LoadShape
<1>15. LoadInv'
  BY <1>1, <1>5, <1>14, LoadKept
<1> QED BY <1>7, <1>13, <1>15 DEF ExtIInv

LEMMA FilledKeeps ==
  ASSUME ExtIInv, NEW a \in Actors, Filled(a)
  PROVE  ExtIInv'
<1>1. PICK d : d = DirOf(a)
  OBVIOUS
<1>2. /\ op[a].at = "fill" /\ dir[d].md /\ (op[a].off => dir[d].marker)
      /\ Ends(a, IF op[a].off THEN "off" ELSE "on")
      /\ UNCHANGED dir
  BY <1>1 DEF Filled
<1>3. /\ d \in Dirs /\ op[a] # NoWork /\ op[a] \in OpRecord
      /\ dir[d] \in DirRecord /\ dir \in [Dirs -> DirRecord]
      /\ dir[d].md \/ dir[d].marker => dir[d].there
      /\ op[a].alone => (dir[d].marker => op[a].off)
  BY <1>1, <1>2, Finds
<1>4. PICK r : r = dir[d]
  OBVIOUS
<1>5. r \in DirRecord /\ dir' = [dir EXCEPT ![d] = r]
  BY <1>2, <1>3, <1>4
<1>6. PICK outcome : outcome = IF op[a].off THEN "off" ELSE "on"
  OBVIOUS
<1>7. outcome \in {"on", "off"} /\ Ends(a, outcome)
  BY <1>2, <1>6
<1>8. op[a].alone => r.md /\ r.marker = (outcome = "off")
  <2>1. r.marker \in BOOLEAN
    BY <1>5 DEF DirRecord
  <2>2. op[a].alone => (r.marker <=> outcome = "off")
    BY <1>2, <1>3, <1>4, <1>6
  <2> QED BY <1>2, <1>4, <2>1, <2>2
<1>9. /\ r.md \/ r.marker => r.there
      /\ op[a].alone =>
           /\ outcome \in {"on", "off"} => r.md /\ r.marker = (outcome = "off")
           /\ outcome = "gone" => r = Missing
  BY <1>3, <1>4, <1>7, <1>8
<1>10. outcome \in {"on", "off", "gone", "mixed"}
  BY <1>7
<1> QED BY <1>1, <1>3, <1>5, <1>7, <1>9, <1>10, EndsKeeps

LEMMA RemovedKeeps ==
  ASSUME ExtIInv, NEW a \in Actors, Removed(a)
  PROVE  ExtIInv'
<1>1. PICK d : d = DirOf(a)
  OBVIOUS
<1>2. /\ op[a].at = "unlink" /\ ~dir[d].md /\ ~dir[d].marker
      /\ dir' = [dir EXCEPT ![d].there = FALSE]
      /\ Ends(a, "gone")
  BY <1>1 DEF Removed
<1>3. d \in Dirs /\ op[a] # NoWork /\ dir[d] \in DirRecord
  BY <1>1, <1>2, Finds
<1>4. PICK r : r = [dir[d] EXCEPT !.there = FALSE]
  OBVIOUS
<1>5. r \in DirRecord /\ ~r.md /\ ~r.marker /\ dir' = [dir EXCEPT ![d] = r]
  BY <1>2, <1>3, <1>4 DEF DirRecord
<1>6. r = Missing
  BY <1>2, <1>3, <1>4 DEF DirRecord, Missing
<1>7. PICK outcome : outcome = "gone"
  OBVIOUS
<1>8. outcome \in {"on", "off", "gone", "mixed"} /\ outcome \notin {"on", "off"} /\ Ends(a, outcome)
  BY <1>2, <1>7
<1> QED BY <1>1, <1>3, <1>5, <1>6, <1>8, EndsKeeps

(* A marker that is as it should be is reported, if the rest is known. *)
LEMMA MarkerKeeps ==
  ASSUME ExtIInv, NEW a \in Actors, op[a].at \in {"look", "mark"}, NEW d, d = DirOf(a),
         Ends(a, MarkerOutcome(a)),
         NEW r \in DirRecord, dir' = [dir EXCEPT ![d] = r],
         r.md = dir[d].md, r.marker = op[a].off, r.md \/ r.marker => r.there
  PROVE  ExtIInv'
<1>1. /\ op[a] # NoWork /\ d \in Dirs /\ op[a] \in OpRecord
      /\ op[a].alone => told[d] = "mixed" \/ dir[d].md
  BY Finds
<1>2. PICK outcome : outcome = MarkerOutcome(a)
  OBVIOUS
<1>3. outcome \in {"on", "off", "gone", "mixed"} /\ outcome # "gone" /\ Ends(a, outcome)
  BY <1>2 DEF MarkerOutcome
<1>4. op[a].alone => (outcome \in {"on", "off"} => r.md /\ r.marker = (outcome = "off"))
  <2>1. SUFFICES ASSUME op[a].alone, outcome \in {"on", "off"}
                 PROVE  r.md /\ r.marker = (outcome = "off")
    OBVIOUS
  <2>2. told[d] # "mixed" /\ outcome = IF op[a].off THEN "off" ELSE "on"
    BY <1>2, <2>1 DEF MarkerOutcome
  <2>3. op[a].off \in BOOLEAN
    BY <1>1 DEF OpRecord
  <2>4. (outcome = "off") = op[a].off
    BY <2>2, <2>3
  <2> QED BY <1>1, <2>1, <2>2, <2>4
<1> QED BY <1>1, <1>3, <1>4, EndsKeeps

LEMMA AlreadySoKeeps ==
  ASSUME ExtIInv, NEW a \in Actors, AlreadySo(a)
  PROVE  ExtIInv'
<1>1. PICK d : d = DirOf(a)
  OBVIOUS
<1>2. /\ op[a].at \in {"look", "mark"} /\ dir[d].marker = op[a].off
      /\ Ends(a, MarkerOutcome(a)) /\ UNCHANGED dir
  BY <1>1 DEF AlreadySo
<1>3. /\ d \in Dirs /\ dir[d] \in DirRecord /\ dir \in [Dirs -> DirRecord]
      /\ dir[d].md \/ dir[d].marker => dir[d].there
  BY <1>1, <1>2, Finds
<1>4. dir' = [dir EXCEPT ![d] = dir[d]]
  BY <1>2, <1>3
<1>5. PICK r : r = dir[d]
  OBVIOUS
<1> QED BY <1>1, <1>2, <1>3, <1>4, <1>5, MarkerKeeps

LEMMA ToBeMarkedKeeps ==
  ASSUME ExtIInv, NEW a \in Actors, ToBeMarked(a)
  PROVE  ExtIInv'
<1>1. PICK d : d = DirOf(a)
  OBVIOUS
<1>2. /\ op[a].at = "look" /\ op' = [op EXCEPT ![a].at = "mark"]
      /\ UNCHANGED <<dir, base, load, appended, told, touched, loads>>
  BY <1>1 DEF ToBeMarked, Step
<1>3. /\ d \in Dirs /\ op[a].dir = {d} /\ d \in touched
      /\ op[a] \in OpRecord /\ dir[d] \in DirRecord /\ dir \in [Dirs -> DirRecord]
      /\ dir[d].md \/ dir[d].marker => dir[d].there
      /\ op[a].alone => told[d] = "mixed" \/ dir[d].md
  BY <1>1, <1>2, Finds
<1>4. PICK r : r = dir[d]
  OBVIOUS
<1>5. dir' = [dir EXCEPT ![d] = r]
  BY <1>2, <1>3, <1>4
<1>6. PICK s : s = [op[a] EXCEPT !.at = "mark"]
  OBVIOUS
<1>7. /\ s \in OpRecord /\ s.dir = {d} /\ s.at = "mark" /\ s.alone = op[a].alone
      /\ op' = [op EXCEPT ![a] = s]
  BY <1>2, <1>3, <1>6 DEF OpRecord
<1> QED BY <1>2, <1>3, <1>4, <1>5, <1>7, WorksOn

LEMMA SetMarkerKeeps ==
  ASSUME ExtIInv, NEW a \in Actors, SetMarker(a)
  PROVE  ExtIInv'
<1>1. PICK d : d = DirOf(a)
  OBVIOUS
<1>2. /\ op[a].at \in {"look", "mark"} /\ (IF op[a].off THEN dir[d].there ELSE dir[d].marker)
      /\ dir' = [dir EXCEPT ![d].marker = op[a].off]
      /\ Ends(a, MarkerOutcome(a))
  BY <1>1 DEF SetMarker
<1>3. /\ d \in Dirs /\ dir[d] \in DirRecord /\ op[a] \in OpRecord
      /\ dir[d].md \/ dir[d].marker => dir[d].there
  BY <1>1, <1>2, Finds
<1>4. PICK r : r = [dir[d] EXCEPT !.marker = op[a].off]
  OBVIOUS
<1>5. /\ r \in DirRecord /\ r.md = dir[d].md /\ r.there = dir[d].there /\ r.marker = op[a].off
      /\ dir' = [dir EXCEPT ![d] = r]
  BY <1>2, <1>3, <1>4 DEF DirRecord, OpRecord
<1>6. r.md \/ r.marker => r.there
  BY <1>2, <1>3, <1>5
<1>7. op[a].at \in {"look", "mark"} /\ Ends(a, MarkerOutcome(a))
  BY <1>2
<1> QED BY <1>1, <1>5, <1>6, <1>7, MarkerKeeps

LEMMA BreaksOffKeeps ==
  ASSUME ExtIInv, NEW a \in Actors, BreaksOff(a)
  PROVE  ExtIInv'
<1>1. PICK d : d = DirOf(a)
  OBVIOUS
<1>2. op[a] # NoWork /\ Ends(a, "mixed") /\ UNCHANGED dir
  BY DEF BreaksOff
<1>3. d \in Dirs
  BY <1>1, <1>2, DirOfIt
<1>4. /\ dir[d] \in DirRecord /\ dir \in [Dirs -> DirRecord]
      /\ dir[d].md \/ dir[d].marker => dir[d].there
  BY <1>3 DEF ExtIInv, ExtShape, WorkInv, EntriesNeedIt
<1>5. PICK r : r = dir[d]
  OBVIOUS
<1>6. r \in DirRecord /\ dir' = [dir EXCEPT ![d] = r]
  BY <1>2, <1>4, <1>5
<1>7. PICK outcome : outcome = "mixed"
  OBVIOUS
<1>8. /\ outcome \in {"on", "off", "gone", "mixed"}
      /\ op[a].alone => /\ outcome \in {"on", "off"} => r.md /\ r.marker = (outcome = "off")
                        /\ outcome = "gone" => r = Missing
  BY <1>7
<1>9. op[a] # NoWork /\ Ends(a, outcome)
  BY <1>2, <1>7
<1>10. r.md \/ r.marker => r.there
  BY <1>4, <1>5
<1> QED BY <1>1, <1>6, <1>8, <1>9, <1>10, EndsKeeps

-----------------------------------------------------------------------------
(* The theorem. *)

LEMMA ExtInitIsInv == ExtInit => ExtIInv
<1> SUFFICES ASSUME ExtInit PROVE ExtIInv
  OBVIOUS
<1>1. /\ dir \in [Dirs -> {Missing, [there |-> TRUE, md |-> TRUE, marker |-> FALSE]}]
      /\ base = {d \in Dirs : dir[d].md} /\ appended = base /\ touched = {}
      /\ told = [d \in Dirs |-> IF dir[d].md THEN "on" ELSE "gone"]
      /\ op = [a \in Actors |-> NoWork] /\ load = NoLoad /\ loads = 0
  BY DEF ExtInit
<1>2. NoWork \in OpRecord /\ NoWork.dir = {}
  BY DEF NoWork, OpRecord
<1>3. ASSUME NEW d \in Dirs
      PROVE  /\ dir[d] \in DirRecord /\ EntriesNeedIt(d) /\ ~dir[d].marker
             /\ ~dir[d].md => dir[d] = Missing
  <2>1. CASE dir[d] = Missing
    BY <2>1 DEF DirRecord, EntriesNeedIt, Missing
  <2>2. CASE dir[d] = [there |-> TRUE, md |-> TRUE, marker |-> FALSE]
    <3>1. dir[d].there /\ dir[d].md /\ ~dir[d].marker
      BY <2>2
    <3> QED BY <2>2, <3>1 DEF DirRecord, EntriesNeedIt
  <2> QED BY <1>1, <2>1, <2>2
<1>4. ExtShape
  BY <1>1, <1>2, <1>3, NoLoadIsOne DEF ExtShape
<1>5. \A d \in Dirs : ReportIsWhole(d)
  <2>1. SUFFICES ASSUME NEW d \in Dirs PROVE ReportIsWhole(d)
    OBVIOUS
  <2>2. dir[d].marker = FALSE
    BY <1>3 DEF DirRecord
  <2>3. CASE dir[d].md
    BY <1>1, <2>2, <2>3 DEF ReportIsWhole
  <2>4. CASE ~dir[d].md
    BY <1>1, <1>3, <2>4 DEF ReportIsWhole
  <2> QED BY <2>3, <2>4
<1>6. WorkInv
  BY <1>1, <1>2, <1>3, <1>5 DEF WorkInv, OneDirectory, NotAlone, FindsWhatItLeft
<1>7. LoadInv
  BY <1>1, <1>2, NoLoadIsOne DEF LoadInv, LoadSees, AppendedIsSo, Settled
<1> QED BY <1>4, <1>6, <1>7 DEF ExtIInv

LEMMA HandlersKeep ==
  ASSUME ExtIInv, NEW a \in Actors,
         \/ SkillCreate(a) \/ SkillEnable(a) \/ SkillDisable(a) \/ SkillRemove(a)
         \/ PluginCreate(a) \/ PluginEnable(a) \/ PluginDisable(a) \/ PluginRemove(a)
  PROVE  ExtIInv'
<1>1. Skills \subseteq Dirs /\ Plugins \subseteq Dirs
  BY DEF Dirs
<1>2. CASE SkillCreate(a) \/ PluginCreate(a)
  BY <1>1, <1>2, CreateKeeps DEF SkillCreate, PluginCreate
<1>3. CASE SkillEnable(a) \/ PluginEnable(a)
  BY <1>1, <1>3, EnableKeeps DEF SkillEnable, PluginEnable
<1>4. CASE SkillDisable(a) \/ PluginDisable(a)
  BY <1>1, <1>4, EnableKeeps DEF SkillDisable, PluginDisable
<1>5. CASE SkillRemove(a) \/ PluginRemove(a)
  BY <1>1, <1>5, RemoveExtKeeps DEF SkillRemove, PluginRemove
<1> QED BY <1>2, <1>3, <1>4, <1>5

LEMMA CommandKeeps ==
  ASSUME ExtIInv, PluginCommand
  PROVE  ExtIInv'
<1>1. Skills \subseteq Dirs /\ Cli \in Actors
  BY DEF Dirs, Actors
<1> QED BY <1>1, InstallKeeps, RemoveExtKeeps, EnableKeeps DEF PluginCommand

LEMMA ExtStepKeeps == ExtIInv /\ [ExtNext]_extVars => ExtIInv'
<1> SUFFICES ASSUME ExtIInv, [ExtNext]_extVars PROVE ExtIInv'
  OBVIOUS
<1>1. CASE UNCHANGED extVars
  <2>1. UNCHANGED <<dir, op, base, load, appended, told, touched, loads>>
    BY <1>1 DEF extVars
  <2>2. ExtShape'
    BY <2>1 DEF ExtIInv, ExtShape
  <2>3. LoadInv'
    BY <2>1, LoadShape, LoadKept
  <2> QED BY <2>1, <2>2, <2>3, WorkKept DEF ExtIInv
<1>2. CASE \E a \in Actors :
             \/ SkillCreate(a) \/ SkillEnable(a) \/ SkillDisable(a) \/ SkillRemove(a)
             \/ PluginCreate(a) \/ PluginEnable(a) \/ PluginDisable(a) \/ PluginRemove(a)
  BY <1>2, HandlersKeep
<1>3. CASE \E a \in Actors :
             \/ MakeDir(a) \/ Fill(a) \/ Unlink(a) \/ Filled(a) \/ Removed(a)
             \/ AlreadySo(a) \/ ToBeMarked(a) \/ SetMarker(a) \/ BreaksOff(a)
  BY <1>3, MakeDirKeeps, FillKeeps, UnlinkKeeps, FilledKeeps, RemovedKeeps, AlreadySoKeeps,
    ToBeMarkedKeeps, SetMarkerKeeps, BreaksOffKeeps
<1>4. CASE PluginCommand \/ StartsService \/ LoadBegins \/ LoadEnds
  BY <1>4, CommandKeeps, StartsServiceKeeps, LoadBeginsKeeps, LoadEndsKeeps
<1>5. CASE \E d \in Dirs : ReadMd(d) \/ LookForMarker(d)
  BY <1>5, ReadMdKeeps, LookForMarkerKeeps
<1> QED BY <1>1, <1>2, <1>3, <1>4, <1>5 DEF ExtNext

(* For any skills, plugins and number of operations at once, in two processes
   that take no lock: what was reported of a directory is so, and the turn
   after a change shows the extensions that were made or enabled and no other
   (skill_loader.rs:84-144, skills.rs:1-10, runtime.rs:1137-1153). *)
THEOREM ExtInvHolds == ExtSpec => []ExtInv
<1>1. ExtInit => ExtIInv
  BY ExtInitIsInv
<1>2. ExtIInv /\ [ExtNext]_extVars => ExtIInv'
  BY ExtStepKeeps
<1>3. ExtIInv => ExtInv
  BY ExtIInvImplies
<1> QED BY <1>1, <1>2, <1>3, PTL DEF ExtSpec

-----------------------------------------------------------------------------
(* The file tools. *)

FilesSpec == FileToolsInit /\ [][FileToolsNext]_fileToolVars

-----------------------------------------------------------------------------
(* The tree: what lies under a path, and where a move takes it. *)

(* A path of the second level lies below the top. *)
Below(p, q) == \E t \in Tops : p = <<t>> /\ q = <<t, 0>>

LEMMA PathShape ==
  /\ \A t \in Nat : <<t>> \in Seq(Nat) /\ Len(<<t>>) = 1 /\ <<t>>[1] = t
  /\ \A t \in Nat : /\ <<t, 0>> \in Seq(Nat) /\ Len(<<t, 0>>) = 2
                    /\ <<t, 0>>[1] = t /\ <<t, 0>>[2] = 0
  OBVIOUS

LEMMA PathCases ==
  ASSUME NEW p \in Paths
  PROVE  /\ p \in Seq(Nat) /\ p[1] \in Tops /\ p[1] \in Nat
         /\ Len(p) \in {1, 2}
         /\ Len(p) = 1 => p = <<p[1]>>
         /\ Len(p) = 2 => p = <<p[1], 0>> /\ p[2] = 0
<1>1. CASE \E t \in Tops : p = <<t>>
  <2>1. PICK t \in Tops : p = <<t>>
    BY <1>1
  <2>2. t \in Nat
    BY DEF Tops
  <2>3. p \in Seq(Nat) /\ Len(p) = 1 /\ p[1] = t
    BY <2>1, <2>2, PathShape
  <2> QED BY <2>1, <2>2, <2>3
<1>2. CASE \E t \in Tops : p = <<t, 0>>
  <2>1. PICK t \in Tops : p = <<t, 0>>
    BY <1>2
  <2>2. t \in Nat
    BY DEF Tops
  <2>3. p \in Seq(Nat) /\ Len(p) = 2 /\ p[1] = t /\ p[2] = 0
    BY <2>1, <2>2, PathShape
  <2> QED BY <2>1, <2>2, <2>3
<1> QED BY <1>1, <1>2 DEF Paths

LEMMA UnderIs ==
  ASSUME NEW p \in Paths, NEW q \in Paths
  PROVE  Under(p, q) <=> (p = q \/ (p = <<q[1]>> /\ Len(q) = 2))
<1>1. p \in Seq(Nat) /\ q \in Seq(Nat)
  BY PathCases
<1>2. CASE Len(p) = Len(q)
  <2>1. SubSeq(q, 1, Len(p)) = q
    BY <1>1, <1>2, SubSeqFull
  <2>2. Len(p) <= Len(q)
    BY <1>2, PathCases
  <2>3. Under(p, q) <=> p = q
    BY <2>1, <2>2 DEF Under
  <2>4. ASSUME p = <<q[1]>>, Len(q) = 2 PROVE FALSE
    <3>1. Len(<<q[1]>>) = 1
      BY PathShape, PathCases
    <3> QED BY <1>2, <2>4, <3>1
  <2> QED BY <2>3, <2>4
<1>3. CASE Len(p) = 2 /\ Len(q) = 1
  BY <1>3, PathCases, PathShape DEF Under
<1>4. CASE Len(p) = 1 /\ Len(q) = 2
  <2>1. PICK u : u = SubSeq(q, 1, 1)
    OBVIOUS
  <2>2. \A i \in 1..1 : q[i] \in Nat
    BY PathCases
  <2>3. u \in Seq(Nat) /\ Len(u) = 1 /\ u[1] = q[1]
    BY <2>1, <2>2, SubSeqProperties
  <2>4. <<q[1]>> \in Seq(Nat) /\ Len(<<q[1]>>) = 1 /\ <<q[1]>>[1] = q[1]
    BY PathShape, PathCases
  <2>5. u = <<q[1]>>
    BY <2>3, <2>4, SeqEqual
  <2>6. Under(p, q) <=> p = <<q[1]>>
    BY <1>4, <2>1, <2>5 DEF Under
  <2> QED BY <1>4, <2>6
<1> QED BY <1>2, <1>3, <1>4, PathCases

LEMMA RebaseTop ==
  ASSUME NEW p \in Paths, NEW q \in Paths
  PROVE  Rebase(p, q, p) = q
<1>1. p \in Seq(Nat) /\ q \in Seq(Nat) /\ Len(p) \in Nat
  BY PathCases, LenProperties
<1>2. SubSeq(p, Len(p) + 1, Len(p)) = <<>>
  BY <1>1, SubSeqEmpty
<1> QED BY <1>1, <1>2, ConcatEmptySeq DEF Rebase

LEMMA BelowIsPath ==
  ASSUME NEW q \in Paths
  PROVE  /\ q \o <<0>> \in Paths <=> Len(q) = 1
         /\ Len(q) = 1 => q \o <<0>> = <<q[1], 0>>
<1>1. q \in Seq(Nat) /\ <<0>> \in Seq(Nat) /\ Len(<<0>>) = 1 /\ <<0>>[1] = 0 /\ Len(q) \in 1..2
  BY PathCases, PathShape
<1>2. PICK r : r = q \o <<0>>
  OBVIOUS
<1>3. /\ r \in Seq(Nat) /\ Len(r) = Len(q) + 1
      /\ \A i \in 1..Len(q) + 1 : r[i] = IF i <= Len(q) THEN q[i] ELSE <<0>>[i - Len(q)]
  BY <1>1, <1>2, ConcatProperties
<1>4. CASE Len(q) = 1
  <2>1. Len(r) = 2 /\ r[1] = q[1] /\ r[2] = 0
    BY <1>1, <1>3, <1>4
  <2>2. PICK z : z = <<q[1], 0>>
    OBVIOUS
  <2>3. z \in Seq(Nat) /\ Len(z) = 2 /\ z[1] = q[1] /\ z[2] = 0
    BY <2>2, PathShape, PathCases
  <2>4. \A i \in 1..Len(r) : r[i] = z[i]
    BY <2>1, <2>3
  <2>5. r = z
    BY <1>3, <2>1, <2>3, <2>4, SeqEqual
  <2>6. z \in Paths
    BY <2>2, PathCases DEF Paths
  <2> QED BY <1>2, <1>4, <2>2, <2>5, <2>6
<1>5. CASE Len(q) = 2
  <2>1. Len(r) = 3
    BY <1>3, <1>5
  <2>2. ASSUME r \in Paths PROVE FALSE
    <3>1. Len(r) \in {1, 2}
      BY <2>2, PathCases
    <3> QED BY <2>1, <3>1
  <2> QED BY <1>2, <1>5, <2>2
<1> QED BY <1>1, <1>4, <1>5

LEMMA RebaseBelow ==
  ASSUME NEW p \in Paths, NEW q \in Paths, Len(p) = 2
  PROVE  Rebase(<<p[1]>>, q, p) = q \o <<0>>
<1>1. p \in Seq(Nat) /\ p[1] \in Nat /\ p[2] = 0
  BY PathCases
<1>2. PICK u : u = SubSeq(p, 2, 2)
  OBVIOUS
<1>3. \A i \in 2..2 : p[i] \in Nat
  BY <1>1
<1>4. u \in Seq(Nat) /\ Len(u) = 1 /\ u[1] = p[2]
  BY <1>2, <1>3, SubSeqProperties
<1>5. <<0>> \in Seq(Nat) /\ Len(<<0>>) = 1 /\ <<0>>[1] = 0
  BY PathShape
<1>6. u = <<0>>
  BY <1>1, <1>4, <1>5, SeqEqual
<1>7. Len(<<p[1]>>) = 1
  BY <1>1, PathShape
<1>8. SubSeq(p, Len(<<p[1]>>) + 1, Len(p)) = u
  BY <1>2, <1>7
<1> QED BY <1>6, <1>8 DEF Rebase

LEMMA UnderFacts ==
  /\ \A p \in Paths : Under(p, p)
  /\ \A p, q, r \in Paths : Under(p, q) /\ Under(q, r) => Under(p, r)
  /\ \A p, q, r \in Paths : Under(p, r) /\ Under(q, r) => Under(p, q) \/ Under(q, p)
<1>1. \A p \in Paths : Under(p, p)
  BY UnderIs
<1>2. ASSUME NEW p \in Paths, NEW q \in Paths, NEW r \in Paths
      PROVE  Under(p, q) /\ Under(q, r) => Under(p, r)
  <2>1. Len(<<q[1]>>) = 1
    BY PathCases, PathShape
  <2>2. Under(p, q) <=> (p = q \/ (p = <<q[1]>> /\ Len(q) = 2))
    BY UnderIs
  <2>3. Under(q, r) => (q = r \/ (q = <<r[1]>> /\ Len(r) = 2))
    BY UnderIs
  <2>4. Len(<<r[1]>>) = 1
    BY PathCases, PathShape
  <2>5. CASE q = r
    BY <2>5
  <2>6. CASE q = <<r[1]>> /\ p = q
    BY <2>6
  <2>7. CASE q = <<r[1]>> /\ p # q
    BY <2>2, <2>4, <2>7
  <2> QED BY <2>3, <2>5, <2>6, <2>7
<1>3. ASSUME NEW p \in Paths, NEW q \in Paths, NEW r \in Paths, Under(p, r), Under(q, r)
      PROVE  Under(p, q) \/ Under(q, p)
  <2>1. p = r \/ p = <<r[1]>>
    BY <1>3, UnderIs
  <2>2. q = r \/ q = <<r[1]>>
    BY <1>3, UnderIs
  <2> QED BY <1>1, <1>3, <2>1, <2>2
<1> QED BY <1>1, <1>2, <1>3

(* The way back of a move is its way. *)
LEMMA RebaseBack ==
  ASSUME NEW src \in Paths, NEW dst \in Paths, NEW q \in Paths, Under(dst, q),
         NEW o, o = Rebase(dst, src, q), o \in Paths
  PROVE  Under(src, o) /\ Rebase(src, dst, o) = q
<1>1. CASE q = dst
  BY <1>1, RebaseTop, UnderIs
<1>2. CASE q # dst
  <2>1. dst = <<q[1]>> /\ Len(q) = 2
    BY <1>2, UnderIs
  <2>2. o = src \o <<0>>
    BY <2>1, RebaseBelow
  <2>3. Len(src) = 1 /\ o = <<src[1], 0>>
    BY <2>2, BelowIsPath
  <2>4. src = <<src[1]>> /\ src[1] \in Nat /\ q = <<q[1], 0>> /\ q[1] \in Nat
    BY <2>1, <2>3, PathCases
  <2>5. Len(o) = 2 /\ o[1] = src[1]
    BY <2>3, <2>4, PathShape
  <2>6. Under(src, o)
    BY <2>4, <2>5, UnderIs
  <2>7. Rebase(src, dst, o) = dst \o <<0>>
    BY <2>4, <2>5, RebaseBelow
  <2>8. Len(dst) = 1 /\ dst[1] = q[1]
    BY <2>1, <2>4, PathShape
  <2>9. dst \o <<0>> = <<dst[1], 0>>
    BY <2>8, BelowIsPath
  <2> QED BY <2>4, <2>6, <2>7, <2>8, <2>9
<1> QED BY <1>1, <1>2

(* The directory of a path of the second level. *)
LEMMA TopOf ==
  ASSUME NEW p \in Paths
  PROVE  /\ <<p[1]>> \in Paths /\ Len(<<p[1]>>) = 1 /\ Under(<<p[1]>>, p)
         /\ Len(p) = 2 => p # <<p[1]>>
         /\ Len(p) # 2 => p = <<p[1]>>
<1>1. p[1] \in Tops /\ p[1] \in Nat /\ Len(p) \in {1, 2} /\ (Len(p) = 1 => p = <<p[1]>>)
  BY PathCases
<1>2. <<p[1]>> \in Paths
  BY <1>1 DEF Paths
<1>3. Len(<<p[1]>>) = 1
  BY <1>1, PathShape
<1>4. Under(<<p[1]>>, p)
  BY <1>1, <1>2, UnderIs
<1> QED BY <1>1, <1>2, <1>3, <1>4

(* Every path that was there has an inode of its own. *)
LEMMA OldIsAnInode ==
  /\ \A p \in Paths : Old(p) \in Nodes /\ Old(p) \in Nat
  /\ \A p, q \in Paths : Old(p) = Old(q) => p = q
<1>1. ASSUME NEW p \in Paths
      PROVE  /\ Old(p) \in Nodes /\ Old(p) \in Nat
             /\ p[1] \in {1, 2} /\ Len(p) \in {1, 2}
  <2>1. Len(p) \in {1, 2} /\ p[1] \in {1, 2}
    BY PathCases DEF Tops
  <2> QED BY <2>1 DEF Old, Nodes
<1>2. ASSUME NEW p \in Paths, NEW q \in Paths, Old(p) = Old(q)
      PROVE  p = q
  <2>1. Len(p) = Len(q) /\ p[1] = q[1]
    BY <1>1, <1>2 DEF Old
  <2> QED BY <1>1, <2>1, PathCases
<1> QED BY <1>1, <1>2

LEMMA NodesAreFiles ==
  /\ NoEntry \notin Nodes /\ Directory \notin Nodes /\ NoEntry # Directory
  /\ \A c \in FileCalls, p \in Paths : c \in Nodes /\ c # Old(p)
<1>1. ASSUME NEW p \in Paths
      PROVE  Old(p) # NoEntry /\ Old(p) # Directory
  <2>1. Len(p) \in {1, 2} /\ p[1] \in {1, 2}
    BY PathCases DEF Tops
  <2> QED BY <2>1 DEF Old, NoEntry, Directory
<1>2. NoEntry # Directory
  BY DEF NoEntry, Directory
<1>3. FileCalls \intersect ({NoEntry, Directory} \union {Old(p) : p \in Paths}) = {}
  BY FilesAssumption
<1> QED BY <1>1, <1>2, <1>3 DEF Nodes

-----------------------------------------------------------------------------
(* The inductive invariant: the shapes. *)

CallPlaces ==
  {"new", "look", "kind", "parents", "open", "source", "rename", "mkdir", "fill",
   "unlink", "children", "rmdir", "ok", "error"}

CallRecord ==
  [op : Ops \union {NoRequest}, at : CallPlaces, reads : Nodes \union {NoEntry},
   writes : Nodes \union {NoEntry}, got : SUBSET Paths]

FilesShape ==
  /\ entry \in [Paths -> {NoEntry, Directory} \union Nodes]
  /\ text \in [Nodes -> Seq(Nodes)]
  /\ call \in [FileCalls -> CallRecord]
  /\ firstTexts \subseteq Paths

(* A call has its request from the start, and opens one file to write. *)
CallGoesOn(c) ==
  /\ call[c].at # "new" => call[c].op \in Ops
  /\ call[c].at \notin {"fill", "ok", "error"} => call[c].writes = NoEntry
  /\ call[c].at = "fill" => call[c].op.do \in {"write", "copy"} /\ call[c].writes \in Nodes
  /\ Stands(c, "write", "ok") => call[c].writes \in Nodes
  /\ call[c].at = "open" => call[c].op.do \in {"write", "copy"}
  /\ call[c].at = "parents" => call[c].op.do \in {"write", "copy", "move", "mkdir"}
  /\ call[c].op.do = "copy" /\ call[c].at \in {"open", "fill"} => call[c].reads \in Nodes
  /\ call[c].at = "children" => call[c].op.flag

TreeHangs == \A p \in Paths : entry[p] # NoEntry => Hangs(p)

OnePlace == \A p, q \in Paths : IsFile(p) /\ entry[p] = entry[q] => p = q

(* An inode with the number of a call is one that this call has made. *)
MadeBy(c) ==
  /\ \A p \in Paths : entry[p] = c => call[c].writes = c
  /\ \A d \in FileCalls : call[d].writes = c => call[c].writes = c

TreeInv ==
  /\ TreeHangs /\ OnePlace
  /\ \A c \in FileCalls : CallGoesOn(c) /\ MadeBy(c)

(* The moves done so far keep the files of S in S... *)
Closed(S) ==
  \A d \in FileCalls, p \in Paths :
    Stands(d, "move", "ok") /\ Under(call[d].op.path, p)
      /\ Rebase(call[d].op.path, call[d].op.dst, p) \in Paths =>
        (p \in S <=> Rebase(call[d].op.path, call[d].op.dst, p) \in S)

(* ... and may have taken a file from p to q, or back. *)
Near(p, q) == \A S \in SUBSET Paths : Closed(S) => (p \in S <=> q \in S)

(* A file is near the place where it was at first, and near the places where
   those who write to it have found it. *)
FilesAreNear ==
  /\ \A p, q \in Paths : entry[q] = Old(p) => Near(p, q)
  /\ \A d \in FileCalls, q \in Paths :
       call[d].writes # NoEntry /\ entry[q] = call[d].writes => Near(Written(d), q)
  /\ \A d \in FileCalls, p \in Paths : call[d].writes = Old(p) => Near(p, Written(d))
  /\ \A d, e \in FileCalls :
       call[d].writes # NoEntry /\ call[d].writes = call[e].writes => Near(Written(d), Written(e))

(* A text is in the file it was written to, and the file in the tree, unless
   a call was asked to give it up. *)
Holds(i, t) == \E k \in DOMAIN text[i] : text[i][k] = t
InTree(i) == \E q \in Paths : entry[q] = i

FirstTextKept(p) == GivenUp(p, Begun) \/ (InTree(Old(p)) /\ Holds(Old(p), Old(p)))

WrittenTextKept(c) ==
  call[c].op.do = "write" /\ call[c].at \in {"fill", "ok"} =>
    \/ GivenUp(call[c].op.path, Begun \ {c})
    \/ InTree(call[c].writes) /\ (call[c].at = "ok" => Holds(call[c].writes, c))

TextsAreKept ==
  /\ \A p \in firstTexts : FirstTextKept(p)
  /\ \A c \in FileCalls : WrittenTextKept(c)

TreeAndTexts == FilesShape /\ TreeInv /\ FilesAreNear /\ TextsAreKept

-----------------------------------------------------------------------------
(* What a request is. *)

LEMMA OpsAre ==
  ASSUME NEW o \in Ops
  PROVE  /\ o.do \in {"read", "list", "stat", "grep", "mkdir", "write", "delete", "copy", "move"}
         /\ o.path \in Paths /\ o.flag \in BOOLEAN
         /\ o.do \in {"copy", "move"} => o.dst \in Paths
         /\ o # NoRequest /\ o.do # "none"
<1>1. /\ o.do \in {"read", "list", "stat", "grep", "mkdir", "write", "delete", "copy", "move"}
      /\ o.path \in Paths /\ o.flag \in BOOLEAN
      /\ o.do \in {"copy", "move"} => o.dst \in Paths
  BY DEF Ops, Looks
<1>2. NoRequest.do = "none"
  BY DEF NoRequest
<1> QED BY <1>1, <1>2

LEMMA WrittenIsAPath ==
  ASSUME FilesShape, NEW c \in FileCalls, call[c].op \in Ops
  PROVE  call[c].op.path \in Paths /\ Written(c) \in Paths /\ Named(c) \subseteq Paths
  BY OpsAre DEF Written, Named

(* Near is an equivalence. *)
LEMMA NearIs ==
  /\ \A p \in Paths : Near(p, p)
  /\ \A p, q \in Paths : Near(p, q) => Near(q, p)
  /\ \A p, q, r \in Paths : Near(p, q) /\ Near(q, r) => Near(p, r)
  BY DEF Near

LEMMA NearAfterMove ==
  ASSUME NEW d \in FileCalls, Stands(d, "move", "ok"), NEW p \in Paths,
         Under(call[d].op.path, p), Rebase(call[d].op.path, call[d].op.dst, p) \in Paths
  PROVE  Near(p, Rebase(call[d].op.path, call[d].op.dst, p))
  BY DEF Near, Closed

(* More moves bring more places near. *)
LEMMA NearStays ==
  ASSUME NEW p, NEW q, Near(p, q),
         \A d \in FileCalls : call[d].at = "ok" => call'[d].at = "ok" /\ call'[d].op = call[d].op
  PROVE  Near(p, q)'
<1>1. SUFFICES ASSUME NEW S \in SUBSET Paths, Closed(S)'
               PROVE  p \in S <=> q \in S
  BY DEF Near
<1>2. Closed(S)
  BY <1>1 DEF Closed, Stands
<1> QED BY <1>2 DEF Near

(* A call that has not ended gives up what is near the place it names. *)
LEMMA NearIsHome ==
  ASSUME NEW p \in Paths, NEW q \in Paths, Near(p, q), NEW d \in FileCalls, call[d].at # "ok"
  PROVE  q \in Homes(p, Begun \ {d})
<1>1. SUFFICES ASSUME NEW S \in SUBSET Paths, MoveWithin(S, Begun \ {d})
               PROVE  p \in S <=> q \in S
  BY DEF Homes
<1>2. Closed(S)
  BY <1>1 DEF Closed, MoveWithin, Stands, Begun
<1> QED BY <1>2 DEF Near

LEMMA GivesUp ==
  ASSUME NEW p \in Paths, NEW q \in Paths, Near(p, q), NEW D, NEW d \in D,
         d \in FileCalls, call[d].at # "ok", AskedToLose(d, q)
  PROVE  GivenUp(p, D)
  BY NearIsHome DEF GivenUp

(* What was given up stays given up. *)
LEMMA GivenUpStays ==
  ASSUME NEW p \in Paths, NEW D, NEW E, GivenUp(p, D), D \subseteq Begun, D \subseteq E,
         \A d \in Begun : d \in Begun' /\ call'[d].op = call[d].op
  PROVE  \E d \in E, q \in Paths : AskedToLose(d, q)' /\ (q \in Homes(p, Begun \ {d}))'
<1>1. PICK d \in D, q \in Paths : AskedToLose(d, q) /\ q \in Homes(p, Begun \ {d})
  BY DEF GivenUp
<1>2. AskedToLose(d, q)'
  BY <1>1 DEF AskedToLose
<1>3. (q \in Homes(p, Begun \ {d}))'
  <2>1. SUFFICES ASSUME NEW S \in SUBSET Paths, MoveWithin(S, Begun \ {d})'
                 PROVE  p \in S <=> q \in S
    BY DEF Homes
  <2>2. MoveWithin(S, Begun \ {d})
    BY <2>1 DEF MoveWithin
  <2> QED BY <1>1, <2>2 DEF Homes
<1> QED BY <1>1, <1>2, <1>3

LEMMA FirstGivenUpStays ==
  ASSUME NEW p \in Paths, GivenUp(p, Begun),
         \A d \in Begun : d \in Begun' /\ call'[d].op = call[d].op
  PROVE  GivenUp(p, Begun)'
<1>1. \E d \in Begun', q \in Paths : AskedToLose(d, q)' /\ (q \in Homes(p, Begun \ {d}))'
  BY GivenUpStays
<1> QED BY <1>1 DEF GivenUp

LEMMA WrittenGivenUpStays ==
  ASSUME FilesShape, NEW c \in Begun, call[c].op \in Ops, GivenUp(call[c].op.path, Begun \ {c}),
         \A d \in Begun : d \in Begun' /\ call'[d].op = call[d].op
  PROVE  GivenUp(call[c].op.path, Begun \ {c})'
<1>1. call[c].op.path \in Paths
  BY OpsAre
<1>2. PICK p : p = call[c].op.path
  OBVIOUS
<1>3. PICK D : D = Begun \ {c}
  OBVIOUS
<1>4. PICK E : E = Begun' \ {c}
  OBVIOUS
<1>5. p \in Paths /\ GivenUp(p, D) /\ D \subseteq Begun /\ D \subseteq E
  BY <1>1, <1>2, <1>3, <1>4
<1>6. \E d \in E, q \in Paths : AskedToLose(d, q)' /\ (q \in Homes(p, Begun \ {d}))'
  BY <1>5, GivenUpStays
<1>7. call'[c].op.path = p
  BY <1>2
<1> QED BY <1>4, <1>6, <1>7 DEF GivenUp

-----------------------------------------------------------------------------
(* What every step of a call c does that has begun and not ended. *)

GoesOn(c) ==
  /\ call' \in [FileCalls -> CallRecord]
  /\ \A d \in FileCalls : d # c => call'[d] = call[d]
  /\ call'[c].op = call[c].op /\ call'[c].at # "new"
  /\ call[c].at \notin {"new", "ok", "error"}

LEMMA GoesOnIs ==
  ASSUME TreeAndTexts, NEW c \in FileCalls, GoesOn(c)
  PROVE  /\ \A d \in FileCalls : call'[d].op = call[d].op
         /\ \A d \in FileCalls : call[d].at = "ok" => call'[d].at = "ok"
         /\ Begun' = Begun /\ c \in Begun
         /\ call[c].op \in Ops /\ call[c].op.path \in Paths /\ Written(c) \in Paths
         /\ \A d \in FileCalls : Written(d)' = Written(d)
<1>1. \A d \in FileCalls : call'[d].op = call[d].op
  BY DEF GoesOn
<1>2. \A d \in FileCalls : call[d].at = "ok" => call'[d].at = "ok"
  BY DEF GoesOn
<1>3. Begun' = Begun /\ c \in Begun
  BY DEF GoesOn, Begun
<1>4. call[c].op \in Ops
  BY <1>3 DEF TreeAndTexts, TreeInv, CallGoesOn, Begun
<1>5. call[c].op.path \in Paths /\ Written(c) \in Paths
  BY <1>4, WrittenIsAPath DEF TreeAndTexts
<1>6. \A d \in FileCalls : Written(d)' = Written(d)
  BY <1>1 DEF Written
<1> QED BY <1>1, <1>2, <1>3, <1>4, <1>5, <1>6

(* A file opened by c: the one at its place, or a new one. *)
OpensTo(c) ==
  /\ call[c].writes = NoEntry /\ call'[c].writes = entry'[Written(c)]
  /\ call'[c].writes \in Nodes
  /\ \/ entry' = entry
     \/ /\ entry[Written(c)] = NoEntry /\ call'[c].writes = c
        /\ entry' = [entry EXCEPT ![Written(c)] = c]

(* Where the files go: each was near before, or is made by c just now. *)
ComeFromNear(c) ==
  \A q \in Paths :
    \/ entry'[q] \notin Nodes
    \/ \E o \in Paths : entry[o] = entry'[q] /\ Near(o, q)'
    \/ OpensTo(c) /\ entry'[q] = c /\ call'[c].writes = c /\ q = Written(c)

LEMMA NearKeeps ==
  ASSUME TreeAndTexts, NEW c \in FileCalls, GoesOn(c), ComeFromNear(c),
         call'[c].writes = call[c].writes \/ OpensTo(c)
  PROVE  FilesAreNear'
<1>1. /\ \A d \in FileCalls : call'[d].op = call[d].op
      /\ \A d \in FileCalls : call[d].at = "ok" => call'[d].at = "ok"
      /\ \A d \in FileCalls : Written(d)' = Written(d)
      /\ Written(c) \in Paths
  BY GoesOnIs
<1>2. \A p, q : Near(p, q) => Near(p, q)'
  BY <1>1, NearStays
<1>3. \A p, q, r \in Paths : Near(p, q)' /\ Near(q, r)' => Near(p, r)'
  BY DEF Near
<1>4. \A p, q \in Paths : Near(p, q)' => Near(q, p)'
  BY DEF Near
<1>5. \A p \in Paths : Near(p, p)'
  BY DEF Near
<1>6. /\ NoEntry \notin Nodes
      /\ \A p \in Paths : Old(p) \in Nodes /\ c # Old(p) /\ c # NoEntry
  BY OldIsAnInode, NodesAreFiles
<1>7. /\ \A p, q \in Paths : entry[q] = Old(p) => Near(p, q)
      /\ \A d \in FileCalls, q \in Paths :
           call[d].writes # NoEntry /\ entry[q] = call[d].writes => Near(Written(d), q)
      /\ \A d \in FileCalls, p \in Paths : call[d].writes = Old(p) => Near(p, Written(d))
      /\ \A d, e \in FileCalls :
           call[d].writes # NoEntry /\ call[d].writes = call[e].writes => Near(Written(d), Written(e))
  BY DEF TreeAndTexts, FilesAreNear
(* The new file is nobody else's. *)
<1>8. ASSUME OpensTo(c), call'[c].writes = c
      PROVE  /\ \A p \in Paths : entry[p] # c
             /\ \A d \in FileCalls : call[d].writes # c
             /\ \A d \in FileCalls : d # c => call'[d].writes # c
  <2>1. call[c].writes # c
    BY <1>6, <1>8, NodesAreFiles DEF OpensTo
  <2>2. MadeBy(c)
    BY DEF TreeAndTexts, TreeInv
  <2> QED BY <2>1, <2>2 DEF MadeBy, GoesOn
(* What c writes to was at its place, or is new. *)
<1>9. \/ call'[c].writes = call[c].writes
      \/ call'[c].writes \in Nodes /\ entry[Written(c)] = call'[c].writes
      \/ OpensTo(c) /\ call'[c].writes = c /\ call'[c].writes \in Nodes
  BY DEF OpensTo
<1>10. \A d \in FileCalls : d # c => call'[d].writes = call[d].writes
  BY DEF GoesOn
(* First: a file that was there. *)
<1>11. ASSUME NEW p \in Paths, NEW q \in Paths, entry'[q] = Old(p)
       PROVE  Near(p, q)'
  <2>1. PICK o \in Paths : entry[o] = Old(p) /\ Near(o, q)'
    BY <1>6, <1>11 DEF ComeFromNear
  <2>2. Near(p, o)'
    BY <1>2, <1>7, <2>1
  <2> QED BY <1>3, <2>1, <2>2
(* Second: a file that is written to. *)
<1>12. ASSUME NEW d \in FileCalls, call'[d].writes # NoEntry
       PROVE  Written(d) \in Paths /\ call'[d].writes \in Nodes
  <2>1. CallGoesOn(d) /\ FilesShape
    BY DEF TreeAndTexts, TreeInv
  <2>2. call[d].at # "new" \/ d = c
    BY <1>10, <1>12, <2>1 DEF CallGoesOn
  <2>3. Written(d) \in Paths
    BY <1>1, <2>1, <2>2, WrittenIsAPath DEF CallGoesOn
  <2>4. call'[d].writes \in Nodes \union {NoEntry}
    BY DEF GoesOn, CallRecord
  <2> QED BY <1>12, <2>3, <2>4
<1>13. ASSUME NEW d \in FileCalls, NEW q \in Paths, NEW w \in Paths, w = Written(d),
              call'[d].writes # NoEntry, entry'[q] = call'[d].writes
       PROVE  Near(w, q)'
  <2>1. CASE \E o \in Paths : entry[o] = entry'[q] /\ Near(o, q)'
    <3>1. PICK o \in Paths : entry[o] = entry'[q] /\ Near(o, q)'
      BY <2>1
    <3>2. CASE call'[d].writes = call[d].writes
      <4>1. Near(w, o)
        BY <1>7, <1>13, <3>1, <3>2
      <4>2. Near(w, o)'
        BY <1>2, <4>1
      <4> QED BY <1>3, <3>1, <4>2
    <3>3. CASE d = c /\ entry[Written(c)] = call'[c].writes /\ call'[c].writes \in Nodes
      <4>1. o = w
        BY <1>13, <3>1, <3>3 DEF TreeAndTexts, TreeInv, OnePlace, IsFile
      <4> QED BY <3>1, <4>1
    <3>4. CASE d = c /\ OpensTo(c) /\ call'[c].writes = c
      BY <1>8, <1>13, <3>1, <3>4
    <3> QED BY <1>9, <1>10, <3>2, <3>3, <3>4
  <2>2. CASE OpensTo(c) /\ entry'[q] = c /\ call'[c].writes = c /\ q = Written(c)
    <3>1. d = c
      BY <1>8, <1>13, <2>2
    <3> QED BY <1>5, <1>13, <2>2, <3>1
  <2> QED BY <1>12, <1>13, <2>1, <2>2 DEF ComeFromNear
(* Third: a file that was there is written to. *)
<1>14. ASSUME NEW d \in FileCalls, NEW p \in Paths, NEW w \in Paths, w = Written(d), call'[d].writes = Old(p)
       PROVE  Near(p, w)'
  <2>1. CASE call'[d].writes = call[d].writes
    <3>1. Near(p, w)
      BY <1>7, <1>14, <2>1
    <3> QED BY <1>2, <3>1
  <2>2. CASE d = c /\ entry[Written(c)] = call'[c].writes
    <3>1. Near(p, w)
      BY <1>7, <1>14, <2>2
    <3> QED BY <1>2, <3>1
  <2>3. CASE d = c /\ call'[c].writes = c
    BY <1>6, <1>14, <2>3
  <2> QED BY <1>9, <1>10, <2>1, <2>2, <2>3
(* Fourth: two calls write to a file. *)
<1>15. ASSUME NEW e \in FileCalls, NEW v \in Paths, v = Written(e), e # c,
              NEW w \in Paths, w = Written(c),
              call'[c].writes # NoEntry, call'[c].writes = call'[e].writes
       PROVE  Near(v, w)'
  <2>1. call'[e].writes = call[e].writes
    BY <1>10, <1>15
  <2>2. CASE call'[c].writes = call[c].writes
    <3>1. Near(v, w)
      BY <1>7, <1>15, <2>1, <2>2
    <3> QED BY <1>2, <3>1
  <2>3. CASE entry[Written(c)] = call'[c].writes
    <3>1. Near(v, w)
      BY <1>7, <1>15, <2>1, <2>3
    <3> QED BY <1>2, <3>1
  <2>4. CASE OpensTo(c) /\ call'[c].writes = c
    BY <1>8, <1>15, <2>4
  <2> QED BY <1>9, <2>2, <2>3, <2>4
<1>16. ASSUME NEW d \in FileCalls, NEW e \in FileCalls, NEW w \in Paths, w = Written(d),
              NEW v \in Paths, v = Written(e),
              call'[d].writes # NoEntry, call'[d].writes = call'[e].writes
       PROVE  Near(w, v)'
  <2>1. CASE d = e
    BY <1>5, <1>16, <2>1
  <2>2. CASE d = c /\ e # c
    <3>1. Near(v, w)'
      BY <1>15, <1>16, <2>2
    <3> QED BY <1>4, <3>1
  <2>3. CASE e = c /\ d # c
    BY <1>15, <1>16, <2>3
  <2>4. CASE d # c /\ e # c
    <3>1. Near(w, v)
      BY <1>7, <1>10, <1>16, <2>4
    <3> QED BY <1>2, <3>1
  <2> QED BY <2>1, <2>2, <2>3, <2>4
<1>17. ASSUME NEW d \in FileCalls, NEW q \in Paths, call'[d].writes # NoEntry, entry'[q] = call'[d].writes
       PROVE  Near(Written(d), q)'
  <2>1. PICK w \in Paths : w = Written(d)
    BY <1>12, <1>17
  <2>2. Near(w, q)' /\ Written(d)' = w
    BY <1>1, <1>13, <1>17, <2>1
  <2> QED BY <2>2 DEF Near
<1>18. ASSUME NEW d \in FileCalls, NEW p \in Paths, call'[d].writes = Old(p)
       PROVE  Near(p, Written(d))'
  <2>1. PICK w \in Paths : w = Written(d)
    BY <1>6, <1>12, <1>18
  <2>2. Near(p, w)' /\ Written(d)' = w
    BY <1>1, <1>14, <1>18, <2>1
  <2> QED BY <2>2 DEF Near
<1>19. ASSUME NEW d \in FileCalls, NEW e \in FileCalls,
              call'[d].writes # NoEntry, call'[d].writes = call'[e].writes
       PROVE  Near(Written(d), Written(e))'
  <2>1. PICK w \in Paths : w = Written(d)
    BY <1>12, <1>19
  <2>2. PICK v \in Paths : v = Written(e)
    BY <1>12, <1>19
  <2>3. Near(w, v)' /\ Written(d)' = w /\ Written(e)' = v
    BY <1>1, <1>16, <1>19, <2>1, <2>2
  <2> QED BY <2>3 DEF Near
<1> QED BY <1>11, <1>17, <1>18, <1>19 DEF FilesAreNear

-----------------------------------------------------------------------------
(* The texts: what a step may lose. *)

KeepsFiles(c) ==
  \A o \in Paths : entry[o] \in Nodes => (\E q \in Paths : entry'[q] = entry[o]) \/ AskedToLose(c, o)

KeepsTexts(c) ==
  \A i \in Nodes, t \in Nodes :
    Holds(i, t) =>
      \/ Holds(i, t)'
      \/ AskedToLose(c, Written(c)) /\ (call[c].writes = i \/ entry[Written(c)] = i)
      \/ i = c /\ call[c].writes = NoEntry

LEMMA TextsKeep ==
  ASSUME TreeAndTexts, NEW c \in FileCalls, GoesOn(c), KeepsFiles(c), KeepsTexts(c),
         WrittenTextKept(c)', UNCHANGED firstTexts
  PROVE  TextsAreKept'
<1>1. /\ \A d \in Begun : d \in Begun' /\ call'[d].op = call[d].op
      /\ \A d \in FileCalls : Written(d)' = Written(d)
      /\ Written(c) \in Paths /\ c \in Begun /\ call[c].at # "ok"
      /\ FilesShape
  <2>1. Begun' = Begun /\ c \in Begun /\ \A d \in FileCalls : call'[d].op = call[d].op
    BY GoesOnIs
  <2>2. Begun \subseteq FileCalls
    BY DEF Begun
  <2> QED BY <2>1, <2>2, GoesOnIs DEF GoesOn, TreeAndTexts
<1>2. /\ \A p, q \in Paths : entry[q] = Old(p) => Near(p, q)
      /\ \A d \in FileCalls, q \in Paths :
           call[d].writes # NoEntry /\ entry[q] = call[d].writes => Near(Written(d), q)
      /\ \A d \in FileCalls, p \in Paths : call[d].writes = Old(p) => Near(p, Written(d))
      /\ \A d, e \in FileCalls :
           call[d].writes # NoEntry /\ call[d].writes = call[e].writes => Near(Written(d), Written(e))
  BY DEF TreeAndTexts, FilesAreNear
<1>3. /\ NoEntry \notin Nodes /\ c \in Nodes
      /\ \A p \in Paths : Old(p) \in Nodes /\ c # Old(p)
  BY OldIsAnInode, NodesAreFiles DEF Nodes
<1>4. ASSUME NEW p \in firstTexts
      PROVE  FirstTextKept(p)'
  <2>1. p \in Paths /\ FirstTextKept(p)
    BY <1>1, <1>4 DEF FilesShape, TreeAndTexts, TextsAreKept
  <2>2. CASE GivenUp(p, Begun)
    BY <1>1, <2>1, <2>2, FirstGivenUpStays DEF FirstTextKept
  <2>3. CASE \E q \in Paths : Near(p, q) /\ AskedToLose(c, q)
    <3>1. GivenUp(p, Begun)
      BY <1>1, <2>1, <2>3, GivesUp
    <3> QED BY <2>2, <3>1
  <2>4. CASE InTree(Old(p)) /\ Holds(Old(p), Old(p)) /\ ~\E q \in Paths : Near(p, q) /\ AskedToLose(c, q)
    <3>1. PICK q \in Paths : entry[q] = Old(p)
      BY <2>4 DEF InTree
    <3>2. ~AskedToLose(c, q)
      BY <1>2, <2>1, <2>4, <3>1
    <3>3. \E r \in Paths : entry'[r] = entry[q]
      BY <1>3, <2>1, <3>1, <3>2 DEF KeepsFiles
    <3>4. InTree(Old(p))'
      BY <3>1, <3>3 DEF InTree
    <3>5. ~(AskedToLose(c, Written(c)) /\ (call[c].writes = Old(p) \/ entry[Written(c)] = Old(p)))
      BY <1>1, <1>2, <2>1, <2>4
    <3>6. Holds(Old(p), Old(p))'
      BY <1>3, <2>1, <2>4, <3>5 DEF KeepsTexts
    <3> QED BY <3>4, <3>6 DEF FirstTextKept
  <2> QED BY <2>1, <2>2, <2>3, <2>4 DEF FirstTextKept
<1>5. ASSUME NEW d \in FileCalls, d # c
      PROVE  WrittenTextKept(d)'
  <2>1. SUFFICES ASSUME call[d].op.do = "write", call[d].at \in {"fill", "ok"}
                 PROVE  WrittenTextKept(d)'
    BY <1>5 DEF WrittenTextKept, GoesOn
  <2>2. /\ WrittenTextKept(d) /\ CallGoesOn(d) /\ MadeBy(c)
        /\ call'[d] = call[d] /\ d \in Begun
    BY <1>5, <2>1 DEF TreeAndTexts, TextsAreKept, TreeInv, GoesOn, Begun
  <2>3. /\ call[d].op \in Ops /\ call[d].writes \in Nodes /\ call[d].writes # NoEntry
        /\ call[d].op.path \in Paths /\ Written(d) = call[d].op.path /\ d \in Nodes
    BY <1>3, <2>1, <2>2, OpsAre DEF CallGoesOn, Written, Stands, Nodes
  <2>4. CASE GivenUp(call[d].op.path, Begun \ {d})
    <3>1. GivenUp(call[d].op.path, Begun \ {d})'
      BY <1>1, <2>2, <2>3, <2>4, WrittenGivenUpStays
    <3> QED BY <3>1 DEF WrittenTextKept
  <2>5. CASE \E q \in Paths : Near(call[d].op.path, q) /\ AskedToLose(c, q)
    <3>1. c \in Begun \ {d}
      BY <1>1, <1>5
    <3>2. GivenUp(call[d].op.path, Begun \ {d})
      BY <1>1, <2>3, <2>5, <3>1, GivesUp
    <3> QED BY <2>4, <3>2
  <2>6. CASE /\ InTree(call[d].writes) /\ (call[d].at = "ok" => Holds(call[d].writes, d))
             /\ ~\E q \in Paths : Near(call[d].op.path, q) /\ AskedToLose(c, q)
    <3>1. PICK q \in Paths : entry[q] = call[d].writes
      BY <2>6 DEF InTree
    <3>2. ~AskedToLose(c, q)
      BY <1>2, <2>3, <2>6, <3>1
    <3>3. PICK i \in Nodes : i = call[d].writes
      BY <2>3
    <3>4. \E r \in Paths : entry'[r] = entry[q]
      BY <2>3, <3>1, <3>2 DEF KeepsFiles
    <3>5. InTree(i)'
      BY <3>1, <3>3, <3>4 DEF InTree
    <3>6. ~(AskedToLose(c, Written(c)) /\ (call[c].writes = i \/ entry[Written(c)] = i))
      BY <1>1, <1>2, <2>3, <2>6, <3>3
    <3>7. ~(i = c /\ call[c].writes = NoEntry)
      BY <1>3, <2>2, <3>3 DEF MadeBy
    <3>8. call[d].at = "ok" => Holds(i, d)'
      BY <2>3, <2>6, <3>3, <3>6, <3>7 DEF KeepsTexts
    <3>9. call'[d].writes = i
      BY <2>2, <3>3
    <3> QED BY <2>2, <3>5, <3>8, <3>9 DEF WrittenTextKept, InTree, Holds
  <2> QED BY <2>1, <2>2, <2>4, <2>5, <2>6 DEF WrittenTextKept
<1> QED BY <1>4, <1>5 DEF TextsAreKept

-----------------------------------------------------------------------------
(* Every step but opening a file and moving one leaves each file at its place
   or gives it up. *)

FilesSettled(c) ==
  \A q \in Paths :
    \/ entry'[q] = entry[q]
    \/ entry'[q] \notin Nodes /\ (entry[q] \notin Nodes \/ AskedToLose(c, q))

LEMMA SettledStep ==
  ASSUME TreeAndTexts, NEW c \in FileCalls, GoesOn(c), FilesSettled(c), UNCHANGED firstTexts,
         entry' \in [Paths -> {NoEntry, Directory} \union Nodes], text' \in [Nodes -> Seq(Nodes)],
         TreeHangs', call'[c].writes = call[c].writes, CallGoesOn(c)',
         KeepsTexts(c), WrittenTextKept(c)'
  PROVE  TreeAndTexts'
<1>1. FilesShape'
  BY DEF TreeAndTexts, FilesShape, GoesOn
<1>2. c \in Nodes /\ FileCalls \subseteq Nodes
  BY DEF Nodes
<1>3. OnePlace'
  BY DEF TreeAndTexts, TreeInv, OnePlace, FilesSettled, IsFile
<1>4. \A d \in FileCalls : call'[d].writes = call[d].writes
  BY DEF GoesOn
<1>5. \A d \in FileCalls : CallGoesOn(d)'
  BY DEF TreeAndTexts, TreeInv, GoesOn, CallGoesOn, Stands
<1>6. \A d \in FileCalls : MadeBy(d)'
  BY <1>2, <1>4 DEF TreeAndTexts, TreeInv, MadeBy, FilesSettled
<1>7. TreeInv'
  BY <1>3, <1>5, <1>6 DEF TreeInv
<1>8. \A q \in Paths : Near(q, q)'
  BY DEF Near
<1>9. ComeFromNear(c)
  BY <1>8 DEF ComeFromNear, FilesSettled
<1>10. FilesAreNear'
  BY <1>9, NearKeeps
<1>11. KeepsFiles(c)
  BY DEF KeepsFiles, FilesSettled
<1>12. TextsAreKept'
  BY <1>11, TextsKeep
<1> QED BY <1>1, <1>7, <1>10, <1>12 DEF TreeAndTexts

LEMMA TextsStay ==
  ASSUME NEW c \in FileCalls, UNCHANGED text,
         call'[c].at # "fill", call'[c].at = "ok" => call'[c].op.do # "write"
  PROVE  KeepsTexts(c) /\ WrittenTextKept(c)'
<1>1. \A i \in Nodes, t \in Nodes : Holds(i, t) => Holds(i, t)'
  BY DEF Holds
<1> QED BY <1>1 DEF KeepsTexts, WrittenTextKept

-----------------------------------------------------------------------------
(* Steps of a call that has begun. *)

Runs(c) == call[c].at \notin {"new", "ok", "error"}

LEMMA MovesIs ==
  ASSUME FilesShape, NEW c \in FileCalls, Runs(c), NEW a \in CallPlaces \ {"new"}, Moves(c, a)
  PROVE  /\ GoesOn(c) /\ call'[c].at = a /\ call'[c].op = call[c].op
         /\ call'[c].writes = call[c].writes /\ call'[c].reads = call[c].reads
         /\ call'[c].got = call[c].got
<1>1. call[c] \in CallRecord /\ call \in [FileCalls -> CallRecord]
  BY DEF FilesShape
<1>2. PICK r : r = [call[c] EXCEPT !.at = a]
  OBVIOUS
<1>3. r \in CallRecord /\ r.at = a /\ r.op = call[c].op /\ r.writes = call[c].writes
      /\ r.reads = call[c].reads /\ r.got = call[c].got
  BY <1>1, <1>2 DEF CallRecord
<1>4. call' = [call EXCEPT ![c] = r]
  BY <1>2 DEF Moves
<1>5. call' \in [FileCalls -> CallRecord] /\ call'[c] = r /\ \A d \in FileCalls : d # c => call'[d] = call[d]
  BY <1>1, <1>3, <1>4
<1> QED BY <1>3, <1>5 DEF GoesOn, Runs

LEMMA OpensIs ==
  ASSUME FilesShape, NEW c \in FileCalls, Runs(c), NEW i \in Nodes,
         call' = [call EXCEPT ![c].at = "fill", ![c].writes = i]
  PROVE  /\ GoesOn(c) /\ call'[c].at = "fill" /\ call'[c].op = call[c].op
         /\ call'[c].writes = i /\ call'[c].reads = call[c].reads
<1>1. call[c] \in CallRecord /\ call \in [FileCalls -> CallRecord]
  BY DEF FilesShape
<1>2. PICK r : r = [call[c] EXCEPT !.at = "fill", !.writes = i]
  OBVIOUS
<1>3. r \in CallRecord /\ r.at = "fill" /\ r.op = call[c].op /\ r.writes = i /\ r.reads = call[c].reads
  BY <1>1, <1>2 DEF CallRecord, CallPlaces
<1>4. call' = [call EXCEPT ![c] = r]
  BY <1>2
<1>5. call' \in [FileCalls -> CallRecord] /\ call'[c] = r /\ \A d \in FileCalls : d # c => call'[d] = call[d]
  BY <1>1, <1>3, <1>4
<1> QED BY <1>3, <1>5 DEF GoesOn, Runs

LEMMA SourceIs ==
  ASSUME FilesShape, NEW c \in FileCalls, Runs(c), NEW i \in Nodes,
         call' = [call EXCEPT ![c].at = "open", ![c].reads = i]
  PROVE  /\ GoesOn(c) /\ call'[c].at = "open" /\ call'[c].op = call[c].op
         /\ call'[c].writes = call[c].writes /\ call'[c].reads = i
<1>1. call[c] \in CallRecord /\ call \in [FileCalls -> CallRecord]
  BY DEF FilesShape
<1>2. PICK r : r = [call[c] EXCEPT !.at = "open", !.reads = i]
  OBVIOUS
<1>3. r \in CallRecord /\ r.at = "open" /\ r.op = call[c].op /\ r.writes = call[c].writes /\ r.reads = i
  BY <1>1, <1>2 DEF CallRecord, CallPlaces
<1>4. call' = [call EXCEPT ![c] = r]
  BY <1>2
<1>5. call' \in [FileCalls -> CallRecord] /\ call'[c] = r /\ \A d \in FileCalls : d # c => call'[d] = call[d]
  BY <1>1, <1>3, <1>4
<1> QED BY <1>3, <1>5 DEF GoesOn, Runs

LEMMA LooksIs ==
  ASSUME FilesShape, NEW c \in FileCalls, Runs(c), NEW found \in SUBSET Paths, NEW a \in {"ok", "error"},
         call' = [call EXCEPT ![c].got = found, ![c].at = a]
  PROVE  /\ GoesOn(c) /\ call'[c].at = a /\ call'[c].op = call[c].op
         /\ call'[c].writes = call[c].writes /\ call'[c].reads = call[c].reads
         /\ call'[c].got = found
<1>1. call[c] \in CallRecord /\ call \in [FileCalls -> CallRecord]
  BY DEF FilesShape
<1>2. PICK r : r = [call[c] EXCEPT !.got = found, !.at = a]
  OBVIOUS
<1>3. r \in CallRecord /\ r.at = a /\ r.op = call[c].op /\ r.writes = call[c].writes
      /\ r.reads = call[c].reads /\ r.got = found
  BY <1>1, <1>2 DEF CallRecord, CallPlaces
<1>4. call' = [call EXCEPT ![c] = r]
  BY <1>2
<1>5. call' \in [FileCalls -> CallRecord] /\ call'[c] = r /\ \A d \in FileCalls : d # c => call'[d] = call[d]
  BY <1>1, <1>3, <1>4
<1> QED BY <1>3, <1>5 DEF GoesOn, Runs

LEMMA QuietStep ==
  ASSUME TreeAndTexts, NEW c \in FileCalls, GoesOn(c), UNCHANGED <<entry, text, firstTexts>>,
         call'[c].writes = call[c].writes, CallGoesOn(c)',
         call'[c].at # "fill", call'[c].at = "ok" => call'[c].op.do # "write"
  PROVE  TreeAndTexts'
<1>1. KeepsTexts(c) /\ WrittenTextKept(c)'
  BY TextsStay
<1>2. FilesSettled(c)
  BY DEF FilesSettled
<1>3. /\ entry' \in [Paths -> {NoEntry, Directory} \union Nodes]
      /\ text' \in [Nodes -> Seq(Nodes)]
  BY DEF TreeAndTexts, FilesShape
<1>4. TreeHangs'
  BY DEF TreeAndTexts, TreeInv, TreeHangs, Hangs
<1> QED BY <1>1, <1>2, <1>3, <1>4, SettledStep

LEMMA RefusedStep ==
  ASSUME TreeAndTexts, NEW c \in FileCalls, Runs(c), Refused(c), UNCHANGED firstTexts
  PROVE  TreeAndTexts'
<1>1. FilesShape /\ CallGoesOn(c)
  BY DEF TreeAndTexts, TreeInv
<1>2. /\ GoesOn(c) /\ call'[c].at = "error" /\ call'[c].op = call[c].op
      /\ call'[c].writes = call[c].writes
  BY <1>1, MovesIs DEF Refused, CallPlaces
<1>3. CallGoesOn(c)'
  BY <1>1, <1>2 DEF CallGoesOn, Runs, Stands
<1> QED BY <1>2, <1>3, QuietStep DEF Refused

LEMMA LooksStep ==
  ASSUME TreeAndTexts, NEW c \in FileCalls, UNCHANGED firstTexts,
         FsRead(c) \/ FsList(c) \/ FsStat(c) \/ FsGrep(c)
  PROVE  TreeAndTexts'
<1>1. FilesShape /\ CallGoesOn(c)
  BY DEF TreeAndTexts, TreeInv
<1>2. call[c].at = "look" /\ call[c].op.do \in Looks
  BY DEF FsRead, FsList, FsStat, FsGrep, LooksAt, Stands, Looks
<1>3. call[c].op \in Ops /\ call[c].op.path \in Paths
  BY <1>1, <1>2, OpsAre DEF CallGoesOn
<1>4. UNCHANGED <<entry, text>> /\ \E found \in SUBSET Paths, a \in {"ok", "error"} :
        call' = [call EXCEPT ![c].got = found, ![c].at = a]
  BY <1>3 DEF FsRead, FsList, FsStat, FsGrep, LooksAt, Hits, Beneath
<1>5. PICK found \in SUBSET Paths, a \in {"ok", "error"} :
        call' = [call EXCEPT ![c].got = found, ![c].at = a]
  BY <1>4
<1>6. /\ GoesOn(c) /\ call'[c].at = a /\ call'[c].op = call[c].op
      /\ call'[c].writes = call[c].writes
  BY <1>1, <1>2, <1>5, LooksIs DEF Runs
<1>7. CallGoesOn(c)'
  BY <1>1, <1>2, <1>3, <1>6 DEF CallGoesOn, Stands, Looks
<1> QED BY <1>2, <1>4, <1>6, <1>7, QuietStep DEF Looks

LEMMA DeleteLooksStep ==
  ASSUME TreeAndTexts, NEW c \in FileCalls, UNCHANGED firstTexts, DeleteLooks(c)
  PROVE  TreeAndTexts'
<1>1. FilesShape /\ CallGoesOn(c)
  BY DEF TreeAndTexts, TreeInv
<1>2. call[c].at = "kind" /\ call[c].op.do = "delete" /\ UNCHANGED <<entry, text>>
  BY DEF DeleteLooks, Stands
<1>3. \E a \in {"error", "unlink", "children", "rmdir"} :
        Moves(c, a) /\ (a = "children" => call[c].op.flag)
  BY DEF DeleteLooks
<1>4. PICK a \in {"error", "unlink", "children", "rmdir"} :
        Moves(c, a) /\ (a = "children" => call[c].op.flag)
  BY <1>3
<1>5. /\ GoesOn(c) /\ call'[c].at = a /\ call'[c].op = call[c].op
      /\ call'[c].writes = call[c].writes
  BY <1>1, <1>2, <1>4, MovesIs DEF Runs, CallPlaces
<1>6. CallGoesOn(c)'
  BY <1>1, <1>2, <1>4, <1>5 DEF CallGoesOn, Stands
<1> QED BY <1>2, <1>5, <1>6, QuietStep

LEMMA CopyOpensSourceStep ==
  ASSUME TreeAndTexts, NEW c \in FileCalls, UNCHANGED firstTexts, CopyOpensSource(c)
  PROVE  TreeAndTexts'
<1>1. FilesShape /\ CallGoesOn(c)
  BY DEF TreeAndTexts, TreeInv
<1>2. call[c].at = "source" /\ call[c].op.do = "copy" /\ Runs(c)
  BY DEF CopyOpensSource, Stands, Runs
<1>3. CASE Refused(c)
  BY <1>2, <1>3, RefusedStep
<1>4. CASE ~Refused(c)
  <2>1. /\ call' = [call EXCEPT ![c].at = "open", ![c].reads = entry[call[c].op.path]]
        /\ UNCHANGED <<entry, text>> /\ IsFile(call[c].op.path)
    BY <1>4 DEF CopyOpensSource
  <2>2. PICK i \in Nodes : i = entry[call[c].op.path]
    BY <2>1 DEF IsFile
  <2>3. /\ GoesOn(c) /\ call'[c].at = "open" /\ call'[c].op = call[c].op
        /\ call'[c].writes = call[c].writes /\ call'[c].reads = i
    BY <1>1, <1>2, <2>1, <2>2, SourceIs
  <2>4. CallGoesOn(c)'
    BY <1>1, <1>2, <2>3 DEF CallGoesOn, Stands
  <2> QED BY <2>1, <2>3, <2>4, QuietStep
<1> QED BY <1>3, <1>4

-----------------------------------------------------------------------------
(* Steps on directories. *)

LEMMA MakeParentsStep ==
  ASSUME TreeAndTexts, NEW c \in FileCalls, UNCHANGED firstTexts, MakeParents(c)
  PROVE  TreeAndTexts'
<1>1. FilesShape /\ CallGoesOn(c) /\ TreeHangs
  BY DEF TreeAndTexts, TreeInv
<1>2. call[c].at = "parents" /\ Runs(c) /\ UNCHANGED text
  BY DEF MakeParents, Runs
<1>3. /\ call[c].op \in Ops /\ Written(c) \in Paths
      /\ call[c].op.do \in {"write", "copy", "move", "mkdir"}
  BY <1>1, <1>2, WrittenIsAPath DEF CallGoesOn
<1>4. PICK t \in Paths : t = <<Written(c)[1]>> /\ Len(t) = 1
  BY <1>3, TopOf
<1>5. \E a \in {"open", "source", "rename", "mkdir", "error"} :
        /\ Moves(c, a) /\ (a = "open" => call[c].op.do = "write")
        /\ (entry' = entry \/ (entry[t] = NoEntry /\ entry' = [entry EXCEPT ![t] = Directory]))
  <2>1. PICK next : next = CASE call[c].op.do = "write" -> "open" [] call[c].op.do = "copy" -> "source"
                             [] call[c].op.do = "move" -> "rename" [] OTHER -> "mkdir"
    OBVIOUS
  <2>2. next \in {"open", "source", "rename", "mkdir"} /\ (next = "open" => call[c].op.do = "write")
    BY <1>3, <2>1
  <2>3. \/ Moves(c, next) /\ UNCHANGED entry
        \/ entry[t] = NoEntry /\ Moves(c, next) /\ entry' = [entry EXCEPT ![t] = Directory]
        \/ Moves(c, "error") /\ UNCHANGED entry
    BY <1>4, <2>1 DEF MakeParents
  <2> QED BY <2>2, <2>3
<1>6. PICK a \in {"open", "source", "rename", "mkdir", "error"} :
        /\ Moves(c, a) /\ (a = "open" => call[c].op.do = "write")
        /\ (entry' = entry \/ (entry[t] = NoEntry /\ entry' = [entry EXCEPT ![t] = Directory]))
  BY <1>5
<1>7. /\ GoesOn(c) /\ call'[c].at = a /\ call'[c].op = call[c].op
      /\ call'[c].writes = call[c].writes
  BY <1>1, <1>2, <1>6, MovesIs DEF CallPlaces
<1>8. CallGoesOn(c)'
  BY <1>1, <1>2, <1>3, <1>6, <1>7 DEF CallGoesOn, Stands
<1>9. KeepsTexts(c) /\ WrittenTextKept(c)'
  BY <1>2, <1>7, TextsStay
<1>10. /\ entry' \in [Paths -> {NoEntry, Directory} \union Nodes]
       /\ text' \in [Nodes -> Seq(Nodes)]
  BY <1>1, <1>2, <1>6 DEF FilesShape
<1>11. FilesSettled(c)
  <2>1. NoEntry \notin Nodes /\ Directory \notin Nodes
    BY NodesAreFiles
  <2>2. CASE entry' = entry
    BY <2>2 DEF FilesSettled
  <2>3. CASE entry[t] = NoEntry /\ entry' = [entry EXCEPT ![t] = Directory]
    BY <1>1, <2>1, <2>3 DEF FilesSettled, FilesShape
  <2> QED BY <1>6, <2>2, <2>3
<1>12. ASSUME NEW q \in Paths, entry'[q] # NoEntry
       PROVE  Hangs(q)'
  <2>1. CASE entry' = entry
    BY <1>1, <1>12, <2>1 DEF TreeHangs, Hangs
  <2>2. CASE entry[t] = NoEntry /\ entry' = [entry EXCEPT ![t] = Directory]
    <3>1. PICK u \in Paths : u = <<q[1]>>
      BY TopOf
    <3>2. entry[u] = Directory => entry'[u] = Directory
      BY <1>1, <2>2 DEF FilesShape
    <3>3. q # t => entry[q] # NoEntry
      BY <1>1, <1>12, <2>2 DEF FilesShape
    <3> QED BY <1>1, <1>4, <3>1, <3>2, <3>3 DEF TreeHangs, Hangs
  <2> QED BY <1>6, <2>1, <2>2
<1>13. TreeHangs'
  BY <1>12 DEF TreeHangs
<1> QED BY <1>7, <1>8, <1>9, <1>10, <1>11, <1>13, SettledStep

LEMMA MakeDirectoryStep ==
  ASSUME TreeAndTexts, NEW c \in FileCalls, UNCHANGED firstTexts, MakeDirectory(c)
  PROVE  TreeAndTexts'
<1>1. FilesShape /\ CallGoesOn(c) /\ TreeHangs
  BY DEF TreeAndTexts, TreeInv
<1>2. call[c].at = "mkdir" /\ call[c].op.do = "mkdir" /\ Runs(c)
  BY DEF MakeDirectory, Stands, Runs
<1>3. PICK p \in Paths : p = Written(c)
  BY <1>1, <1>2, WrittenIsAPath DEF CallGoesOn
<1>4. CASE Refused(c)
  BY <1>2, <1>4, RefusedStep
<1>5. CASE ~Refused(c)
  <2>1. /\ ~IsFile(p) /\ Hangs(p) /\ UNCHANGED text
        /\ Moves(c, "ok") /\ entry' = [entry EXCEPT ![p] = Directory]
    BY <1>3, <1>5 DEF MakeDirectory
  <2>2. /\ GoesOn(c) /\ call'[c].at = "ok" /\ call'[c].op = call[c].op
        /\ call'[c].writes = call[c].writes
    BY <1>1, <1>2, <2>1, MovesIs DEF CallPlaces
  <2>3. CallGoesOn(c)'
    BY <1>1, <1>2, <2>2 DEF CallGoesOn, Stands
  <2>4. KeepsTexts(c) /\ WrittenTextKept(c)'
    BY <1>2, <2>1, <2>2, TextsStay
  <2>5. /\ entry' \in [Paths -> {NoEntry, Directory} \union Nodes]
        /\ text' \in [Nodes -> Seq(Nodes)]
    BY <1>1, <2>1 DEF FilesShape
  <2>6. FilesSettled(c)
    BY <1>1, <2>1, NodesAreFiles DEF FilesSettled, FilesShape, IsFile
  <2>7. TreeHangs'
    BY <1>1, <2>1 DEF TreeHangs, Hangs, FilesShape
  <2> QED BY <2>2, <2>3, <2>4, <2>5, <2>6, <2>7, SettledStep
<1> QED BY <1>4, <1>5

LEMMA DeleteDirectoryStep ==
  ASSUME TreeAndTexts, NEW c \in FileCalls, UNCHANGED firstTexts, DeleteDirectory(c)
  PROVE  TreeAndTexts'
<1>1. FilesShape /\ CallGoesOn(c) /\ TreeHangs
  BY DEF TreeAndTexts, TreeInv
<1>2. call[c].at = "rmdir" /\ call[c].op.do = "delete" /\ Runs(c)
  BY DEF DeleteDirectory, Stands, Runs
<1>3. PICK p \in Paths : p = call[c].op.path
  BY <1>1, <1>2, WrittenIsAPath DEF CallGoesOn
<1>4. CASE Refused(c)
  BY <1>2, <1>4, RefusedStep
<1>5. CASE ~Refused(c)
  <2>1. /\ IsDir(p) /\ \A q \in Beneath(p) : entry[q] = NoEntry
        /\ UNCHANGED text /\ Moves(c, "ok") /\ entry' = [entry EXCEPT ![p] = NoEntry]
    BY <1>3, <1>5 DEF DeleteDirectory
  <2>2. /\ GoesOn(c) /\ call'[c].at = "ok" /\ call'[c].op = call[c].op
        /\ call'[c].writes = call[c].writes
    BY <1>1, <1>2, <2>1, MovesIs DEF CallPlaces
  <2>3. CallGoesOn(c)'
    BY <1>1, <1>2, <2>2 DEF CallGoesOn, Stands
  <2>4. KeepsTexts(c) /\ WrittenTextKept(c)'
    BY <1>2, <2>1, <2>2, TextsStay
  <2>5. /\ entry' \in [Paths -> {NoEntry, Directory} \union Nodes]
        /\ text' \in [Nodes -> Seq(Nodes)]
    BY <1>1, <2>1 DEF FilesShape
  <2>6. FilesSettled(c)
    BY <1>1, <2>1, NodesAreFiles DEF FilesSettled, FilesShape, IsDir
  <2>7. ASSUME NEW q \in Paths, entry'[q] # NoEntry
        PROVE  Hangs(q)'
    <3>1. q # p /\ entry[q] # NoEntry /\ Hangs(q)
      BY <1>1, <2>1, <2>7 DEF TreeHangs, FilesShape
    <3>2. PICK t \in Paths : t = <<q[1]>> /\ Under(t, q)
      BY TopOf
    <3>3. t # p
      BY <2>1, <3>1, <3>2 DEF Beneath
    <3>4. entry'[t] = entry[t]
      BY <1>1, <2>1, <3>2, <3>3 DEF FilesShape
    <3> QED BY <3>1, <3>2, <3>4 DEF Hangs
  <2>8. TreeHangs'
    BY <2>7 DEF TreeHangs
  <2> QED BY <2>2, <2>3, <2>4, <2>5, <2>6, <2>8, SettledStep
<1> QED BY <1>4, <1>5

LEMMA DeleteFileStep ==
  ASSUME TreeAndTexts, NEW c \in FileCalls, UNCHANGED firstTexts, DeleteFile(c)
  PROVE  TreeAndTexts'
<1>1. FilesShape /\ CallGoesOn(c) /\ TreeHangs
  BY DEF TreeAndTexts, TreeInv
<1>2. call[c].at = "unlink" /\ call[c].op.do = "delete" /\ Runs(c)
  BY DEF DeleteFile, Stands, Runs
<1>3. PICK p \in Paths : p = call[c].op.path
  BY <1>1, <1>2, WrittenIsAPath DEF CallGoesOn
<1>4. CASE Refused(c)
  BY <1>2, <1>4, RefusedStep
<1>5. CASE ~Refused(c)
  <2>1. /\ IsFile(p) /\ UNCHANGED text /\ Moves(c, "ok") /\ entry' = [entry EXCEPT ![p] = NoEntry]
    BY <1>3, <1>5 DEF DeleteFile
  <2>2. /\ GoesOn(c) /\ call'[c].at = "ok" /\ call'[c].op = call[c].op
        /\ call'[c].writes = call[c].writes
    BY <1>1, <1>2, <2>1, MovesIs DEF CallPlaces
  <2>3. CallGoesOn(c)'
    BY <1>1, <1>2, <2>2 DEF CallGoesOn, Stands
  <2>4. KeepsTexts(c) /\ WrittenTextKept(c)'
    BY <1>2, <2>1, <2>2, TextsStay
  <2>5. /\ entry' \in [Paths -> {NoEntry, Directory} \union Nodes]
        /\ text' \in [Nodes -> Seq(Nodes)]
    BY <1>1, <2>1 DEF FilesShape
  <2>6. AskedToLose(c, p)
    BY <1>2, <1>3, UnderFacts DEF AskedToLose
  <2>7. FilesSettled(c)
    BY <1>1, <2>1, <2>6, NodesAreFiles DEF FilesSettled, FilesShape
  <2>8. ASSUME NEW q \in Paths, entry'[q] # NoEntry
        PROVE  Hangs(q)'
    <3>1. q # p /\ entry[q] # NoEntry /\ Hangs(q)
      BY <1>1, <2>1, <2>8 DEF TreeHangs, FilesShape
    <3>2. PICK t \in Paths : t = <<q[1]>>
      BY TopOf
    <3>3. entry[t] = Directory => t # p
      BY <2>1, NodesAreFiles DEF IsFile
    <3>4. entry[t] = Directory => entry'[t] = Directory
      BY <1>1, <2>1, <3>2, <3>3 DEF FilesShape
    <3> QED BY <3>1, <3>2, <3>4 DEF Hangs
  <2>9. TreeHangs'
    BY <2>8 DEF TreeHangs
  <2> QED BY <2>2, <2>3, <2>4, <2>5, <2>7, <2>9, SettledStep
<1> QED BY <1>4, <1>5

LEMMA DeleteChildrenStep ==
  ASSUME TreeAndTexts, NEW c \in FileCalls, UNCHANGED firstTexts, DeleteChildren(c)
  PROVE  TreeAndTexts'
<1>1. FilesShape /\ CallGoesOn(c) /\ TreeHangs
  BY DEF TreeAndTexts, TreeInv
<1>2. call[c].at = "children" /\ call[c].op.do = "delete" /\ Runs(c)
  BY DEF DeleteChildren, Stands, Runs
<1>3. PICK p \in Paths : p = call[c].op.path
  BY <1>1, <1>2, WrittenIsAPath DEF CallGoesOn
<1>4. CASE Refused(c)
  BY <1>2, <1>4, RefusedStep
<1>5. CASE ~Refused(c)
  <2>1. /\ UNCHANGED text /\ Moves(c, "rmdir")
        /\ entry' = [q \in Paths |-> IF q \in Beneath(p) THEN NoEntry ELSE entry[q]]
    BY <1>3, <1>5 DEF DeleteChildren
  <2>2. /\ GoesOn(c) /\ call'[c].at = "rmdir" /\ call'[c].op = call[c].op
        /\ call'[c].writes = call[c].writes
    BY <1>1, <1>2, <2>1, MovesIs DEF CallPlaces
  <2>3. CallGoesOn(c)'
    BY <1>1, <1>2, <2>2 DEF CallGoesOn, Stands
  <2>4. KeepsTexts(c) /\ WrittenTextKept(c)'
    BY <1>2, <2>1, <2>2, TextsStay
  <2>5. /\ entry' \in [Paths -> {NoEntry, Directory} \union Nodes]
        /\ text' \in [Nodes -> Seq(Nodes)]
    BY <1>1, <2>1 DEF FilesShape
  <2>6. \A q \in Beneath(p) : AskedToLose(c, q)
    BY <1>1, <1>2, <1>3 DEF AskedToLose, Beneath, CallGoesOn
  <2>7. FilesSettled(c)
    BY <2>1, <2>6, NodesAreFiles DEF FilesSettled
  <2>8. ASSUME NEW q \in Paths, entry'[q] # NoEntry
        PROVE  Hangs(q)'
    <3>1. entry[q] # NoEntry /\ Hangs(q)
      BY <1>1, <2>1, <2>8 DEF TreeHangs
    <3>2. PICK t \in Paths : t = <<q[1]>> /\ Len(t) = 1
      BY TopOf
    <3>3. t \notin Beneath(p)
      <4>1. Under(p, t) <=> (p = t \/ (p = <<t[1]>> /\ Len(t) = 2))
        BY UnderIs
      <4> QED BY <3>2, <4>1 DEF Beneath
    <3>4. entry'[t] = entry[t]
      BY <2>1, <3>2, <3>3
    <3> QED BY <3>1, <3>2, <3>4 DEF Hangs
  <2>9. TreeHangs'
    BY <2>8 DEF TreeHangs
  <2> QED BY <2>2, <2>3, <2>4, <2>5, <2>7, <2>9, SettledStep
<1> QED BY <1>4, <1>5

-----------------------------------------------------------------------------
(* Steps that write. *)

LEMMA OverIs ==
  ASSUME NEW T, NEW a \in Seq(T), NEW b \in Seq(T)
  PROVE  /\ Over(a, b) \in Seq(T) /\ Len(Over(a, b)) >= Len(a)
         /\ \A k \in 1..Len(a) : Over(a, b)[k] = a[k]
         /\ b = <<>> => Over(a, b) = a
<1>1. Len(a) \in Nat /\ Len(b) \in Nat /\ Len(a) + 1 \in Int /\ Len(b) \in Int
  BY LenProperties
<1>2. PICK r : r = SubSeq(b, Len(a) + 1, Len(b))
  OBVIOUS
<1>3. \A k \in (Len(a) + 1)..Len(b) : b[k] \in T
  <2>1. ASSUME NEW k \in (Len(a) + 1)..Len(b)
        PROVE  k \in 1..Len(b)
    BY <1>1
  <2> QED BY <2>1, ElementOfSeq
<1>4. r \in Seq(T)
  BY <1>1, <1>2, <1>3, SubSeqProperties
<1>5. Over(a, b) = a \o r
  BY <1>2 DEF Over
<1>6. Len(r) \in Nat
  BY <1>4, LenProperties
<1>7. /\ a \o r \in Seq(T) /\ Len(a \o r) = Len(a) + Len(r)
      /\ \A k \in 1..Len(a) + Len(r) : (a \o r)[k] = IF k <= Len(a) THEN a[k] ELSE r[k - Len(a)]
  BY <1>4, ConcatProperties
<1>8. b = <<>> => r = <<>>
  BY <1>1, <1>2, SubSeqEmpty, EmptySeq
<1>9. r = <<>> => a \o r = a
  BY ConcatEmptySeq
<1> QED BY <1>1, <1>5, <1>6, <1>7, <1>8, <1>9

LEMMA OpensStep ==
  ASSUME TreeAndTexts, NEW c \in FileCalls, UNCHANGED firstTexts, call[c].at = "open",
         call[c].op.do \in {"write", "copy"}, NEW e \in BOOLEAN,
         e => AskedToLose(c, Written(c)), Opens(c, Written(c), e)
  PROVE  TreeAndTexts'
<1>1. /\ FilesShape /\ CallGoesOn(c) /\ TreeHangs /\ OnePlace /\ Runs(c)
      /\ \A d \in FileCalls : MadeBy(d)
      /\ \A d \in FileCalls : CallGoesOn(d)
  BY DEF TreeAndTexts, TreeInv, Runs
<1>2. PICK p \in Paths : p = Written(c)
  BY <1>1, WrittenIsAPath DEF CallGoesOn
<1>3. CASE Refused(c)
  BY <1>1, <1>3, RefusedStep
<1>4. CASE ~Refused(c)
  <2>1. c \in Nodes /\ FileCalls \subseteq Nodes /\ NoEntry \notin Nodes /\ Directory \notin Nodes
    BY NodesAreFiles DEF Nodes
  <2>2. ~IsDir(p) /\ Hangs(p)
    BY <1>2, <1>4 DEF Opens
  <2>3. PICK i \in Nodes : i = IF IsFile(p) THEN entry[p] ELSE c
    BY <2>1 DEF IsFile
  <2>4. /\ entry' = [entry EXCEPT ![p] = i]
        /\ text' = IF e THEN [text EXCEPT ![i] = <<>>] ELSE text
        /\ call' = [call EXCEPT ![c].at = "fill", ![c].writes = i]
    BY <1>2, <1>4, <2>2, <2>3 DEF Opens
  <2>5. /\ GoesOn(c) /\ call'[c].at = "fill" /\ call'[c].op = call[c].op
        /\ call'[c].writes = i /\ call'[c].reads = call[c].reads
    BY <1>1, <2>4, OpensIs
  <2>6. call[c].writes = NoEntry /\ call[c].writes # c
    BY <1>1, <2>1 DEF CallGoesOn
  <2>7. /\ \A q \in Paths : entry[q] # c
        /\ \A d \in FileCalls : call[d].writes # c
    BY <1>1, <2>6 DEF MadeBy
  <2>8. \/ IsFile(p) /\ i = entry[p] /\ entry' = entry
        \/ entry[p] = NoEntry /\ i = c
    BY <1>1, <2>2, <2>3, <2>4 DEF IsFile, IsDir, FilesShape
  <2>9. \A q \in Paths : entry'[q] = IF q = p THEN i ELSE entry[q]
    BY <1>1, <2>4 DEF FilesShape
  <2>10. entry' \in [Paths -> {NoEntry, Directory} \union Nodes]
    BY <1>1, <2>4 DEF FilesShape
  <2>11. text' \in [Nodes -> Seq(Nodes)]
    <3>1. <<>> \in Seq(Nodes)
      BY EmptySeq
    <3> QED BY <1>1, <2>4, <3>1 DEF FilesShape
  <2>12. FilesShape'
    BY <1>1, <2>5, <2>10, <2>11 DEF FilesShape, GoesOn
  <2>13. TreeHangs'
    <3>1. ASSUME NEW q \in Paths, entry'[q] # NoEntry
          PROVE  Hangs(q)'
      <4>1. PICK t \in Paths : t = <<q[1]>>
        BY TopOf
      <4>2. Hangs(q)
        BY <1>1, <2>2, <2>9, <3>1 DEF TreeHangs
      <4>3. entry[t] = Directory => entry'[t] = Directory
        BY <2>2, <2>9 DEF IsDir
      <4> QED BY <4>1, <4>2, <4>3 DEF Hangs
    <3> QED BY <3>1 DEF TreeHangs
  <2>14. OnePlace'
    <3>1. CASE entry' = entry
      BY <1>1, <3>1 DEF OnePlace, IsFile
    <3>2. CASE i = c
      BY <1>1, <2>7, <2>9, <3>2 DEF OnePlace, IsFile
    <3> QED BY <2>8, <3>1, <3>2
  <2>15. \A d \in FileCalls : CallGoesOn(d)'
    <3>1. CallGoesOn(c)'
      BY <1>1, <2>5 DEF CallGoesOn, Stands
    <3> QED BY <1>1, <2>5, <3>1 DEF GoesOn, CallGoesOn, Stands
  <2>16. ASSUME NEW d \in FileCalls
         PROVE  MadeBy(d)'
    <3>1. /\ \A f \in FileCalls : f # c => call'[f].writes = call[f].writes
          /\ call'[c].writes = i
      BY <2>5 DEF GoesOn
    <3>2. MadeBy(d)
      BY <1>1
    <3>3. CASE d = c
      BY <2>7, <2>8, <2>9, <3>1, <3>3 DEF MadeBy
    <3>4. CASE d # c
      BY <2>8, <2>9, <3>1, <3>2, <3>4 DEF MadeBy
    <3> QED BY <3>3, <3>4
  <2>17. TreeInv'
    BY <2>13, <2>14, <2>15, <2>16 DEF TreeInv
  <2>18. OpensTo(c)
    BY <1>2, <2>4, <2>5, <2>6, <2>8, <2>9 DEF OpensTo
  <2>19. ComeFromNear(c)
    <3>1. \A q \in Paths : Near(q, q)'
      BY DEF Near
    <3> QED BY <1>2, <2>5, <2>8, <2>9, <2>18, <3>1 DEF ComeFromNear
  <2>20. FilesAreNear'
    BY <2>5, <2>18, <2>19, NearKeeps
  <2>21. KeepsFiles(c)
    BY <2>1, <2>8, <2>9 DEF KeepsFiles
  <2>22. KeepsTexts(c)
    <3>1. ASSUME NEW j \in Nodes, NEW t \in Nodes, Holds(j, t), j # i \/ ~e
          PROVE  Holds(j, t)'
      <4>1. text'[j] = text[j]
        BY <1>1, <2>4, <3>1 DEF FilesShape
      <4> QED BY <3>1, <4>1 DEF Holds
    <3>2. e => \/ AskedToLose(c, Written(c)) /\ entry[Written(c)] = i
               \/ i = c /\ call[c].writes = NoEntry
      BY <1>2, <2>6, <2>8
    <3> QED BY <3>1, <3>2 DEF KeepsTexts
  <2>23. WrittenTextKept(c)'
    <3>1. entry'[p] = call'[c].writes
      BY <2>5, <2>9
    <3> QED BY <2>5, <3>1 DEF WrittenTextKept, InTree
  <2>24. TextsAreKept'
    BY <2>5, <2>21, <2>22, <2>23, TextsKeep
  <2> QED BY <2>12, <2>17, <2>20, <2>24 DEF TreeAndTexts
<1> QED BY <1>3, <1>4

LEMMA WriteOpensStep ==
  ASSUME TreeAndTexts, NEW c \in FileCalls, UNCHANGED firstTexts, WriteOpens(c)
  PROVE  TreeAndTexts'
<1>1. CallGoesOn(c) /\ call[c].at = "open" /\ call[c].op.do = "write"
  BY DEF TreeAndTexts, TreeInv, WriteOpens, Stands
<1>2. Written(c) = call[c].op.path /\ call[c].op \in Ops
  BY <1>1 DEF Written, CallGoesOn
<1>3. PICK e \in BOOLEAN : e = ~call[c].op.flag
  BY <1>2, OpsAre
<1>4. Opens(c, Written(c), e) /\ (e => AskedToLose(c, Written(c)))
  BY <1>1, <1>2, <1>3 DEF WriteOpens, AskedToLose
<1> QED BY <1>1, <1>4, OpensStep

LEMMA CopyOpensStep ==
  ASSUME TreeAndTexts, NEW c \in FileCalls, UNCHANGED firstTexts, CopyOpens(c)
  PROVE  TreeAndTexts'
<1>1. call[c].at = "open" /\ call[c].op.do = "copy"
  BY DEF CopyOpens, Stands
<1>2. Written(c) = call[c].op.dst
  BY <1>1 DEF Written
<1>3. Opens(c, Written(c), TRUE) /\ AskedToLose(c, Written(c))
  BY <1>1, <1>2 DEF CopyOpens, AskedToLose
<1> QED BY <1>1, <1>3, OpensStep

(* A call fills the file that it has opened. *)
LEMMA FillsStep ==
  ASSUME TreeAndTexts, NEW c \in FileCalls, UNCHANGED <<firstTexts, entry>>, call[c].at = "fill",
         NEW new \in Seq(Nodes), text' = [text EXCEPT ![call[c].writes] = new],
         \/ AskedToLose(c, Written(c))
         \/ \A t \in Nodes : Holds(call[c].writes, t) => \E k \in DOMAIN new : new[k] = t,
         call[c].op.do = "write" => \E k \in DOMAIN new : new[k] = c,
         Moves(c, "ok")
  PROVE  TreeAndTexts'
<1>1. FilesShape /\ CallGoesOn(c) /\ Runs(c) /\ WrittenTextKept(c) /\ TreeHangs
  BY DEF TreeAndTexts, TreeInv, Runs, TextsAreKept
<1>2. /\ GoesOn(c) /\ call'[c].at = "ok" /\ call'[c].op = call[c].op
      /\ call'[c].writes = call[c].writes
  BY <1>1, MovesIs DEF CallPlaces
<1>3. PICK i \in Nodes : i = call[c].writes
  BY <1>1 DEF CallGoesOn
<1>4. text' = [text EXCEPT ![i] = new] /\ text' \in [Nodes -> Seq(Nodes)] /\ text'[i] = new
  BY <1>1, <1>3 DEF FilesShape
<1>5. CallGoesOn(c)'
  BY <1>1, <1>2 DEF CallGoesOn, Stands
<1>6. TreeHangs' /\ FilesSettled(c)
  BY <1>1 DEF TreeHangs, Hangs, FilesSettled
<1>7. KeepsTexts(c)
  <2>1. ASSUME NEW j \in Nodes, NEW t \in Nodes, Holds(j, t), j # i
        PROVE  Holds(j, t)'
    <3>1. text'[j] = text[j]
      BY <1>1, <1>4, <2>1 DEF FilesShape
    <3> QED BY <2>1, <3>1 DEF Holds
  <2>2. ASSUME NEW t \in Nodes, Holds(i, t), ~AskedToLose(c, Written(c))
        PROVE  Holds(i, t)'
    BY <1>3, <1>4, <2>2 DEF Holds
  <2> QED BY <1>3, <2>1, <2>2 DEF KeepsTexts
<1>8. WrittenTextKept(c)'
  <2>1. SUFFICES ASSUME call[c].op.do = "write"
                 PROVE  WrittenTextKept(c)'
    BY <1>2 DEF WrittenTextKept
  <2>2. CASE GivenUp(call[c].op.path, Begun \ {c})
    <3>1. /\ c \in Begun /\ call[c].op \in Ops
          /\ \A d \in Begun : d \in Begun' /\ call'[d].op = call[d].op
      <4>1. Begun \subseteq FileCalls
        BY DEF Begun
      <4> QED BY <1>2, <4>1, GoesOnIs
    <3>2. GivenUp(call[c].op.path, Begun \ {c})'
      BY <1>1, <2>2, <3>1, WrittenGivenUpStays
    <3> QED BY <3>2 DEF WrittenTextKept
  <2>3. CASE InTree(i)
    <3>1. InTree(i)'
      BY <2>3 DEF InTree
    <3>2. Holds(i, c)'
      BY <1>4, <2>1 DEF Holds
    <3>3. call'[c].writes = i
      BY <1>2, <1>3
    <3> QED BY <3>1, <3>2, <3>3 DEF WrittenTextKept, InTree, Holds
  <2> QED BY <1>1, <1>3, <2>1, <2>2, <2>3 DEF WrittenTextKept
<1>9. entry' \in [Paths -> {NoEntry, Directory} \union Nodes]
  BY <1>1 DEF FilesShape
<1> QED BY <1>2, <1>4, <1>5, <1>6, <1>7, <1>8, <1>9, SettledStep

LEMMA WriteFillsStep ==
  ASSUME TreeAndTexts, NEW c \in FileCalls, UNCHANGED firstTexts, WriteFills(c)
  PROVE  TreeAndTexts'
<1>1. /\ FilesShape /\ CallGoesOn(c) /\ Runs(c)
      /\ call[c].at = "fill" /\ call[c].op.do = "write"
  BY DEF TreeAndTexts, TreeInv, Runs, WriteFills, Stands
<1>2. CASE Refused(c)
  BY <1>1, <1>2, RefusedStep
<1>3. CASE ~Refused(c)
  <2>1. PICK i \in Nodes : i = call[c].writes
    BY <1>1 DEF CallGoesOn
  <2>2. PICK old \in Seq(Nodes) : old = text[i]
    BY <1>1 DEF FilesShape
  <2>3. PICK new : new = IF call[c].op.flag THEN Append(old, c) ELSE Over(<<c>>, old)
    OBVIOUS
  <2>4. text' = [text EXCEPT ![call[c].writes] = new] /\ Moves(c, "ok") /\ entry' = entry
    BY <1>3, <2>1, <2>2, <2>3 DEF WriteFills
  <2>5. c \in Nodes /\ <<c>> \in Seq(Nodes) /\ Len(<<c>>) = 1 /\ <<c>>[1] = c /\ Len(old) \in Nat
    BY NodesAreFiles, LenProperties DEF Nodes
  <2>6. Written(c) = call[c].op.path
    BY <1>1 DEF Written
  <2>7. CASE call[c].op.flag
    <3>1. /\ new \in Seq(Nodes) /\ Len(new) = Len(old) + 1 /\ new[Len(old) + 1] = c
          /\ \A k \in 1..Len(old) : new[k] = old[k]
      BY <2>3, <2>5, <2>7, AppendProperties
    <3>2. DOMAIN new = 1..Len(old) + 1 /\ DOMAIN old = 1..Len(old)
      BY <2>2, <3>1, LenProperties
    <3>3. \E k \in DOMAIN new : new[k] = c
      BY <2>5, <3>1, <3>2
    <3>4. DOMAIN old \subseteq DOMAIN new
      BY <2>5, <3>2
    <3>5. \A t \in Nodes : Holds(i, t) => \E k \in DOMAIN new : new[k] = t
      BY <2>2, <3>1, <3>2, <3>4 DEF Holds
    <3> QED BY <1>1, <2>1, <2>4, <3>1, <3>3, <3>5, FillsStep
  <2>8. CASE ~call[c].op.flag
    <3>1. new \in Seq(Nodes) /\ Len(new) >= 1 /\ new[1] = c
      <4>1. PICK a \in Seq(Nodes) : a = <<c>>
        BY <2>5
      <4>2. Len(a) = 1 /\ a[1] = c
        BY <2>5, <4>1
      <4>3. new = Over(a, old)
        BY <2>3, <2>8, <4>1
      <4>4. new \in Seq(Nodes) /\ Len(new) >= Len(a) /\ \A k \in 1..Len(a) : new[k] = a[k]
        BY <4>3, OverIs
      <4> QED BY <4>2, <4>4
    <3>2. DOMAIN new = 1..Len(new) /\ Len(new) \in Nat
      BY <3>1, LenProperties
    <3>3. \E k \in DOMAIN new : new[k] = c
      BY <3>1, <3>2
    <3>4. AskedToLose(c, Written(c))
      BY <1>1, <2>6, <2>8 DEF AskedToLose
    <3> QED BY <1>1, <2>4, <3>1, <3>3, <3>4, FillsStep
  <2> QED BY <2>7, <2>8
<1> QED BY <1>2, <1>3

LEMMA CopyFillsStep ==
  ASSUME TreeAndTexts, NEW c \in FileCalls, UNCHANGED firstTexts, CopyFills(c)
  PROVE  TreeAndTexts'
<1>1. /\ FilesShape /\ CallGoesOn(c) /\ Runs(c)
      /\ call[c].at = "fill" /\ call[c].op.do = "copy"
  BY DEF TreeAndTexts, TreeInv, Runs, CopyFills, Stands
<1>2. CASE Refused(c)
  BY <1>1, <1>2, RefusedStep
<1>3. CASE ~Refused(c)
  <2>1. PICK i \in Nodes, j \in Nodes : i = call[c].writes /\ j = call[c].reads
    BY <1>1 DEF CallGoesOn, Stands
  <2>2. text[i] \in Seq(Nodes) /\ text[j] \in Seq(Nodes)
    BY <1>1 DEF FilesShape
  <2>3. PICK new \in Seq(Nodes) : new = Over(text[j], text[i])
    BY <2>2, OverIs
  <2>4. text' = [text EXCEPT ![call[c].writes] = new] /\ Moves(c, "ok") /\ entry' = entry
    BY <1>3, <2>1, <2>3 DEF CopyFills
  <2>5. AskedToLose(c, Written(c))
    BY <1>1 DEF AskedToLose, Written
  <2> QED BY <1>1, <2>4, <2>5, FillsStep
<1> QED BY <1>2, <1>3

-----------------------------------------------------------------------------
(* A move. *)

LEMMA RenameStep ==
  ASSUME TreeAndTexts, NEW c \in FileCalls, UNCHANGED firstTexts, Rename(c)
  PROVE  TreeAndTexts'
<1>1. /\ FilesShape /\ CallGoesOn(c) /\ TreeHangs /\ OnePlace /\ Runs(c)
      /\ \A d \in FileCalls : MadeBy(d)
      /\ \A d \in FileCalls : CallGoesOn(d)
      /\ call[c].at = "rename" /\ call[c].op.do = "move"
  BY DEF TreeAndTexts, TreeInv, Runs, Rename, Stands
<1>2. /\ NoEntry \notin Nodes /\ Directory \notin Nodes /\ NoEntry # Directory
      /\ FileCalls \subseteq Nodes
  BY NodesAreFiles DEF Nodes
<1>3. PICK src \in Paths, dst \in Paths : src = call[c].op.path /\ dst = call[c].op.dst
  <2>1. call[c].op \in Ops
    BY <1>1 DEF CallGoesOn
  <2> QED BY <1>1, <2>1, OpsAre
<1>4. CASE Refused(c)
  BY <1>1, <1>4, RefusedStep
<1>5. CASE ~Refused(c)
  <2>1. /\ Moves(c, "ok") /\ UNCHANGED text /\ MayRename(src, dst)
        /\ \A q \in Paths : Under(src, q) /\ entry[q] # NoEntry => Rebase(src, dst, q) \in Paths
        /\ entry' = [q \in Paths |->
                IF src = dst THEN entry[q]
                ELSE IF Under(dst, q)
                     THEN LET old == Rebase(dst, src, q)
                          IN IF old \in Paths THEN entry[old] ELSE NoEntry
                     ELSE IF q \in {r \in Paths : Under(src, r)} THEN NoEntry ELSE entry[q]]
    BY <1>3, <1>5 DEF Rename
  <2>2. /\ GoesOn(c) /\ call'[c].at = "ok" /\ call'[c].op = call[c].op
        /\ call'[c].writes = call[c].writes
    BY <1>1, <2>1, MovesIs DEF CallPlaces
  <2>3. CallGoesOn(c)'
    BY <1>1, <2>2 DEF CallGoesOn, Stands
  <2>4. CASE src = dst
    <3>1. entry' = entry
      BY <1>1, <2>1, <2>4 DEF FilesShape
    <3> QED BY <1>1, <2>1, <2>2, <2>3, <3>1, QuietStep
  <2>5. CASE src # dst
    <3>1. \A q \in Paths : entry'[q] =
            IF Under(dst, q)
            THEN IF Rebase(dst, src, q) \in Paths THEN entry[Rebase(dst, src, q)] ELSE NoEntry
            ELSE IF Under(src, q) THEN NoEntry ELSE entry[q]
      BY <2>1, <2>5
    <3>2. /\ entry[src] # NoEntry /\ Hangs(dst) /\ ~Under(src, dst)
          /\ \/ entry[dst] = NoEntry
             \/ IsFile(src) /\ IsFile(dst)
             \/ IsDir(src) /\ IsDir(dst) /\ \A q \in Beneath(dst) : entry[q] = NoEntry
      BY <2>1, <2>5 DEF MayRename
    (* Where the new entries come from. *)
    <3>3. ASSUME NEW q \in Paths, entry'[q] # NoEntry
          PROVE  \/ Under(dst, q) /\ \E o \in Paths :
                      o = Rebase(dst, src, q) /\ Under(src, o) /\ Rebase(src, dst, o) = q /\ entry[o] = entry'[q]
                 \/ ~Under(dst, q) /\ ~Under(src, q) /\ entry'[q] = entry[q]
      <4>1. CASE Under(dst, q)
        <5>1. PICK o : o = Rebase(dst, src, q)
          OBVIOUS
        <5>2. o \in Paths /\ entry[o] = entry'[q]
          BY <3>1, <3>3, <4>1, <5>1
        <5>3. Under(src, o) /\ Rebase(src, dst, o) = q
          BY <4>1, <5>1, <5>2, RebaseBack
        <5> QED BY <4>1, <5>1, <5>2, <5>3
      <4>2. CASE ~Under(dst, q)
        BY <3>1, <3>3, <4>2
      <4> QED BY <4>1, <4>2
    (* Where the old entries go. *)
    <3>4. ASSUME NEW o \in Paths, Under(src, o), entry[o] # NoEntry
          PROVE  \E q \in Paths : entry'[q] = entry[o]
      <4>1. PICK q \in Paths : q = Rebase(src, dst, o)
        BY <2>1, <3>4
      <4>2. Under(dst, q) /\ Rebase(dst, src, q) = o
        BY <3>4, <4>1, RebaseBack
      <4>3. entry'[q] = entry[o]
        BY <3>1, <4>2
      <4> QED BY <4>3
    <3>5. entry' \in [Paths -> {NoEntry, Directory} \union Nodes]
      <4>1. \A q \in Paths : entry'[q] \in {NoEntry, Directory} \union Nodes
        BY <1>1, <3>1 DEF FilesShape
      <4>2. entry' = [q \in Paths |-> entry'[q]]
        BY <2>1
      <4> QED BY <4>1, <4>2
    <3>6. FilesShape'
      BY <1>1, <2>1, <2>2, <3>5 DEF FilesShape, GoesOn
    <3>7. OnePlace'
      <4>1. ASSUME NEW p \in Paths, NEW q \in Paths, entry'[p] \in Nodes, entry'[p] = entry'[q]
            PROVE  p = q
        <5>1. entry'[p] # NoEntry /\ entry'[q] # NoEntry
          BY <1>2, <4>1
        <5>2. \A a, b \in Paths : entry[a] \in Nodes /\ entry[a] = entry[b] => a = b
          BY <1>1 DEF OnePlace, IsFile
        <5> QED BY <3>3, <4>1, <5>1, <5>2
      <4> QED BY <4>1 DEF OnePlace, IsFile
    <3>8. \A d \in FileCalls : MadeBy(d)'
      <4>1. ASSUME NEW d \in FileCalls
            PROVE  MadeBy(d)'
        <5>1. \A f \in FileCalls : call'[f].writes = call[f].writes
          BY <2>2 DEF GoesOn
        <5>2. MadeBy(d) /\ d # NoEntry
          BY <1>1, <1>2
        <5>3. ASSUME NEW q \in Paths, entry'[q] = d
              PROVE  call[d].writes = d
          <6>1. \E o \in Paths : entry[o] = d
            BY <3>3, <5>2, <5>3
          <6> QED BY <5>2, <6>1 DEF MadeBy
        <5> QED BY <5>1, <5>2, <5>3 DEF MadeBy
      <4> QED BY <4>1
    <3>9. \A d \in FileCalls : CallGoesOn(d)'
      BY <1>1, <2>2, <2>3 DEF GoesOn, CallGoesOn, Stands
    <3>10. ASSUME NEW q \in Paths, entry'[q] # NoEntry
           PROVE  Hangs(q)'
      <4>1. PICK t \in Paths : t = <<q[1]>> /\ Len(t) = 1 /\ Under(t, q)
        BY TopOf
      <4>2. Len(q) = 2 => q = <<q[1], 0>>
        BY PathCases
      <4>3. SUFFICES ASSUME Len(q) # 1
                     PROVE  entry'[t] = Directory
        BY <4>1 DEF Hangs
      <4>4. Len(q) = 2 /\ q # t
        BY <4>3, PathCases, TopOf, <4>1
      <4>5. CASE ~Under(dst, q) /\ ~Under(src, q) /\ entry'[q] = entry[q]
        <5>1. entry[t] = Directory
          BY <1>1, <3>10, <4>1, <4>3, <4>5 DEF TreeHangs, Hangs
        <5>2. ~Under(dst, t) /\ ~Under(src, t)
          BY <4>1, <4>5, UnderFacts
        <5> QED BY <3>1, <5>1, <5>2
      <4>6. CASE q = dst
        <5>1. entry[t] = Directory
          BY <3>2, <4>1, <4>3, <4>6 DEF Hangs
        <5>2. ~Under(dst, t)
          BY <4>1, <4>4, <4>6, UnderIs
        <5>3. ~Under(src, t)
          BY <3>2, <4>1, <4>6, UnderFacts
        <5> QED BY <3>1, <5>1, <5>2, <5>3
      <4>7. CASE Under(dst, q) /\ q # dst
        <5>1. dst = t
          BY <4>1, <4>7, UnderIs
        <5>2. PICK o \in Paths : /\ o = Rebase(dst, src, q) /\ Under(src, o) /\ Rebase(src, dst, o) = q
                                 /\ entry[o] = entry'[q]
          BY <3>3, <3>10, <4>7
        <5>3. o # src
          BY <4>7, <5>2, RebaseTop
        <5>4. src = <<o[1]>> /\ Len(o) = 2
          BY <5>2, <5>3, UnderIs
        <5>5. entry[src] = Directory
          BY <1>1, <3>10, <5>2, <5>4 DEF TreeHangs, Hangs
        <5>6. Under(dst, dst) /\ Rebase(dst, src, dst) = src
          BY RebaseTop, UnderFacts
        <5> QED BY <3>1, <5>1, <5>5, <5>6
      <4> QED BY <3>3, <3>10, <4>5, <4>6, <4>7
    <3>11. TreeInv'
      BY <3>7, <3>8, <3>9, <3>10 DEF TreeInv, TreeHangs
    <3>12. ComeFromNear(c)
      <4>1. \A q \in Paths : Near(q, q)'
        BY DEF Near
      <4>2. ASSUME NEW o \in Paths, Under(src, o), Rebase(src, dst, o) \in Paths
            PROVE  Near(o, Rebase(src, dst, o))'
        <5>1. Stands(c, "move", "ok")' /\ call'[c].op.path = src /\ call'[c].op.dst = dst
          BY <1>1, <1>3, <2>2 DEF Stands
        <5> QED BY <4>2, <5>1 DEF Near, Closed
      <4>3. ASSUME NEW q \in Paths, entry'[q] \in Nodes
            PROVE  \E o \in Paths : entry[o] = entry'[q] /\ Near(o, q)'
        <5>1. entry'[q] # NoEntry
          BY <1>2, <4>3
        <5>2. CASE \E o \in Paths : /\ o = Rebase(dst, src, q) /\ Under(src, o)
                                    /\ Rebase(src, dst, o) = q /\ entry[o] = entry'[q]
          BY <4>2, <5>2
        <5>3. CASE entry'[q] = entry[q]
          BY <4>1, <5>3
        <5> QED BY <3>3, <5>1, <5>2, <5>3
      <4> QED BY <4>3 DEF ComeFromNear
    <3>13. FilesAreNear'
      BY <2>2, <3>12, NearKeeps
    <3>14. KeepsFiles(c)
      <4>1. ASSUME NEW o \in Paths, entry[o] \in Nodes
            PROVE  (\E q \in Paths : entry'[q] = entry[o]) \/ AskedToLose(c, o)
        <5>1. entry[o] # NoEntry
          BY <1>2, <4>1
        <5>2. CASE Under(src, o)
          BY <3>4, <5>1, <5>2
        <5>3. CASE ~Under(src, o) /\ o = dst
          BY <1>1, <1>3, <2>5, <5>3 DEF AskedToLose
        <5>4. CASE ~Under(src, o) /\ Under(dst, o) /\ o # dst
          <6>1. dst = <<o[1]>> /\ Len(o) = 2
            BY <5>4, UnderIs
          <6>2. entry[dst] = Directory
            BY <1>1, <5>1, <6>1 DEF TreeHangs, Hangs
          <6>3. o \in Beneath(dst)
            BY <5>4 DEF Beneath
          <6> QED BY <1>2, <3>2, <5>1, <6>2, <6>3 DEF IsFile
        <5>5. CASE ~Under(src, o) /\ ~Under(dst, o)
          BY <3>1, <5>5
        <5> QED BY <5>2, <5>3, <5>4, <5>5
      <4> QED BY <4>1 DEF KeepsFiles
    <3>15. KeepsTexts(c) /\ WrittenTextKept(c)'
      BY <1>1, <2>1, <2>2, TextsStay
    <3>16. TextsAreKept'
      BY <2>2, <3>14, <3>15, TextsKeep
    <3> QED BY <3>6, <3>11, <3>13, <3>16 DEF TreeAndTexts
  <2> QED BY <2>4, <2>5
<1> QED BY <1>4, <1>5

-----------------------------------------------------------------------------
(* The start of a call, and the beginning. *)

Begins(c) ==
  /\ call' \in [FileCalls -> CallRecord]
  /\ \A d \in FileCalls : d # c => call'[d] = call[d]
  /\ call[c].at = "new" /\ call'[c].op \in Ops
  /\ call'[c].at \in {"look", "kind", "parents"}
  /\ call'[c].at = "parents" => call'[c].op.do \in {"write", "copy", "move", "mkdir"}
  /\ call'[c].at = "look" => call'[c].op.do \in Looks
  /\ call'[c].at = "kind" => call'[c].op.do = "delete"
  /\ call'[c].writes = call[c].writes /\ call'[c].reads = call[c].reads /\ call'[c].got = call[c].got

LEMMA BeginIs ==
  ASSUME FilesShape, NEW c \in FileCalls, BeginCall(c)
  PROVE  Begins(c) /\ UNCHANGED <<entry, text>>
<1>1. call[c] \in CallRecord /\ call \in [FileCalls -> CallRecord]
  BY DEF FilesShape
<1>2. PICK o \in Ops : \E a :
        /\ a = CASE o.do \in Looks -> "look" [] o.do = "delete" -> "kind" [] OTHER -> "parents"
        /\ call' = [call EXCEPT ![c].op = o, ![c].at = a]
  BY Zenon DEF BeginCall
<1>3. PICK a :
        /\ a = CASE o.do \in Looks -> "look" [] o.do = "delete" -> "kind" [] OTHER -> "parents"
        /\ call' = [call EXCEPT ![c].op = o, ![c].at = a]
  BY <1>2
<1>4. o.do \in Looks \union {"delete"} \union {"write", "copy", "move", "mkdir"}
  BY OpsAre DEF Looks
<1>5. /\ a \in {"look", "kind", "parents"}
      /\ a = "parents" => o.do \in {"write", "copy", "move", "mkdir"}
      /\ a = "look" => o.do \in Looks
      /\ a = "kind" => o.do = "delete"
  BY <1>3, <1>4 DEF Looks
<1>6. PICK r : r = [call[c] EXCEPT !.op = o, !.at = a]
  OBVIOUS
<1>7. r \in CallRecord /\ r.at = a /\ r.op = o /\ r.writes = call[c].writes
      /\ r.reads = call[c].reads /\ r.got = call[c].got
  BY <1>1, <1>5, <1>6 DEF CallRecord, CallPlaces
<1>8. call' = [call EXCEPT ![c] = r]
  <2>1. [call EXCEPT ![c].op = o, ![c].at = a] = [call EXCEPT ![c] = r]
    BY <1>1, <1>6
  <2> QED BY <1>3, <2>1
<1>9. call' \in [FileCalls -> CallRecord] /\ call'[c] = r /\ \A d \in FileCalls : d # c => call'[d] = call[d]
  BY <1>1, <1>7, <1>8
<1> QED BY <1>5, <1>7, <1>9 DEF Begins, BeginCall

LEMMA BeginStep ==
  ASSUME TreeAndTexts, NEW c \in FileCalls, UNCHANGED firstTexts, BeginCall(c)
  PROVE  TreeAndTexts'
<1>1. FilesShape /\ TreeInv /\ FilesAreNear /\ TextsAreKept
  BY DEF TreeAndTexts
<1>2. Begins(c) /\ UNCHANGED <<entry, text, firstTexts>>
  BY <1>1, BeginIs
<1>3. FilesShape'
  BY <1>1, <1>2 DEF FilesShape, Begins
<1>4. /\ \A d \in FileCalls : call'[d].writes = call[d].writes
      /\ \A d \in FileCalls : d # c => Written(d)' = Written(d)
      /\ \A d \in FileCalls : call[d].writes # NoEntry => d # c
      /\ \A d \in FileCalls : call[d].at = "ok" => call'[d].at = "ok" /\ call'[d].op = call[d].op
      /\ \A d \in Begun : d # c /\ d \in Begun' /\ call'[d].op = call[d].op
  BY <1>1, <1>2 DEF Begins, Written, Begun, TreeInv, CallGoesOn
<1>5. TreeInv'
  <2>1. TreeHangs' /\ OnePlace'
    BY <1>1, <1>2 DEF TreeInv, TreeHangs, OnePlace, Hangs, IsFile
  <2>2. CallGoesOn(c)'
    BY <1>1, <1>2 DEF TreeInv, CallGoesOn, Begins, Stands
  <2>3. \A d \in FileCalls : CallGoesOn(d)'
    BY <1>1, <1>2, <2>2 DEF TreeInv, CallGoesOn, Begins, Stands
  <2>4. \A d \in FileCalls : MadeBy(d)'
    BY <1>1, <1>2, <1>4 DEF TreeInv, MadeBy
  <2> QED BY <2>1, <2>3, <2>4 DEF TreeInv
<1>6. FilesAreNear'
  <2>1. \A p, q : Near(p, q) => Near(p, q)'
    BY <1>4, NearStays
  <2>2. NoEntry \notin Nodes /\ \A p \in Paths : Old(p) \in Nodes
    BY NodesAreFiles, OldIsAnInode
  <2>3. ASSUME NEW p \in Paths, NEW q \in Paths, entry'[q] = Old(p)
        PROVE  Near(p, q)'
    BY <1>1, <1>2, <2>1, <2>3 DEF FilesAreNear
  <2>4. ASSUME NEW d \in FileCalls, NEW q \in Paths, call'[d].writes # NoEntry, entry'[q] = call'[d].writes
        PROVE  Near(Written(d), q)'
    <3>1. PICK w : w = Written(d)
      OBVIOUS
    <3>2. Near(w, q)
      BY <1>1, <1>2, <1>4, <2>4, <3>1 DEF FilesAreNear
    <3>3. Near(w, q)' /\ Written(d)' = w
      BY <1>4, <2>1, <2>4, <3>1, <3>2
    <3> QED BY <3>3 DEF Near
  <2>5. ASSUME NEW d \in FileCalls, NEW p \in Paths, call'[d].writes = Old(p)
        PROVE  Near(p, Written(d))'
    <3>1. PICK w : w = Written(d)
      OBVIOUS
    <3>2. Near(p, w)
      BY <1>1, <1>4, <2>5, <3>1 DEF FilesAreNear
    <3>3. Near(p, w)' /\ Written(d)' = w
      BY <1>4, <2>1, <2>2, <2>5, <3>1, <3>2
    <3> QED BY <3>3 DEF Near
  <2>6. ASSUME NEW d \in FileCalls, NEW e \in FileCalls,
               call'[d].writes # NoEntry, call'[d].writes = call'[e].writes
        PROVE  Near(Written(d), Written(e))'
    <3>1. PICK w, v : w = Written(d) /\ v = Written(e)
      OBVIOUS
    <3>2. Near(w, v)
      BY <1>1, <1>4, <2>6, <3>1 DEF FilesAreNear
    <3>3. Near(w, v)' /\ Written(d)' = w /\ Written(e)' = v
      BY <1>4, <2>1, <2>6, <3>1, <3>2
    <3> QED BY <3>3 DEF Near
  <2> QED BY <2>3, <2>4, <2>5, <2>6 DEF FilesAreNear
<1>7. TextsAreKept'
  <2>1. /\ \A i : InTree(i) => InTree(i)'
        /\ \A i, t : Holds(i, t) => Holds(i, t)'
    BY <1>2 DEF InTree, Holds
  <2>2. ASSUME NEW p \in firstTexts
        PROVE  FirstTextKept(p)'
    <3>1. p \in Paths /\ FirstTextKept(p)
      BY <1>1, <2>2 DEF TextsAreKept, FilesShape
    <3>2. CASE GivenUp(p, Begun)
      BY <1>4, <3>1, <3>2, FirstGivenUpStays DEF FirstTextKept
    <3>3. CASE InTree(Old(p)) /\ Holds(Old(p), Old(p))
      BY <2>1, <3>3 DEF FirstTextKept
    <3> QED BY <3>1, <3>2, <3>3 DEF FirstTextKept
  <2>3. ASSUME NEW d \in FileCalls
        PROVE  WrittenTextKept(d)'
    <3>1. SUFFICES ASSUME call'[d].op.do = "write", call'[d].at \in {"fill", "ok"}
                   PROVE  WrittenTextKept(d)'
      BY DEF WrittenTextKept
    <3>2. d # c /\ call'[d] = call[d] /\ d \in Begun /\ WrittenTextKept(d) /\ call[d].op \in Ops
      BY <1>1, <1>2, <3>1 DEF Begins, Begun, TextsAreKept, TreeInv, CallGoesOn
    <3>3. CASE GivenUp(call[d].op.path, Begun \ {d})
      <4>1. GivenUp(call[d].op.path, Begun \ {d})'
        BY <1>1, <1>4, <3>2, <3>3, WrittenGivenUpStays
      <4> QED BY <4>1 DEF WrittenTextKept
    <3>4. CASE InTree(call[d].writes) /\ (call[d].at = "ok" => Holds(call[d].writes, d))
      <4>1. PICK i : i = call[d].writes
        OBVIOUS
      <4>2. call'[d].writes = i /\ InTree(i)' /\ (call[d].at = "ok" => Holds(i, d)')
        BY <2>1, <3>2, <3>4, <4>1
      <4> QED BY <3>2, <4>2 DEF WrittenTextKept, InTree, Holds
    <3> QED BY <3>1, <3>2, <3>3, <3>4 DEF WrittenTextKept
  <2> QED BY <1>2, <2>2, <2>3 DEF TextsAreKept
<1> QED BY <1>3, <1>5, <1>6, <1>7 DEF TreeAndTexts

LEMMA FilesFirst == FileToolsInit => TreeAndTexts
<1> SUFFICES ASSUME FileToolsInit
             PROVE  TreeAndTexts
  OBVIOUS
<1>1. PICK tree \in FirstTrees :
        /\ entry = [p \in Paths |->
             IF \E e \in tree : e.path = p /\ e.is = "dir" THEN Directory
             ELSE IF \E e \in tree : e.path = p THEN Old(p) ELSE NoEntry]
        /\ text = [i \in Nodes |->
             IF \E e \in tree : e.is = "file" /\ Old(e.path) = i THEN <<i>> ELSE <<>>]
        /\ firstTexts = {e.path : e \in {f \in tree : f.is = "file"}}
        /\ call = [c \in FileCalls |-> [op |-> NoRequest, at |-> "new", reads |-> 0, writes |-> 0, got |-> {}]]
  BY DEF FileToolsInit
<1>2. /\ tree \subseteq [path : Paths, is : {"dir", "file", "empty"}]
      /\ \A e, f \in tree : e.path = f.path => e = f
      /\ \A e \in tree : Len(e.path) = 2 => [path |-> <<e.path[1]>>, is |-> "dir"] \in tree
  BY FilesAssumption
<1>3. /\ NoEntry \notin Nodes /\ Directory \notin Nodes /\ NoEntry # Directory
      /\ \A p \in Paths : Old(p) \in Nodes
      /\ \A p, q \in Paths : Old(p) = Old(q) => p = q
      /\ \A c \in FileCalls : c \in Nodes
      /\ \A c \in FileCalls, p \in Paths : c # Old(p)
  BY NodesAreFiles, OldIsAnInode DEF Nodes
<1>4. \A p \in Paths : entry[p] \in {NoEntry, Directory, Old(p)}
  BY <1>1
<1>5. FilesShape
  <2>1. entry \in [Paths -> {NoEntry, Directory} \union Nodes]
    BY <1>1, <1>3
  <2>2. text \in [Nodes -> Seq(Nodes)]
    <3>1. \A i \in Nodes : <<i>> \in Seq(Nodes) /\ <<>> \in Seq(Nodes)
      OBVIOUS
    <3> QED BY <1>1, <3>1
  <2>3. [op |-> NoRequest, at |-> "new", reads |-> 0, writes |-> 0, got |-> {}] \in CallRecord
    BY DEF CallRecord, CallPlaces, NoEntry
  <2>4. call \in [FileCalls -> CallRecord]
    BY <1>1, <2>3
  <2>5. firstTexts \subseteq Paths
    BY <1>1, <1>2
  <2> QED BY <2>1, <2>2, <2>4, <2>5 DEF FilesShape
<1>6. \A c \in FileCalls : /\ call[c].op = NoRequest /\ call[c].at = "new"
                           /\ call[c].writes = NoEntry /\ call[c].reads = NoEntry /\ call[c].got = {}
  BY <1>1 DEF NoEntry
<1>7. TreeInv
  <2>1. ASSUME NEW p \in Paths, entry[p] # NoEntry
        PROVE  Hangs(p)
    <3>1. PICK e \in tree : e.path = p
      BY <1>1, <2>1
    <3>2. CASE Len(p) = 2
      <4>1. [path |-> <<p[1]>>, is |-> "dir"] \in tree
        BY <1>2, <3>1, <3>2
      <4>2. PICK f \in tree : f.path = <<p[1]>> /\ f.is = "dir"
        BY <4>1
      <4>3. <<p[1]>> \in Paths
        BY TopOf
      <4>4. entry[<<p[1]>>] = Directory
        BY <1>1, <4>2, <4>3
      <4> QED BY <4>4 DEF Hangs
    <3> QED BY <3>2, PathCases DEF Hangs
  <2>2. TreeHangs
    BY <2>1 DEF TreeHangs
  <2>3. OnePlace
    BY <1>3, <1>4 DEF OnePlace, IsFile
  <2>4. \A c \in FileCalls : CallGoesOn(c)
    BY <1>6 DEF CallGoesOn, Stands
  <2>5. \A c \in FileCalls : MadeBy(c)
    BY <1>3, <1>4, <1>6 DEF MadeBy
  <2> QED BY <2>2, <2>3, <2>4, <2>5 DEF TreeInv
<1>8. FilesAreNear
  <2>1. \A p, q \in Paths : entry[q] = Old(p) => p = q
    BY <1>3, <1>4
  <2>2. \A c \in FileCalls : call[c].writes = NoEntry
    BY <1>6
  <2> QED BY <1>3, <2>1, <2>2, NearIs DEF FilesAreNear
<1>9. TextsAreKept
  <2>1. ASSUME NEW p \in firstTexts
        PROVE  FirstTextKept(p)
    <3>1. PICK e \in tree : e.path = p /\ e.is = "file"
      BY <1>1, <2>1
    <3>2. p \in Paths /\ ~\E f \in tree : f.path = p /\ f.is = "dir"
      BY <1>2, <3>1
    <3>3. entry[p] = Old(p)
      BY <1>1, <3>1, <3>2
    <3>4. text[Old(p)] = <<Old(p)>>
      BY <1>1, <1>3, <3>1, <3>2
    <3>5. Holds(Old(p), Old(p))
      <4>1. PICK i : i = Old(p)
        OBVIOUS
      <4>2. 1 \in DOMAIN <<i>> /\ <<i>>[1] = i
        OBVIOUS
      <4> QED BY <3>4, <4>1, <4>2 DEF Holds
    <3> QED BY <3>2, <3>3, <3>5 DEF FirstTextKept, InTree
  <2>2. \A c \in FileCalls : WrittenTextKept(c)
    BY <1>6 DEF WrittenTextKept
  <2> QED BY <2>1, <2>2 DEF TextsAreKept
<1> QED BY <1>5, <1>7, <1>8, <1>9 DEF TreeAndTexts

LEMMA TreeAndTextsHold == FilesSpec => []TreeAndTexts
<1>1. ASSUME TreeAndTexts, [FileToolsNext]_fileToolVars
      PROVE  TreeAndTexts'
  <2>1. CASE UNCHANGED fileToolVars
    <3>1. UNCHANGED <<entry, text, call, firstTexts>>
      BY <2>1 DEF fileToolVars
    <3>2. /\ FilesShape' <=> FilesShape
          /\ TreeInv' <=> TreeInv
      BY <3>1 DEF FilesShape, TreeInv, TreeHangs, Hangs, OnePlace, IsFile, CallGoesOn, Stands, MadeBy
    <3>3. /\ \A p, q : Near(p, q)' <=> Near(p, q)
          /\ \A d : Written(d)' = Written(d)
      BY <3>1 DEF Near, Closed, Stands, Written
    <3>4. FilesAreNear' <=> FilesAreNear
      BY <3>1 DEF FilesAreNear, Near, Closed, Stands, Written
    <3>5. TextsAreKept' <=> TextsAreKept
      BY <3>1 DEF TextsAreKept, FirstTextKept, WrittenTextKept, GivenUp, AskedToLose, Begun, InTree, Holds,
                  Homes, MoveWithin
    <3> QED BY <1>1, <3>2, <3>4, <3>5 DEF TreeAndTexts
  <2>2. ASSUME NEW c \in FileCalls, FileStep(c), UNCHANGED firstTexts
        PROVE  TreeAndTexts'
    BY <1>1, <2>2, BeginStep, MakeParentsStep, MakeDirectoryStep, WriteOpensStep, WriteFillsStep,
       CopyOpensSourceStep, CopyOpensStep, CopyFillsStep, RenameStep, DeleteLooksStep, DeleteFileStep,
       DeleteChildrenStep, DeleteDirectoryStep, LooksStep DEF FileStep
  <2> QED BY <1>1, <2>1, <2>2 DEF FileToolsNext
<1> QED BY <1>1, FilesFirst, PTL DEF FilesSpec

LEMMA KeptTextSurvives == TreeAndTexts => TextSurvives
<1> SUFFICES ASSUME TreeAndTexts
             PROVE  TextSurvives
  OBVIOUS
<1>1. ASSUME NEW i \in Nodes, NEW t, InTree(i), Holds(i, t)
      PROVE  Linked(t)
  BY <1>1 DEF Linked, InTree, Holds, IsFile
<1>2. ASSUME NEW p \in firstTexts
      PROVE  Linked(Old(p)) \/ GivenUp(p, Begun)
  <2>1. p \in Paths /\ FirstTextKept(p) /\ Old(p) \in Nodes
    BY <1>2, OldIsAnInode DEF TreeAndTexts, FilesShape, TextsAreKept
  <2> QED BY <1>1, <2>1 DEF FirstTextKept
<1>3. ASSUME NEW c \in Begun, Stands(c, "write", "ok")
      PROVE  Linked(c) \/ GivenUp(call[c].op.path, Begun \ {c})
  <2>1. c \in FileCalls /\ WrittenTextKept(c) /\ CallGoesOn(c)
    BY <1>3 DEF Begun, TreeAndTexts, TextsAreKept, TreeInv
  <2>2. call[c].writes \in Nodes
    BY <1>3, <2>1 DEF CallGoesOn
  <2> QED BY <1>1, <1>3, <2>1, <2>2 DEF WrittenTextKept, Stands
<1> QED BY <1>2, <1>3 DEF TextSurvives

-----------------------------------------------------------------------------
(* What a step of another call leaves alone. *)

(* A call changes entries at the paths it names, below them and, making it,
   the directory that is to hold the file; and text where it writes. *)
Touches(d) ==
  /\ \A r \in Paths : \/ entry'[r] = entry[r]
                      \/ \E y \in Named(d) : Under(y, r)
                      \/ r = <<Written(d)[1]>>
  /\ \A i \in Nodes : text'[i] = text[i] \/ i = call'[d].writes

LEMMA OpensTouches ==
  ASSUME FilesShape, NEW d \in FileCalls, Runs(d), Written(d) \in Paths,
         NEW e \in BOOLEAN, Opens(d, Written(d), e)
  PROVE  Touches(d)
<1>1. PICK p \in Paths : p = Written(d)
  OBVIOUS
<1>2. CASE Refused(d)
  BY <1>2 DEF Refused, Touches
<1>3. CASE ~Refused(d)
  <2>1. PICK i : i = IF IsFile(p) THEN entry[p] ELSE d
    OBVIOUS
  <2>2. i \in Nodes
    BY <2>1 DEF IsFile, Nodes
  <2>3. /\ entry' = [entry EXCEPT ![p] = i]
        /\ text' = IF e THEN [text EXCEPT ![i] = <<>>] ELSE text
        /\ call' = [call EXCEPT ![d].at = "fill", ![d].writes = i]
    BY <1>1, <1>3, <2>1 DEF Opens
  <2>4. call'[d].writes = i
    BY <2>2, <2>3, OpensIs
  <2>5. p \in Named(d) /\ Under(p, p)
    BY <1>1, UnderFacts DEF Named
  <2>6. \A r \in Paths : entry'[r] = entry[r] \/ Under(p, r)
    BY <2>3, <2>5 DEF FilesShape
  <2>7. \A j \in Nodes : text'[j] = text[j] \/ j = i
    BY <2>3 DEF FilesShape
  <2> QED BY <2>4, <2>5, <2>6, <2>7 DEF Touches
<1> QED BY <1>2, <1>3

LEMMA FillsTouches ==
  ASSUME FilesShape, NEW d \in FileCalls, Runs(d), WriteFills(d) \/ CopyFills(d)
  PROVE  Touches(d)
<1>1. CASE Refused(d)
  BY <1>1 DEF Refused, Touches
<1>2. CASE ~Refused(d)
  <2>1. Moves(d, "ok") /\ entry' = entry /\ \E new : text' = [text EXCEPT ![call[d].writes] = new]
    BY <1>2 DEF WriteFills, CopyFills
  <2>2. call'[d].writes = call[d].writes
    BY <2>1, MovesIs DEF CallPlaces
  <2>3. \A j \in Nodes : text'[j] = text[j] \/ j = call[d].writes
    BY <2>1 DEF FilesShape
  <2> QED BY <2>1, <2>2, <2>3 DEF Touches
<1> QED BY <1>1, <1>2

LEMMA RenameTouches ==
  ASSUME FilesShape, NEW d \in FileCalls, call[d].op \in Ops, Rename(d)
  PROVE  Touches(d)
<1>1. call[d].op.do = "move"
  BY DEF Rename, Stands
<1>2. PICK src \in Paths, dst \in Paths : src = call[d].op.path /\ dst = call[d].op.dst
  BY <1>1, OpsAre
<1>3. src \in Named(d) /\ dst \in Named(d)
  BY <1>1, <1>2 DEF Named, Written
<1>4. CASE Refused(d)
  BY <1>4 DEF Refused, Touches
<1>5. CASE ~Refused(d)
  <2>1. /\ UNCHANGED text
        /\ entry' = [q \in Paths |->
                IF src = dst THEN entry[q]
                ELSE IF Under(dst, q)
                     THEN LET old == Rebase(dst, src, q)
                          IN IF old \in Paths THEN entry[old] ELSE NoEntry
                     ELSE IF q \in {r \in Paths : Under(src, r)} THEN NoEntry ELSE entry[q]]
    BY <1>2, <1>5 DEF Rename
  <2>2. \A r \in Paths : entry'[r] = entry[r] \/ Under(dst, r) \/ Under(src, r)
    BY <2>1
  <2> QED BY <1>3, <2>1, <2>2 DEF Touches
<1> QED BY <1>4, <1>5

LEMMA StepGoesOn ==
  ASSUME TreeAndTexts, NEW d \in FileCalls, FileStep(d), ~BeginCall(d)
  PROVE  GoesOn(d) /\ Runs(d)
<1>1. FilesShape /\ CallGoesOn(d)
  BY DEF TreeAndTexts, TreeInv
<1>2. Runs(d)
  BY DEF FileStep, Runs, Stands, MakeParents, MakeDirectory, WriteOpens, WriteFills, CopyOpensSource,
         CopyOpens, CopyFills, Rename, DeleteLooks, DeleteFile, DeleteChildren, DeleteDirectory,
         FsRead, FsList, FsStat, FsGrep, LooksAt
<1>3. call[d].op \in Ops /\ call[d].op.path \in Paths
  BY <1>1, <1>2, OpsAre DEF CallGoesOn, Runs
<1>4. CASE \E a \in CallPlaces \ {"new"} : Moves(d, a)
  BY <1>1, <1>2, <1>4, MovesIs
<1>5. \A a \in {"ok", "error", "open", "source", "rename", "mkdir", "unlink", "children", "rmdir"} :
        a \in CallPlaces \ {"new"}
  BY DEF CallPlaces
<1>6. CASE MakeParents(d)
  <2>1. \E a \in {"open", "source", "rename", "mkdir", "error"} : Moves(d, a)
    <3>1. PICK next : next = CASE call[d].op.do = "write" -> "open" [] call[d].op.do = "copy" -> "source"
                               [] call[d].op.do = "move" -> "rename" [] OTHER -> "mkdir"
      OBVIOUS
    <3>2. next \in {"open", "source", "rename", "mkdir"}
      BY <3>1
    <3>3. Moves(d, next) \/ Moves(d, "error")
      BY <1>6, <3>1 DEF MakeParents
    <3> QED BY <3>2, <3>3
  <2> QED BY <1>4, <1>5, <2>1
<1>7. CASE DeleteLooks(d)
  <2>1. \E a \in {"error", "unlink", "children", "rmdir"} : Moves(d, a)
    BY <1>7 DEF DeleteLooks
  <2> QED BY <1>4, <1>5, <2>1
<1>8. CASE \/ MakeDirectory(d) \/ WriteFills(d) \/ CopyFills(d) \/ Rename(d)
           \/ DeleteFile(d) \/ DeleteChildren(d) \/ DeleteDirectory(d)
  <2>1. Moves(d, "ok") \/ Moves(d, "rmdir") \/ Moves(d, "error")
    BY <1>8 DEF MakeDirectory, WriteFills, CopyFills, Rename, DeleteFile, DeleteChildren,
                DeleteDirectory, Refused
  <2> QED BY <1>4, <1>5, <2>1
<1>9. CASE WriteOpens(d) \/ CopyOpens(d)
  <2>1. PICK p, e : Opens(d, p, e)
    BY <1>9 DEF WriteOpens, CopyOpens
  <2>2. CASE Refused(d)
    BY <1>4, <1>5, <2>2 DEF Refused
  <2>3. CASE ~Refused(d)
    <3>1. PICK i : i = IF IsFile(p) THEN entry[p] ELSE d
      OBVIOUS
    <3>2. i \in Nodes /\ call' = [call EXCEPT ![d].at = "fill", ![d].writes = i]
      BY <2>1, <2>3, <3>1 DEF Opens, IsFile, Nodes
    <3> QED BY <1>1, <1>2, <3>2, OpensIs
  <2> QED BY <2>2, <2>3
<1>10. CASE CopyOpensSource(d)
  <2>1. CASE Refused(d)
    BY <1>4, <1>5, <2>1 DEF Refused
  <2>2. CASE ~Refused(d)
    <3>1. PICK i \in Nodes : i = entry[call[d].op.path]
      BY <1>10, <2>2 DEF CopyOpensSource, IsFile
    <3>2. call' = [call EXCEPT ![d].at = "open", ![d].reads = i]
      BY <1>10, <2>2, <3>1 DEF CopyOpensSource
    <3> QED BY <1>1, <1>2, <3>2, SourceIs
  <2> QED BY <2>1, <2>2
<1>11. CASE FsRead(d) \/ FsList(d) \/ FsStat(d) \/ FsGrep(d)
  <2>1. \E found \in SUBSET Paths, a \in {"ok", "error"} :
          call' = [call EXCEPT ![d].got = found, ![d].at = a]
    BY <1>3, <1>11 DEF FsRead, FsList, FsStat, FsGrep, LooksAt, Hits, Beneath
  <2> QED BY <1>1, <1>2, <2>1, LooksIs
<1> QED BY <1>6, <1>7, <1>8, <1>9, <1>10, <1>11 DEF FileStep

LEMMA StepTouches ==
  ASSUME TreeAndTexts, NEW d \in FileCalls, FileStep(d)
  PROVE  /\ Touches(d) /\ d \in Begun'
         /\ \A c \in FileCalls : c # d => call'[c] = call[c]
<1>1. /\ FilesShape /\ CallGoesOn(d)
      /\ call \in [FileCalls -> CallRecord]
  BY DEF TreeAndTexts, FilesShape, TreeInv
<1>2. CASE BeginCall(d)
  <2>1. Begins(d) /\ UNCHANGED <<entry, text>>
    BY <1>1, <1>2, BeginIs
  <2> QED BY <2>1 DEF Begins, Begun, Touches
<1>3. CASE ~BeginCall(d)
  <2>1. GoesOn(d) /\ Runs(d)
    BY <1>3, StepGoesOn
  <2>2. call[d].op \in Ops /\ Written(d) \in Paths /\ call[d].op.path \in Paths
    BY <1>1, <2>1, WrittenIsAPath DEF CallGoesOn, Runs
  <2>3. /\ call[d].op.path \in Named(d) /\ Written(d) \in Named(d)
        /\ Under(call[d].op.path, call[d].op.path) /\ Under(Written(d), Written(d))
    BY <2>2, UnderFacts DEF Named
  <2>4. ASSUME MakeParents(d)
        PROVE  Touches(d)
    <3>1. text' = text
      BY <2>4 DEF MakeParents
    <3>2. entry' = entry \/ entry' = [entry EXCEPT ![<<Written(d)[1]>>] = Directory]
      BY <2>4 DEF MakeParents
    <3>3. \A r \in Paths : entry'[r] = entry[r] \/ r = <<Written(d)[1]>>
      BY <1>1, <3>2 DEF FilesShape
    <3> QED BY <3>1, <3>3 DEF Touches
  <2>5. ASSUME MakeDirectory(d) \/ DeleteFile(d) \/ DeleteDirectory(d)
        PROVE  Touches(d)
    <3>1. text' = text
      BY <2>5 DEF MakeDirectory, DeleteFile, DeleteDirectory, Refused
    <3>2. \/ entry' = entry
          \/ \E y \in Named(d) : \E v : Under(y, y) /\ entry' = [entry EXCEPT ![y] = v]
      BY <2>3, <2>5 DEF MakeDirectory, DeleteFile, DeleteDirectory, Refused
    <3>3. \A r \in Paths : entry'[r] = entry[r] \/ \E y \in Named(d) : Under(y, r)
      BY <1>1, <3>2 DEF FilesShape
    <3> QED BY <3>1, <3>3 DEF Touches
  <2>6. ASSUME DeleteChildren(d)
        PROVE  Touches(d)
    BY <2>3, <2>6 DEF DeleteChildren, Refused, Touches, Beneath
  <2>7. ASSUME \/ DeleteLooks(d) \/ CopyOpensSource(d)
               \/ FsRead(d) \/ FsList(d) \/ FsStat(d) \/ FsGrep(d)
        PROVE  Touches(d)
    <3>1. UNCHANGED <<entry, text>>
      BY <2>7 DEF DeleteLooks, CopyOpensSource, Refused, FsRead, FsList, FsStat, FsGrep, LooksAt
    <3> QED BY <3>1 DEF Touches
  <2>8. ASSUME WriteOpens(d)
        PROVE  Touches(d)
    <3>1. Written(d) = call[d].op.path /\ (~call[d].op.flag) \in BOOLEAN
      BY <2>2, <2>8 DEF WriteOpens, Stands, Written
    <3>2. PICK e \in BOOLEAN : e = ~call[d].op.flag
      BY <3>1
    <3>3. Opens(d, Written(d), e)
      BY <2>8, <3>1, <3>2 DEF WriteOpens
    <3> QED BY <1>1, <2>1, <2>2, <3>3, OpensTouches
  <2>9. ASSUME CopyOpens(d)
        PROVE  Touches(d)
    <3>1. Opens(d, Written(d), TRUE)
      BY <2>9 DEF CopyOpens, Stands, Written
    <3> QED BY <1>1, <2>1, <2>2, <3>1, OpensTouches
  <2>10. ASSUME WriteFills(d) \/ CopyFills(d)
        PROVE  Touches(d)
    BY <1>1, <2>1, <2>10, FillsTouches
  <2>11. ASSUME Rename(d)
        PROVE  Touches(d)
    BY <1>1, <2>2, <2>11, RenameTouches
  <2>12. Touches(d)
    BY <1>3, <2>4, <2>5, <2>6, <2>7, <2>8, <2>9, <2>10, <2>11 DEF FileStep
  <2> QED BY <2>1, <2>12 DEF GoesOn, Begun
<1> QED BY <1>2, <1>3

LEMMA UndisturbedBefore ==
  ASSUME TreeAndTexts, NEW c \in FileCalls, NEW d \in FileCalls, FileStep(d), c # d \/ ~BeginCall(d),
         c \in Begun', Undisturbed(c)'
  PROVE  /\ c \in Begun /\ Undisturbed(c) /\ Named(c)' = Named(c)
         /\ \A e \in Begun : e \in Begun' /\ Named(e)' = Named(e)
<1>1. \A e \in FileCalls : e # d => call'[e] = call[e]
  BY StepTouches
<1>2. d \in Begun'
  BY StepTouches
<1>3. BeginCall(d) => d \notin Begun
  BY DEF BeginCall, Begun
<1>4. \A e \in Begun : e \in Begun' /\ call'[e].op = call[e].op
  <2>1. CASE BeginCall(d)
    BY <1>1, <1>3, <2>1 DEF Begun
  <2>2. CASE ~BeginCall(d)
    <3>1. GoesOn(d)
      BY <2>2, StepGoesOn
    <3> QED BY <3>1 DEF GoesOn, Begun
  <2> QED BY <2>1, <2>2
<1>5. c \in Begun
  <2>1. CASE c # d
    BY <1>1, <2>1 DEF Begun
  <2>2. CASE c = d
    <3>1. Runs(d)
      BY <2>2, StepGoesOn
    <3> QED BY <2>2, <3>1 DEF Runs, Begun
  <2> QED BY <2>1, <2>2
<1>6. \A e \in Begun : Named(e)' = Named(e)
  BY <1>4 DEF Named, Written
<1>7. Undisturbed(c)
  BY <1>4, <1>5, <1>6 DEF Undisturbed
<1> QED BY <1>4, <1>5, <1>6, <1>7

LEMMA OthersLeave ==
  ASSUME TreeAndTexts, TreeAndTexts', NEW c \in FileCalls, NEW d \in FileCalls, FileStep(d), c # d,
         c \in Begun', Undisturbed(c)', NEW x \in Named(c), NEW r \in Paths, Under(x, r)
  PROVE  /\ entry'[r] = entry[r]
         /\ call[c].op.do # "move" /\ IsFile(r) => text'[entry[r]] = text[entry[r]]
<1>1. Touches(d) /\ d \in Begun' /\ call'[c] = call[c] /\ d \in FileCalls
  BY StepTouches
<1>2. c \in Begun /\ Named(c)' = Named(c)
  BY UndisturbedBefore
<1>3. /\ FilesShape /\ FilesShape' /\ CallGoesOn(c) /\ FilesAreNear'
      /\ \A e \in FileCalls : CallGoesOn(e)'
  BY DEF TreeAndTexts, TreeInv
<1>4. call[c].op \in Ops /\ Named(c) \subseteq Paths /\ x \in Paths
  BY <1>2, <1>3, WrittenIsAPath DEF CallGoesOn, Begun
<1>5. ASSUME NEW e \in Begun', e # c
      PROVE  /\ e \in FileCalls /\ call'[e].op \in Ops /\ call'[e].op.path \in Paths
             /\ Written(e)' \in Paths /\ call'[e].op.path \in Named(e)' /\ Written(e)' \in Named(e)'
             /\ \A y \in Named(e)' : y \in Paths /\ ~Under(x, y) /\ ~Under(y, x)
  <2>1. e \in FileCalls /\ call'[e].at # "new"
    BY <1>5 DEF Begun
  <2>2. call'[e].op \in Ops
    BY <1>3, <2>1 DEF CallGoesOn
  <2>3. call'[e].op.path \in Paths /\ (call'[e].op.do \in {"copy", "move"} => call'[e].op.dst \in Paths)
    BY <2>2, OpsAre
  <2>4. /\ Written(e)' \in Paths /\ call'[e].op.path \in Named(e)' /\ Written(e)' \in Named(e)'
        /\ \A y \in Named(e)' : y \in Paths
    BY <2>3 DEF Written, Named
  <2>5. \A y \in Named(e)' : ~Under(x, y) /\ ~Under(y, x)
    BY <1>2, <1>5 DEF Undisturbed
  <2> QED BY <2>1, <2>2, <2>3, <2>4, <2>5
<1>6. ASSUME NEW y \in Paths, ~Under(x, y), ~Under(y, x)
      PROVE  ~Under(y, r) /\ r # <<y[1]>>
  <2>1. <<y[1]>> \in Paths /\ Under(<<y[1]>>, y)
    BY TopOf
  <2> QED BY <1>4, <1>6, <2>1, UnderFacts
<1>7. entry'[r] = entry[r]
  <2>1. CASE BeginCall(d)
    BY <2>1 DEF BeginCall
  <2>2. CASE ~BeginCall(d)
    <3>1. GoesOn(d)
      BY <2>2, StepGoesOn
    <3>2. Named(d)' = Named(d) /\ Written(d)' = Written(d)
      BY <3>1 DEF GoesOn, Named, Written
    <3>3. /\ Written(d) \in Named(d)
          /\ \A y \in Named(d) : y \in Paths /\ ~Under(x, y) /\ ~Under(y, x)
      BY <1>1, <1>5, <3>2
    <3> QED BY <1>1, <1>6, <3>3 DEF Touches
  <2> QED BY <2>1, <2>2
<1>8. ASSUME call[c].op.do # "move", IsFile(r), text'[entry[r]] # text[entry[r]]
      PROVE  FALSE
  <2>1. entry[r] = call'[d].writes /\ call'[d].writes # NoEntry
    BY <1>1, <1>8, NodesAreFiles DEF Touches, IsFile
  <2>2. PICK w \in Paths : w = Written(d)'
    BY <1>1, <1>5
  <2>3. Near(Written(d), r)'
    BY <1>3, <1>7, <2>1 DEF FilesAreNear
  <2>4. Near(w, r)'
    BY <2>2, <2>3 DEF Near
  <2>5. PICK S \in SUBSET Paths : S = {s \in Paths : Under(x, s)}
    OBVIOUS
  <2>6. Closed(S)'
    <3>1. SUFFICES ASSUME NEW e \in FileCalls, NEW p \in Paths,
                          call'[e].op.do = "move", call'[e].at = "ok", Under(call'[e].op.path, p),
                          Rebase(call'[e].op.path, call'[e].op.dst, p) \in Paths
                   PROVE  p \in S <=> Rebase(call'[e].op.path, call'[e].op.dst, p) \in S
      BY DEF Closed, Stands
    <3>2. e \in Begun' /\ e # c
      BY <1>1, <1>8, <3>1 DEF Begun
    <3>3. PICK src \in Paths, dst \in Paths : src = call'[e].op.path /\ dst = call'[e].op.dst
      BY <1>5, <3>1, <3>2, OpsAre
    <3>4. ~Under(x, src) /\ ~Under(src, x) /\ ~Under(x, dst) /\ ~Under(dst, x)
      <4>1. dst = Written(e)'
        BY <3>1, <3>3 DEF Written
      <4> QED BY <1>5, <3>2, <3>3, <4>1
    <3>5. PICK q \in Paths : q = Rebase(src, dst, p)
      BY <3>1, <3>3
    <3>6. Under(dst, q)
      BY <3>1, <3>3, <3>5, RebaseBack
    <3>7. ~Under(x, p) /\ ~Under(x, q)
      BY <1>4, <3>1, <3>3, <3>4, <3>6, UnderFacts
    <3> QED BY <2>5, <3>3, <3>5, <3>7
  <2>7. w \in S <=> r \in S
    BY <2>4, <2>6 DEF Near
  <2>8. Under(x, w)
    BY <2>5, <2>7
  <2> QED BY <1>1, <1>5, <2>2, <2>8
<1> QED BY <1>7, <1>8

-----------------------------------------------------------------------------
(* What is so at each step of a call that nobody disturbs. *)

Phase(c) ==
  LET p == call[c].op.path
      q == call[c].op.dst
      i == call[c].writes
  IN /\ Stands(c, "write", "fill") => entry[p] = i /\ (~call[c].op.flag => text[i] = <<>>)
     /\ Stands(c, "copy", "open") => entry[p] = call[c].reads
     /\ Stands(c, "copy", "fill") =>
          entry[p] = call[c].reads /\ entry[q] = i /\ (p # q => text[i] = <<>>)
     /\ call[c].at = "ok" => IsSo(c)

PhasesHold == \A c \in Begun : Undisturbed(c) => Phase(c)

LEMMA PhaseOfOthers ==
  ASSUME TreeAndTexts, TreeAndTexts', NEW c \in FileCalls, NEW d \in FileCalls, FileStep(d), c # d,
         c \in Begun', Undisturbed(c)', Phase(c)
  PROVE  Phase(c)'
<1>1. call'[c] = call[c] /\ c \in Begun
  BY StepTouches, UndisturbedBefore
<1>2. FilesShape /\ CallGoesOn(c) /\ call[c].op \in Ops
  BY <1>1 DEF TreeAndTexts, TreeInv, CallGoesOn, Begun
<1>3. PICK o \in Ops : o = call[c].op
  BY <1>2
<1>4. PICK p \in Paths : p = call[c].op.path
  BY <1>2, OpsAre
<1>5. /\ \A r \in Paths : Under(p, r) => entry'[r] = entry[r]
      /\ call[c].op.do # "move" =>
           \A r \in Paths : Under(p, r) /\ IsFile(r) => text'[entry[r]] = text[entry[r]]
      /\ Under(p, p)
  <2>1. p \in Named(c)
    BY <1>4 DEF Named
  <2> QED BY <2>1, OthersLeave, UnderFacts
<1>6. ASSUME call[c].op.do \in {"copy", "move"}
      PROVE  /\ call[c].op.dst \in Paths /\ entry'[call[c].op.dst] = entry[call[c].op.dst]
             /\ call[c].op.do # "move" /\ IsFile(call[c].op.dst) =>
                  text'[entry[call[c].op.dst]] = text[entry[call[c].op.dst]]
  <2>1. PICK q \in Paths : q = call[c].op.dst
    BY <1>2, <1>6, OpsAre
  <2>2. q \in Named(c)
    BY <1>6, <2>1 DEF Named, Written
  <2> QED BY <2>1, <2>2, OthersLeave, UnderFacts
<1>7. PICK i, j : i = call[c].writes /\ j = call[c].reads
  OBVIOUS
<1>8. ASSUME Stands(c, "write", "fill")
      PROVE  entry'[p] = i /\ (~call[c].op.flag => text'[i] = <<>>)
  <2>1. entry[p] = i /\ (~call[c].op.flag => text[i] = <<>>)
    BY <1>4, <1>7, <1>8 DEF Phase
  <2>2. i \in Nodes /\ call[c].op.do # "move"
    BY <1>2, <1>7, <1>8 DEF CallGoesOn, Stands
  <2> QED BY <1>5, <2>1, <2>2 DEF IsFile
<1>9. ASSUME Stands(c, "copy", "open")
      PROVE  entry'[p] = j
  BY <1>4, <1>5, <1>7, <1>9 DEF Phase
<1>10. ASSUME Stands(c, "copy", "fill")
       PROVE  /\ entry'[p] = j /\ entry'[call[c].op.dst] = i
              /\ p # call[c].op.dst => text'[i] = <<>>
  <2>1. entry[p] = j /\ entry[call[c].op.dst] = i /\ (p # call[c].op.dst => text[i] = <<>>)
    BY <1>4, <1>7, <1>10 DEF Phase
  <2>2. i \in Nodes /\ call[c].op.do = "copy"
    BY <1>2, <1>7, <1>10 DEF CallGoesOn, Stands
  <2> QED BY <1>5, <1>6, <2>1, <2>2 DEF IsFile
<1>11. ASSUME IsSo(c)
       PROVE  IsSo(c)'
  <2>1. ASSUME call[c].op.do = "write"
        PROVE  /\ IsFile(p)' /\ text'[entry'[p]] # <<>> /\ text'[entry'[p]][Len(text'[entry'[p]])] = c
               /\ ~call[c].op.flag => text'[entry'[p]] = <<c>>
    <3>1. /\ IsFile(p) /\ text[entry[p]] # <<>> /\ text[entry[p]][Len(text[entry[p]])] = c
          /\ ~call[c].op.flag => text[entry[p]] = <<c>>
      BY <1>4, <1>11, <2>1 DEF IsSo
    <3>2. entry'[p] = entry[p] /\ text'[entry[p]] = text[entry[p]]
      BY <1>5, <2>1, <3>1
    <3> QED BY <3>1, <3>2 DEF IsFile
  <2>2. ASSUME call[c].op.do = "delete", NEW r \in Paths, Under(p, r)
        PROVE  entry'[r] = NoEntry
    BY <1>4, <1>5, <1>11, <2>2 DEF IsSo
  <2>3. ASSUME call[c].op.do = "mkdir"
        PROVE  IsDir(p)'
    BY <1>4, <1>5, <1>11, <2>3 DEF IsSo, IsDir
  <2>4. ASSUME call[c].op.do = "copy", NEW q \in Paths, q = call[c].op.dst, p # q
        PROVE  IsFile(p)' /\ IsFile(q)' /\ text'[entry'[p]] = text'[entry'[q]]
    <3>1. IsFile(p) /\ IsFile(q) /\ text[entry[p]] = text[entry[q]]
      BY <1>4, <1>11, <2>4 DEF IsSo
    <3>2. /\ entry'[p] = entry[p] /\ text'[entry[p]] = text[entry[p]]
          /\ entry'[q] = entry[q] /\ text'[entry[q]] = text[entry[q]]
      BY <1>5, <1>6, <2>4, <3>1
    <3> QED BY <3>1, <3>2 DEF IsFile
  <2>5. ASSUME call[c].op.do = "move", NEW q \in Paths, q = call[c].op.dst
        PROVE  entry'[q] # NoEntry /\ (p # q => entry'[p] = NoEntry)
    BY <1>4, <1>5, <1>6, <1>11, <2>5 DEF IsSo
  <2>6. ASSUME call[c].op.do = "grep"
        PROVE  Hits(p)' = Hits(p)
    <3>1. \A r \in Paths : Under(p, r) =>
            entry'[r] = entry[r] /\ (IsFile(r) => text'[entry[r]] = text[entry[r]])
      BY <1>5, <2>6
    <3> QED BY <3>1 DEF Hits, IsFile
  <2>7. {r \in Beneath(p) : entry'[r] # NoEntry} = {r \in Beneath(p) : entry[r] # NoEntry}
    BY <1>5 DEF Beneath
  <2>8. ASSUME call[c].op.do = "read"
        PROVE  IsFile(p)'
    BY <1>4, <1>5, <1>11, <2>8 DEF IsSo, IsFile
  <2>9. ASSUME call[c].op.do = "stat"
        PROVE  entry'[p] # NoEntry
    BY <1>4, <1>5, <1>11, <2>9 DEF IsSo
  <2>10. call[c].op.do \in {"copy", "move"} => call[c].op.dst \in Paths
    BY <1>6
  <2>11. ASSUME call[c].op.do = "grep"
         PROVE  call'[c].got \subseteq Hits(p)' /\ Cardinality(call'[c].got) <= MaxHits
    BY <1>1, <1>4, <1>11, <2>6, <2>11 DEF IsSo
  <2>12. ASSUME call[c].op.do = "list"
         PROVE  call'[c].got = {r \in Beneath(p) : entry'[r] # NoEntry}
    BY <1>1, <1>4, <1>11, <2>7, <2>12 DEF IsSo
  <2>13. call'[c] = call[c]
    BY <1>1
  <2>14. /\ call[c].op.do = "copy" /\ p # call[c].op.dst =>
              /\ entry'[p] \in Nodes /\ entry'[call[c].op.dst] \in Nodes
              /\ text'[entry'[p]] = text'[entry'[call[c].op.dst]]
         /\ call[c].op.do = "move" =>
              entry'[call[c].op.dst] # NoEntry /\ (p # call[c].op.dst => entry'[p] = NoEntry)
    <3>1. CASE call[c].op.do = "copy"
      <4>1. PICK q \in Paths : q = call[c].op.dst
        BY <2>10, <3>1
      <4> QED BY <2>4, <3>1, <4>1 DEF IsFile
    <3>2. CASE call[c].op.do = "move"
      <4>1. call[c].op.dst \in Paths
        BY <2>10, <3>2
      <4> QED BY <2>5, <3>2, <4>1
    <3> QED BY <3>1, <3>2
  <2>15. CASE call[c].op.do \in {"write", "delete", "mkdir"}
    BY <1>4, <2>1, <2>2, <2>3, <2>13, <2>15 DEF IsSo, IsFile, IsDir
  <2>16. CASE call[c].op.do \in {"copy", "move"}
    BY <1>4, <2>13, <2>14, <2>16 DEF IsSo, IsFile
  <2>17. CASE call[c].op.do \notin {"write", "delete", "mkdir", "copy", "move"}
    BY <1>4, <2>8, <2>9, <2>11, <2>12, <2>13, <2>17 DEF IsSo, IsFile
  <2> QED BY <2>15, <2>16, <2>17
<1>12. call[c].at = "ok" => IsSo(c)'
  BY <1>11 DEF Phase
<1> QED BY <1>1, <1>4, <1>7, <1>8, <1>9, <1>10, <1>12 DEF Phase, Stands

(* A step of the call itself. *)
PhaseAsked(c) ==
  /\ TreeAndTexts /\ TreeAndTexts' /\ Phase(c) /\ GoesOn(c) /\ Runs(c)
  /\ call[c].op \in Ops /\ call[c].op.path \in Paths

LEMMA PhaseVacuous ==
  ASSUME NEW c \in FileCalls, PhaseAsked(c), call'[c].at \notin {"fill", "ok"},
         call'[c].at = "open" => call[c].op.do # "copy"
  PROVE  Phase(c)'
  BY DEF Phase, Stands, PhaseAsked, GoesOn

LEMMA PhaseRefused ==
  ASSUME NEW c \in FileCalls, PhaseAsked(c), Refused(c)
  PROVE  Phase(c)'
<1>1. call'[c].at = "error"
  BY MovesIs DEF PhaseAsked, TreeAndTexts, Refused, CallPlaces
<1> QED BY <1>1, PhaseVacuous

LEMMA PhaseOfDirectories ==
  ASSUME NEW c \in FileCalls, PhaseAsked(c), MakeParents(c) \/ DeleteLooks(c) \/ DeleteChildren(c)
  PROVE  Phase(c)'
<1>1. FilesShape /\ CallGoesOn(c) /\ Runs(c)
  BY DEF PhaseAsked, TreeAndTexts, TreeInv
<1>2. CASE MakeParents(c)
  <2>1. PICK next : next = CASE call[c].op.do = "write" -> "open" [] call[c].op.do = "copy" -> "source"
                             [] call[c].op.do = "move" -> "rename" [] OTHER -> "mkdir"
    OBVIOUS
  <2>2. next \in {"open", "source", "rename", "mkdir"} /\ (next = "open" => call[c].op.do # "copy")
    BY <2>1
  <2>3. Moves(c, next) \/ Moves(c, "error")
    BY <1>2, <2>1 DEF MakeParents
  <2>4. next \in CallPlaces \ {"new"} /\ "error" \in CallPlaces \ {"new"}
    BY <2>2 DEF CallPlaces
  <2>5. call'[c].at = next \/ call'[c].at = "error"
    BY <1>1, <2>3, <2>4, MovesIs
  <2> QED BY <2>2, <2>5, PhaseVacuous
<1>3. CASE DeleteLooks(c) \/ DeleteChildren(c)
  <2>1. \E a \in {"error", "unlink", "children", "rmdir"} : Moves(c, a)
    BY <1>3 DEF DeleteLooks, DeleteChildren, Refused
  <2>2. call'[c].at \in {"error", "unlink", "children", "rmdir"}
    BY <1>1, <2>1, MovesIs DEF CallPlaces
  <2> QED BY <2>2, PhaseVacuous
<1> QED BY <1>2, <1>3

(* Nothing is left below a path at which there is nothing. *)
LEMMA NothingBelow ==
  ASSUME TreeAndTexts', NEW p \in Paths, entry'[p] = NoEntry, NEW r \in Paths, Under(p, r)
  PROVE  entry'[r] = NoEntry
<1>1. CASE p = <<r[1]>> /\ Len(r) = 2
  BY <1>1, NodesAreFiles DEF TreeAndTexts, TreeInv, TreeHangs, Hangs
<1> QED BY <1>1, UnderIs

LEMMA PhaseOfRemovals ==
  ASSUME NEW c \in FileCalls, PhaseAsked(c), MakeDirectory(c) \/ DeleteFile(c) \/ DeleteDirectory(c)
  PROVE  Phase(c)'
<1>1. FilesShape /\ CallGoesOn(c) /\ Runs(c) /\ TreeAndTexts'
  BY DEF PhaseAsked, TreeAndTexts, TreeInv
<1>2. PICK p \in Paths : p = call[c].op.path
  BY DEF PhaseAsked
<1>3. CASE Refused(c)
  BY <1>3, PhaseRefused
<1>4. CASE ~Refused(c)
  <2>1. Moves(c, "ok")
    BY <1>4 DEF MakeDirectory, DeleteFile, DeleteDirectory
  <2>2. call'[c].at = "ok" /\ call'[c].op = call[c].op
    BY <1>1, <2>1, MovesIs DEF CallPlaces
  <2>3. CASE MakeDirectory(c)
    <3>1. call[c].op.do = "mkdir" /\ entry' = [entry EXCEPT ![p] = Directory]
      BY <1>2, <1>4, <2>3 DEF MakeDirectory, Stands, Written
    <3>2. entry'[p] = Directory
      BY <1>1, <3>1 DEF FilesShape
    <3>3. IsSo(c)'
      BY <1>2, <2>2, <3>1, <3>2 DEF IsSo, IsDir
    <3> QED BY <2>2, <3>3 DEF Phase, Stands
  <2>4. CASE DeleteFile(c) \/ DeleteDirectory(c)
    <3>1. call[c].op.do = "delete" /\ entry' = [entry EXCEPT ![p] = NoEntry]
      BY <1>2, <1>4, <2>4 DEF DeleteFile, DeleteDirectory, Stands
    <3>2. entry'[p] = NoEntry
      BY <1>1, <3>1 DEF FilesShape
    <3>3. \A r \in Paths : Under(p, r) => entry'[r] = NoEntry
      BY <1>1, <3>2, NothingBelow
    <3>4. IsSo(c)'
      BY <1>2, <2>2, <3>1, <3>3 DEF IsSo
    <3> QED BY <2>2, <3>4 DEF Phase, Stands
  <2> QED BY <2>3, <2>4
<1> QED BY <1>3, <1>4

LEMMA PhaseOfOpens ==
  ASSUME NEW c \in FileCalls, PhaseAsked(c), WriteOpens(c) \/ CopyOpens(c)
  PROVE  Phase(c)'
<1>1. FilesShape /\ CallGoesOn(c) /\ Runs(c) /\ call[c].at = "open" /\ Written(c) \in Paths
  <2>1. call[c].op \in Ops /\ FilesShape
    BY DEF PhaseAsked, TreeAndTexts
  <2> QED BY <2>1, WrittenIsAPath DEF PhaseAsked, TreeAndTexts, TreeInv, WriteOpens, CopyOpens, Stands
<1>2. PICK p \in Paths, q \in Paths : p = call[c].op.path /\ q = Written(c)
  BY <1>1 DEF PhaseAsked
<1>3. PICK e : /\ Opens(c, q, e)
               /\ \/ call[c].op.do = "write" /\ e = ~call[c].op.flag /\ p = q
                  \/ call[c].op.do = "copy" /\ e = TRUE /\ q = call[c].op.dst
  BY <1>2 DEF WriteOpens, CopyOpens, Stands, Written
<1>4. CASE Refused(c)
  BY <1>4, PhaseRefused
<1>5. CASE ~Refused(c)
  <2>1. PICK i : i = IF IsFile(q) THEN entry[q] ELSE c
    OBVIOUS
  <2>2. i \in Nodes
    BY <2>1 DEF IsFile, Nodes
  <2>3. /\ entry' = [entry EXCEPT ![q] = i]
        /\ text' = IF e THEN [text EXCEPT ![i] = <<>>] ELSE text
        /\ call' = [call EXCEPT ![c].at = "fill", ![c].writes = i]
    BY <1>3, <1>5, <2>1 DEF Opens
  <2>4. /\ call'[c].at = "fill" /\ call'[c].op = call[c].op
        /\ call'[c].writes = i /\ call'[c].reads = call[c].reads
    BY <1>1, <2>2, <2>3, OpensIs
  <2>5. entry'[q] = i /\ (p # q => entry'[p] = entry[p])
    BY <1>1, <2>3 DEF FilesShape
  <2>6. e => text'[i] = <<>>
    BY <1>1, <2>2, <2>3 DEF FilesShape
  <2>7. CASE call[c].op.do = "write"
    BY <1>2, <1>3, <2>4, <2>5, <2>6, <2>7 DEF Phase, Stands
  <2>8. CASE call[c].op.do = "copy"
    <3>1. entry[p] = call[c].reads
      BY <1>1, <1>2, <2>8 DEF PhaseAsked, Phase, Stands
    <3>2. call[c].reads \in Nodes
      BY <1>1, <2>8 DEF CallGoesOn
    <3>3. p = q => i = entry[p]
      BY <2>1, <3>1, <3>2 DEF IsFile
    <3>4. entry'[p] = call[c].reads
      BY <2>5, <3>1, <3>3
    <3> QED BY <1>2, <1>3, <2>4, <2>5, <2>6, <2>8, <3>4 DEF Phase, Stands
  <2> QED BY <1>3, <2>7, <2>8
<1> QED BY <1>4, <1>5

LEMMA PhaseOfSource ==
  ASSUME NEW c \in FileCalls, PhaseAsked(c), CopyOpensSource(c)
  PROVE  Phase(c)'
<1>1. FilesShape /\ Runs(c) /\ call[c].op.do = "copy"
  BY DEF PhaseAsked, TreeAndTexts, CopyOpensSource, Stands
<1>2. CASE Refused(c)
  BY <1>2, PhaseRefused
<1>3. CASE ~Refused(c)
  <2>1. PICK p, i : p = call[c].op.path /\ i = entry[p]
    OBVIOUS
  <2>2. i \in Nodes /\ call' = [call EXCEPT ![c].at = "open", ![c].reads = i] /\ entry' = entry
    BY <1>3, <2>1 DEF CopyOpensSource, IsFile
  <2>3. call'[c].at = "open" /\ call'[c].op = call[c].op /\ call'[c].reads = i
    BY <1>1, <2>2, SourceIs
  <2> QED BY <2>1, <2>2, <2>3 DEF Phase, Stands
<1> QED BY <1>2, <1>3

LEMMA PhaseOfFills ==
  ASSUME NEW c \in FileCalls, PhaseAsked(c), WriteFills(c) \/ CopyFills(c)
  PROVE  Phase(c)'
<1>1. FilesShape /\ CallGoesOn(c) /\ Runs(c) /\ OnePlace
  BY DEF PhaseAsked, TreeAndTexts, TreeInv
<1>2. CASE Refused(c)
  BY <1>2, PhaseRefused
<1>3. CASE ~Refused(c)
  <2>1. call[c].at = "fill"
    BY DEF WriteFills, CopyFills, Stands
  <2>2. PICK p \in Paths, i \in Nodes : p = call[c].op.path /\ i = call[c].writes
    BY <1>1, <2>1 DEF PhaseAsked, CallGoesOn
  <2>3. PICK old \in Seq(Nodes) : old = text[i]
    BY <1>1 DEF FilesShape
  <2>4. Moves(c, "ok") /\ entry' = entry
    BY <1>3 DEF WriteFills, CopyFills
  <2>5. call'[c].at = "ok" /\ call'[c].op = call[c].op
    BY <1>1, <2>4, MovesIs DEF CallPlaces
  <2>6. CASE WriteFills(c)
    <3>1. call[c].op.do = "write" /\ entry[p] = i /\ (~call[c].op.flag => old = <<>>)
      BY <2>1, <2>2, <2>3, <2>6 DEF WriteFills, Stands, PhaseAsked, Phase
    <3>2. PICK new : new = IF call[c].op.flag THEN Append(old, c) ELSE Over(<<c>>, old)
      OBVIOUS
    <3>3. text' = [text EXCEPT ![i] = new]
      BY <1>3, <2>2, <2>3, <2>6, <3>2 DEF WriteFills
    <3>4. text'[i] = new
      BY <1>1, <3>3 DEF FilesShape
    <3>5. c \in Nodes
      BY DEF Nodes
    <3>6. new # <<>> /\ new[Len(new)] = c /\ (~call[c].op.flag => new = <<c>>)
      <4>1. CASE call[c].op.flag
        <5>1. Append(old, c) # <<>> /\ Len(Append(old, c)) = Len(old) + 1 /\ Append(old, c)[Len(old) + 1] = c
          BY <3>5, AppendProperties
        <5> QED BY <3>2, <4>1, <5>1
      <4>2. CASE ~call[c].op.flag
        <5>1. <<c>> \in Seq(Nodes)
          BY <3>5
        <5>2. PICK a \in Seq(Nodes) : a = <<c>>
          BY <5>1
        <5>3. a # <<>> /\ Len(a) = 1 /\ a[1] = c
          BY <5>2
        <5>4. new = a
          BY <3>1, <3>2, <4>2, <5>2, OverIs
        <5> QED BY <5>2, <5>3, <5>4
      <4> QED BY <4>1, <4>2
    <3>7. IsSo(c)'
      BY <2>2, <2>4, <2>5, <3>1, <3>4, <3>6 DEF IsSo, IsFile
    <3> QED BY <2>5, <3>7 DEF Phase, Stands
  <2>7. CASE CopyFills(c)
    <3>1. call[c].op.do = "copy"
      BY <2>7 DEF CopyFills, Stands
    <3>2. PICK q \in Paths, j \in Nodes : q = call[c].op.dst /\ j = call[c].reads
      BY <1>1, <2>1, <3>1, OpsAre DEF PhaseAsked, CallGoesOn
    <3>3. entry[p] = j /\ entry[q] = i /\ (p # q => old = <<>>)
      BY <2>1, <2>2, <2>3, <3>1, <3>2 DEF PhaseAsked, Phase, Stands
    <3>4. text' = [text EXCEPT ![i] = Over(text[j], old)]
      BY <1>3, <2>2, <2>3, <2>7, <3>2 DEF CopyFills
    <3>5. ASSUME p # q
          PROVE  text'[i] = text'[j]
      <4>1. i # j
        BY <1>1, <3>3, <3>5 DEF OnePlace, IsFile
      <4>2. text[j] \in Seq(Nodes)
        BY <1>1 DEF FilesShape
      <4>3. Over(text[j], old) = text[j]
        BY <3>3, <3>5, <4>2, OverIs
      <4> QED BY <1>1, <3>4, <4>1, <4>3 DEF FilesShape
    <3>6. IsSo(c)'
      BY <2>2, <2>4, <2>5, <3>1, <3>2, <3>3, <3>5 DEF IsSo, IsFile
    <3> QED BY <2>5, <3>6 DEF Phase, Stands
  <2> QED BY <2>6, <2>7
<1> QED BY <1>2, <1>3

LEMMA PhaseOfRename ==
  ASSUME NEW c \in FileCalls, PhaseAsked(c), Rename(c)
  PROVE  Phase(c)'
<1>1. FilesShape /\ Runs(c) /\ call[c].op.do = "move"
  BY DEF PhaseAsked, TreeAndTexts, Rename, Stands
<1>2. PICK src \in Paths, dst \in Paths : src = call[c].op.path /\ dst = call[c].op.dst
  BY <1>1, OpsAre DEF PhaseAsked
<1>3. CASE Refused(c)
  BY <1>3, PhaseRefused
<1>4. CASE ~Refused(c)
  <2>1. /\ Moves(c, "ok") /\ MayRename(src, dst)
        /\ entry' = [q \in Paths |->
                IF src = dst THEN entry[q]
                ELSE IF Under(dst, q)
                     THEN LET old == Rebase(dst, src, q)
                          IN IF old \in Paths THEN entry[old] ELSE NoEntry
                     ELSE IF q \in {r \in Paths : Under(src, r)} THEN NoEntry ELSE entry[q]]
    BY <1>2, <1>4 DEF Rename
  <2>2. call'[c].at = "ok" /\ call'[c].op = call[c].op
    BY <1>1, <2>1, MovesIs DEF CallPlaces
  <2>3. entry[src] # NoEntry
    BY <2>1 DEF MayRename
  <2>4. entry'[dst] = entry[src]
    <3>1. Under(dst, dst) /\ Rebase(dst, src, dst) = src
      BY RebaseTop, UnderFacts
    <3> QED BY <2>1, <3>1
  <2>5. ASSUME src # dst
        PROVE  entry'[src] = NoEntry
    <3>1. CASE Under(dst, src)
      <4>1. dst = <<src[1]>> /\ Len(src) = 2
        BY <2>5, <3>1, UnderIs
      <4>2. Rebase(dst, src, src) = src \o <<0>>
        BY <4>1, RebaseBelow
      <4>3. src \o <<0>> \notin Paths
        <5>1. src \o <<0>> \in Paths <=> Len(src) = 1
          BY BelowIsPath
        <5>2. Len(src) # 1
          BY <4>1
        <5> QED BY <5>1, <5>2
      <4> QED BY <2>1, <2>5, <3>1, <4>2, <4>3
    <3>2. CASE ~Under(dst, src)
      BY <2>1, <2>5, <3>2, UnderFacts
    <3> QED BY <3>1, <3>2
  <2>6. IsSo(c)'
    BY <1>1, <1>2, <2>2, <2>3, <2>4, <2>5 DEF IsSo
  <2> QED BY <2>2, <2>6 DEF Phase, Stands
<1> QED BY <1>3, <1>4

LEMMA PhaseOfLooks ==
  ASSUME NEW c \in FileCalls, PhaseAsked(c), FsRead(c) \/ FsList(c) \/ FsStat(c) \/ FsGrep(c)
  PROVE  Phase(c)'
<1>1. FilesShape /\ Runs(c)
  BY DEF PhaseAsked, TreeAndTexts
<1>2. PICK p \in Paths : p = call[c].op.path
  BY DEF PhaseAsked
<1>3. \E found \in SUBSET Paths, a \in {"ok", "error"} :
        /\ call' = [call EXCEPT ![c].got = found, ![c].at = a] /\ UNCHANGED <<entry, text>>
        /\ \/ call[c].op.do = "read" /\ (a = "ok" => IsFile(p))
           \/ call[c].op.do = "list" /\ found = {q \in Beneath(p) : entry[q] # NoEntry}
           \/ call[c].op.do = "stat" /\ (a = "ok" => entry[p] # NoEntry)
           \/ call[c].op.do = "grep" /\ found \subseteq Hits(p) /\ Cardinality(found) <= MaxHits
  <2>1. CASE FsRead(c)
    <3>1. {p} \in SUBSET Paths
      OBVIOUS
    <3> QED BY <1>2, <2>1, <3>1 DEF FsRead, LooksAt, Stands
  <2>2. CASE FsList(c)
    <3>1. {q \in Beneath(p) : entry[q] # NoEntry} \in SUBSET Paths
      BY DEF Beneath
    <3> QED BY <1>2, <2>2, <3>1 DEF FsList, LooksAt, Stands
  <2>3. CASE FsStat(c)
    <3>1. {p} \in SUBSET Paths
      OBVIOUS
    <3> QED BY <1>2, <2>3, <3>1 DEF FsStat, LooksAt, Stands
  <2>4. CASE FsGrep(c)
    <3>1. PICK found \in SUBSET Hits(p) : Cardinality(found) <= MaxHits /\ LooksAt(c, "grep", found, TRUE)
      BY <1>2, <2>4 DEF FsGrep
    <3>2. found \in SUBSET Paths /\ found \subseteq Hits(p)
      BY DEF Hits
    <3> QED BY <3>1, <3>2 DEF LooksAt, Stands
  <2> QED BY <2>1, <2>2, <2>3, <2>4
<1>4. PICK found \in SUBSET Paths, a \in {"ok", "error"} :
        /\ call' = [call EXCEPT ![c].got = found, ![c].at = a] /\ UNCHANGED <<entry, text>>
        /\ \/ call[c].op.do = "read" /\ (a = "ok" => IsFile(p))
           \/ call[c].op.do = "list" /\ found = {q \in Beneath(p) : entry[q] # NoEntry}
           \/ call[c].op.do = "stat" /\ (a = "ok" => entry[p] # NoEntry)
           \/ call[c].op.do = "grep" /\ found \subseteq Hits(p) /\ Cardinality(found) <= MaxHits
  BY <1>3
<1>5. call'[c].at = a /\ call'[c].op = call[c].op /\ call'[c].got = found
  <2>1. call' = [call EXCEPT ![c].got = found, ![c].at = a]
    BY <1>4
  <2> QED BY <1>1, <2>1, LooksIs
<1>6. Hits(p)' = Hits(p) /\ IsFile(p)' = IsFile(p)
  BY <1>4 DEF Hits, IsFile
<1>7. a = "ok" => IsSo(c)'
  BY <1>2, <1>4, <1>5, <1>6 DEF IsSo
<1> QED BY <1>5, <1>7 DEF Phase, Stands

LEMMA PhaseOfOwn ==
  ASSUME TreeAndTexts, TreeAndTexts', NEW c \in FileCalls, FileStep(c), ~BeginCall(c), Phase(c)
  PROVE  Phase(c)'
<1>1. GoesOn(c) /\ Runs(c)
  BY StepGoesOn
<1>2. call[c].op \in Ops /\ call[c].op.path \in Paths
  BY <1>1, OpsAre DEF TreeAndTexts, TreeInv, CallGoesOn, Runs
<1>3. PhaseAsked(c)
  BY <1>1, <1>2 DEF PhaseAsked
<1> QED BY <1>3, PhaseOfDirectories, PhaseOfRemovals, PhaseOfOpens, PhaseOfSource, PhaseOfFills,
           PhaseOfRename, PhaseOfLooks DEF FileStep

-----------------------------------------------------------------------------
(* The file tools, however many calls run. *)

FilesIInv == TreeAndTexts /\ PhasesHold

LEMMA FilesIInvHolds == FilesSpec => []FilesIInv
<1>1. FileToolsInit => PhasesHold
  <2>1. FileToolsInit => \A c \in FileCalls : call[c].at = "new"
    BY DEF FileToolsInit
  <2> QED BY <2>1 DEF PhasesHold, Begun
<1>2. ASSUME TreeAndTexts, TreeAndTexts', PhasesHold, [FileToolsNext]_fileToolVars
      PROVE  PhasesHold'
  <2>1. CASE UNCHANGED fileToolVars
    <3>1. UNCHANGED <<entry, text, call, firstTexts>>
      BY <2>1 DEF fileToolVars
    <3>2. Begun' = Begun /\ \A c \in Begun : Undisturbed(c)' <=> Undisturbed(c)
      BY <3>1 DEF Begun, Undisturbed, Named, Written
    <3>3. \A c \in Begun : Phase(c)' <=> Phase(c)
      BY <3>1 DEF Phase, Stands, IsSo, IsFile, IsDir, Hits
    <3> QED BY <1>2, <3>2, <3>3 DEF PhasesHold
  <2>2. ASSUME NEW d \in FileCalls, FileStep(d), NEW c \in Begun', Undisturbed(c)'
        PROVE  Phase(c)'
    <3>1. c \in FileCalls
      BY DEF Begun
    <3>2. CASE c # d \/ ~BeginCall(d)
      <4>1. c \in Begun /\ Undisturbed(c)
        BY <1>2, <2>2, <3>1, <3>2, UndisturbedBefore
      <4>2. Phase(c)
        BY <1>2, <4>1 DEF PhasesHold
      <4> QED BY <1>2, <2>2, <3>1, <3>2, <4>2, PhaseOfOthers, PhaseOfOwn
    <3>3. CASE c = d /\ BeginCall(d)
      <4>1. Begins(d)
        BY <1>2, <3>3, BeginIs DEF TreeAndTexts
      <4> QED BY <3>3, <4>1 DEF Begins, Phase, Stands
    <3> QED BY <3>2, <3>3
  <2> QED BY <1>2, <2>1, <2>2 DEF FileToolsNext, PhasesHold
<1> QED BY <1>1, <1>2, TreeAndTextsHold, PTL DEF FilesSpec, FilesIInv

(* The file tools under any interleaving and failure, for any number of calls
   and any tree: no text is lost that no call was asked to give up, and what a
   call reports is so (fs.rs:204-232, 311-325, 403-423, 487-502). *)
THEOREM FilesInvHolds == FilesSpec => []FilesInv
<1>1. FilesIInv => FilesInv
  <2>1. PhasesHold => SuccessIsTrue
    BY DEF PhasesHold, Phase, SuccessIsTrue
  <2> QED BY <2>1, KeptTextSurvives DEF FilesIInv, FilesInv
<1> QED BY <1>1, FilesIInvHolds, PTL

=============================================================================
