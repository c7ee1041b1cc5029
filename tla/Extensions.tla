----------------------------- MODULE Extensions -----------------------------
(***************************************************************************)
(* Skills and plugins made of files: a directory with SKILL.md or PLUGIN.md,*)
(* disabled by a marker file in it (crates/unly-plugins/src/skill_loader.rs *)
(* and plugin_loader.rs).  The tools of the agent                           *)
(* (crates/unly-tools/src/builtin/skills.rs) and the command `unly plugin`, *)
(* another process, change the directories while turns load them into the   *)
(* system prompt (crates/unly-agent/src/runtime.rs:1137 and                 *)
(* crates/unly-cli/src/service.rs:300).  No lock is taken.                  *)
(***************************************************************************)
EXTENDS FiniteSets, Naturals

CONSTANTS
  Skills, Plugins, (* directory names                                      *)
  Editors,         (* calls of the tools                                   *)
  Cli,             (* the process of the command line                      *)
  MaxOps,          (* bound: operations in a behaviour                     *)
  MaxLoads         (* bound: turns in a behaviour                          *)

Dirs == Skills \union Plugins
Actors == Editors \union {Cli}

VARIABLES
  dir,             (* each directory: [there, md, marker]                  *)
  op,              (* what each actor is doing                             *)
  base,            (* extensions in the prompt made when the service began *)
  load,            (* the load of a turn: [on, todo, read, active]           *)
  appended,        (* extensions in the section that the turn appends      *)
  told,            (* history: what the operations reported last           *)
  touched,         (* history: directories worked on since the load began  *)
  ops, loads

extVars == <<dir, op, base, load, appended, told, touched, ops, loads>>

Missing == [there |-> FALSE, md |-> FALSE, marker |-> FALSE]
NoWork == [what |-> "none", at |-> "none", dir |-> {}, off |-> FALSE, alone |-> TRUE]
NoLoad == [on |-> FALSE, todo |-> {}, read |-> {}, active |-> {}]

ExtInit ==
  /\ dir \in [Dirs -> {Missing, [there |-> TRUE, md |-> TRUE, marker |-> FALSE]}]
  /\ base = {d \in Dirs : dir[d].md}
  /\ told = [d \in Dirs |-> IF dir[d].md THEN "on" ELSE "gone"]
  /\ op = [a \in Actors |-> NoWork]
  /\ load = NoLoad /\ appended = base /\ touched = {}
  /\ ops = 0 /\ loads = 0

-----------------------------------------------------------------------------
(* Operations.  A handler looks at the directory and gives up or goes on; the
   steps below are calls of the file system. *)

WorkingOn(d) == {a \in Actors : op[a].dir = {d}}

Becomes(a, d, what, at, off) ==
  LET others == WorkingOn(d)
  IN  op' = [b \in Actors |->
        IF b = a THEN [what |-> what, at |-> at, dir |-> {d}, off |-> off, alone |-> others = {}]
        ELSE IF b \in others THEN [op[b] EXCEPT !.alone = FALSE] ELSE op[b]]

Starts(a, d) ==
  /\ op[a] = NoWork /\ ops < MaxOps /\ ops' = ops + 1
  /\ touched' = touched \union {d}
  /\ UNCHANGED <<base, load, appended, loads>>

(* An extension that exists is refused. *)
Create(a, d) ==
  /\ Starts(a, d)
  /\ IF dir[d].there THEN UNCHANGED op ELSE Becomes(a, d, "create", "make", FALSE)
  /\ UNCHANGED <<dir, told>>

(* The source was parsed before; it may hold the marker of a disabled skill. *)
Install(d) ==
  /\ Starts(Cli, d)
  /\ \E off \in BOOLEAN :
       IF dir[d].there THEN UNCHANGED op ELSE Becomes(Cli, d, "install", "make", off)
  /\ UNCHANGED <<dir, told>>

RemoveExt(a, d) ==
  /\ Starts(a, d)
  /\ IF dir[d].there THEN Becomes(a, d, "remove", "unlink", FALSE) ELSE UNCHANGED op
  /\ UNCHANGED <<dir, told>>

(* What is not there cannot be enabled or disabled; off says which is asked. *)
Enable(a, d) ==
  /\ Starts(a, d)
  /\ IF dir[d].there THEN Becomes(a, d, "enable", "look", FALSE) ELSE UNCHANGED op
  /\ UNCHANGED <<dir, told>>

Disable(a, d) ==
  /\ Starts(a, d)
  /\ IF dir[d].there THEN Becomes(a, d, "disable", "look", TRUE) ELSE UNCHANGED op
  /\ UNCHANGED <<dir, told>>

(* The ten handlers: one per tool of the agent... *)
SkillCreate(a) == a \in Editors /\ \E d \in Skills : Create(a, d)
SkillEnable(a) == a \in Editors /\ \E d \in Skills : Enable(a, d)
SkillDisable(a) == a \in Editors /\ \E d \in Skills : Disable(a, d)
SkillRemove(a) == a \in Editors /\ \E d \in Skills : RemoveExt(a, d)
PluginCreate(a) == a \in Editors /\ \E d \in Plugins : Create(a, d)
PluginEnable(a) == a \in Editors /\ \E d \in Plugins : Enable(a, d)
PluginDisable(a) == a \in Editors /\ \E d \in Plugins : Disable(a, d)
PluginRemove(a) == a \in Editors /\ \E d \in Plugins : RemoveExt(a, d)

(* ... and `unly plugin`, which works on the skills. *)
PluginCommand == \E d \in Skills : Install(d) \/ RemoveExt(Cli, d) \/ Enable(Cli, d) \/ Disable(Cli, d)

-----------------------------------------------------------------------------
(* The steps of an operation under way. *)

DirOf(a) == CHOOSE d \in Dirs : op[a].dir = {d}

Step(a, at, next) ==
  /\ op[a].at = at
  /\ op' = [op EXCEPT ![a].at = next]
  /\ UNCHANGED <<base, load, appended, told, ops, loads>>

(* create_dir_all: succeeds if another actor has just made it. *)
MakeDir(a) ==
  /\ Step(a, "make", "fill")
  /\ dir' = [dir EXCEPT ![DirOf(a)].there = TRUE]
  /\ UNCHANGED touched

(* The md file is written, or the entries are copied, in any order; without
   the directory this fails. *)
Fill(a) ==
  /\ op[a].at = "fill" /\ dir[DirOf(a)].there
  /\ \/ dir' = [dir EXCEPT ![DirOf(a)].md = TRUE] /\ ~dir[DirOf(a)].md
     \/ dir' = [dir EXCEPT ![DirOf(a)].marker = TRUE] /\ op[a].off /\ ~dir[DirOf(a)].marker
  /\ UNCHANGED <<op, base, load, appended, told, touched, ops, loads>>

(* remove_dir_all: the entries in any order, then the directory. *)
Unlink(a) ==
  /\ op[a].at = "unlink"
  /\ \/ dir[DirOf(a)].md /\ dir' = [dir EXCEPT ![DirOf(a)].md = FALSE]
     \/ dir[DirOf(a)].marker /\ dir' = [dir EXCEPT ![DirOf(a)].marker = FALSE]
  /\ UNCHANGED <<op, base, load, appended, told, touched, ops, loads>>

Ends(a, outcome) ==
  /\ op' = [op EXCEPT ![a] = NoWork]
  /\ told' = [told EXCEPT ![DirOf(a)] = IF op[a].alone THEN outcome ELSE "mixed"]
  /\ touched' = touched \union {DirOf(a)}
  /\ UNCHANGED <<base, load, appended, ops, loads>>

Filled(a) ==
  /\ op[a].at = "fill"
  /\ dir[DirOf(a)].md /\ (op[a].off => dir[DirOf(a)].marker)
  /\ Ends(a, IF op[a].off THEN "off" ELSE "on")
  /\ UNCHANGED dir

Removed(a) ==
  /\ op[a].at = "unlink" /\ ~dir[DirOf(a)].md /\ ~dir[DirOf(a)].marker
  /\ dir' = [dir EXCEPT ![DirOf(a)].there = FALSE]
  /\ Ends(a, "gone")

(* Of a directory that may have been left half made no more is said. *)
MarkerOutcome(a) ==
  IF told[DirOf(a)] = "mixed" THEN "mixed" ELSE IF op[a].off THEN "off" ELSE "on"

(* Enabled or disabled already, or ... *)
AlreadySo(a) ==
  /\ op[a].at = "look" /\ dir[DirOf(a)].marker = op[a].off
  /\ Ends(a, MarkerOutcome(a))
  /\ UNCHANGED dir

ToBeMarked(a) ==
  /\ op[a].at = "look" /\ dir[DirOf(a)].marker # op[a].off
  /\ Step(a, "look", "mark")
  /\ UNCHANGED <<dir, touched>>

(* ... the marker is written, which needs the directory, or removed, which
   needs the marker. *)
SetMarker(a) ==
  /\ op[a].at = "mark"
  /\ IF op[a].off THEN dir[DirOf(a)].there ELSE dir[DirOf(a)].marker
  /\ dir' = [dir EXCEPT ![DirOf(a)].marker = op[a].off]
  /\ Ends(a, MarkerOutcome(a))

(* An error of the file system, or the end of the process: nothing is undone,
   and a directory that is half made or half removed stays.  It fails where the
   steps above are not possible, and may anywhere. *)
BreaksOff(a) ==
  /\ op[a] # NoWork
  /\ Ends(a, "mixed")
  /\ UNCHANGED dir

-----------------------------------------------------------------------------
(* The prompt. *)

(* load_from_dir at the start of the service, into the prompt that every turn
   begins with. *)
StartsService ==
  /\ loads < MaxLoads /\ loads' = loads + 1
  /\ base' = {d \in Dirs : dir[d].md /\ ~dir[d].marker}
  /\ load' = NoLoad /\ appended' = {} /\ touched' = Dirs
  /\ UNCHANGED <<dir, op, told, ops>>

(* build_runtime_extensions_prompt: a turn loads all directories again. *)
LoadBegins ==
  /\ load = NoLoad /\ loads < MaxLoads /\ loads' = loads + 1
  /\ load' = [on |-> TRUE, todo |-> Dirs, read |-> {}, active |-> {}]
  /\ touched' = {d \in Dirs : WorkingOn(d) # {}}
  /\ UNCHANGED <<dir, op, base, appended, told, ops>>

(* A directory without a readable md file is passed over... *)
ReadMd(d) ==
  /\ load.read = {} /\ d \in load.todo
  /\ load' = [load EXCEPT !.todo = @ \ {d}, !.read = IF dir[d].md THEN {d} ELSE {}]
  /\ UNCHANGED <<dir, op, base, appended, told, touched, ops, loads>>

(* Mutant: the marker does not count. *)
LookForMarker_Ignored(d) ==
  /\ load.read = {d}
  /\ load' = [load EXCEPT !.read = {}, !.active = @ \union {d}]
  /\ UNCHANGED <<dir, op, base, appended, told, touched, ops, loads>>

(* ... and the marker is looked for after the file was read. *)
LookForMarker(d) ==
  /\ load.read = {d}
  /\ load' = [load EXCEPT !.read = {},
                          !.active = IF dir[d].marker THEN @ ELSE @ \union {d}]
  /\ UNCHANGED <<dir, op, base, appended, told, touched, ops, loads>>

LoadEnds ==
  /\ load.on /\ load.todo = {} /\ load.read = {}
  /\ load' = NoLoad
  /\ appended' = load.active
  /\ UNCHANGED <<dir, op, base, told, touched, ops, loads>>

ExtNext ==
  \/ \E a \in Actors :
       \/ SkillCreate(a) \/ SkillEnable(a) \/ SkillDisable(a) \/ SkillRemove(a)
       \/ PluginCreate(a) \/ PluginEnable(a) \/ PluginDisable(a) \/ PluginRemove(a)
       \/ MakeDir(a) \/ Fill(a) \/ Unlink(a) \/ Filled(a) \/ Removed(a)
       \/ AlreadySo(a) \/ ToBeMarked(a) \/ SetMarker(a) \/ BreaksOff(a)
  \/ PluginCommand
  \/ StartsService \/ LoadBegins \/ LoadEnds
  \/ \E d \in Dirs : ReadMd(d) \/ LookForMarker(d)

-----------------------------------------------------------------------------
(* Properties. *)

(* A directory has entries only while it is there; an actor works on one
   directory; a load has left what it has read. *)
ExtTypeOK ==
  /\ \A d \in Dirs : dir[d].md \/ dir[d].marker => dir[d].there
  /\ \A a \in Actors : (op[a].dir = {}) = (op[a].at = "none") /\ Cardinality(op[a].dir) <= 1
  /\ base \union load.active \union appended \subseteq Dirs
  /\ told \in [Dirs -> {"on", "off", "gone", "mixed"}]

(* Between two turns: *)
Settled(d) == load = NoLoad /\ loads > 0 /\ d \notin touched

(* Hot reload: the section that a turn appends lists an extension whose last
   operation made or enabled it, and none that was disabled or removed,
   whatever other directories go through while the turn loads them
   (skills.rs:1-10, runtime.rs:1137-1153). *)
NextTurnShowsIt ==
  \A d \in Dirs : Settled(d) =>
    /\ told[d] = "on" => d \in appended
    /\ told[d] \in {"off", "gone"} => d \notin appended

(* What is half made or half removed is never reported as a success: a call
   that reports an extension as made, with nobody else at work on it, leaves
   it whole, and one that reports it gone leaves nothing that would refuse to
   make it again (skill_loader.rs:84-144, skills.rs:185-222). *)
ReportsAreWhole ==
  \A d \in Dirs : WorkingOn(d) = {} =>
    /\ told[d] \in {"on", "off"} => dir[d].md /\ dir[d].marker = (told[d] = "off")
    /\ told[d] = "gone" => dir[d] = Missing

(* The extensions, however their operations interleave with the turns that
   load them: what was reported is so, and the next turn shows it. *)
ExtInv == ExtTypeOK /\ NextTurnShowsIt /\ ReportsAreWhole

=============================================================================
