---------------------------- MODULE Installation ----------------------------
(***************************************************************************)
(* The installed program: `unly update` (crates/unly-cli/src/update.rs),    *)
(* `unly service ...` and `unly uninstall-cli`                              *)
(* (crates/unly-cli/src/commands.rs:1133-1565).  Updates are processes of   *)
(* their own; the commands about the service come from one operator, one    *)
(* after the other, and go through sudo, which may refuse any of them.      *)
(* systemd and GitHub are external.                                         *)
(*                                                                          *)
(* A file is named by its inode: an update that is still writing goes on    *)
(* writing when the file is renamed.  Inode 0 is the first executable, the  *)
(* others belong to the updates that make them.                             *)
(***************************************************************************)
EXTENDS Naturals, FiniteSets

CONSTANTS
  Updates,         (* runs of `unly update`, a set of numbers 1..n         *)
  MaxVersion,      (* bound: versions that are published                   *)
  MaxCommands      (* bound: commands of the operator                      *)

ASSUME InstallAssumption == 0 \notin Updates /\ MaxVersion \in Nat \ {0}

Inodes == Updates \union {0}

VARIABLES
  published,       (* the latest release                                   *)
  content,         (* inode -> [version, whole]                            *)
  exe, tmp,        (* what the two paths lead to: at most one inode        *)
  update,          (* each update: [at, runs, release, writes, stray]      *)
  unit,            (* the unit file exists                                 *)
  enabled, active, (* what systemd does with the service                   *)
  abandoned,       (* history: the unit was removed, but sudo refused a
                      part of that removal                                 *)
  command,         (* the operator's command: [what, at]                   *)
  said,            (* history: what the last command said                  *)
  refused,         (* history: sudo refused a part of the last command     *)
  crossed,         (* history: two updates were past their download, or
                      the executable was removed under one                 *)
  commands

fileVars == <<content, exe, tmp>>
systemVars == <<unit, enabled, active, abandoned>>
operatorVars == <<command, said, refused, commands>>
installVars == <<published, fileVars, update, systemVars, operatorVars, crossed>>

NoUpdate == [at |-> "new", runs |-> 0, release |-> 0, writes |-> 0, stray |-> FALSE]
NoCommand == [what |-> "none", at |-> "none"]

InstallInit ==
  /\ published = 1
  /\ content = [i \in Inodes |-> [version |-> 1, whole |-> TRUE]]
  /\ exe = {0} /\ tmp = {}
  /\ update = [u \in Updates |-> NoUpdate]
  /\ unit = FALSE /\ enabled = FALSE /\ active = FALSE /\ abandoned = FALSE
  /\ command = NoCommand /\ said = "nothing" /\ refused = FALSE /\ commands = 0
  /\ crossed = FALSE

Publish ==
  /\ published < MaxVersion
  /\ published' = published + 1
  /\ UNCHANGED <<fileVars, update, systemVars, operatorVars, crossed>>

-----------------------------------------------------------------------------
(* unly update *)

Goes(u, where) == update' = [update EXCEPT ![u].at = where]

PastDownload(u) == update[u].at \in {"open", "write", "chmod", "rename"}

(* Versions are numbers here; the one that runs is compiled in. *)
IsNewer(release, i) == release > content[i].version

(* fetch_latest_release; without a newer release nothing is done. *)
FetchLatest(u) ==
  /\ update[u].at = "new" /\ \E i \in exe : content[i].whole
  /\ \E i \in exe :
       update' = [update EXCEPT ![u] =
         [@ EXCEPT !.at = IF IsNewer(published, i) THEN "download" ELSE "latest",
                   !.runs = i, !.release = published]]
  /\ UNCHANGED <<published, fileVars, systemVars, operatorVars, crossed>>

(* The path of the executable is asked for after the download: when the file
   it runs from is no longer there, it is another path beside it. *)
Download(u) ==
  /\ update[u].at = "download"
  /\ update' = [update EXCEPT ![u].at = "open", ![u].stray = update[u].runs \notin exe]
  /\ crossed' = (crossed \/ \E v \in Updates \ {u} : PastDownload(v))
  /\ UNCHANGED <<published, fileVars, systemVars, operatorVars>>

(* Mutant: the executable itself is opened and written. *)
OpenTemporary_InPlace(u) ==
  /\ update[u].at = "open" /\ ~update[u].stray /\ exe # {}
  /\ \E i \in exe :
       /\ content' = [content EXCEPT ![i].whole = FALSE]
       /\ update' = [update EXCEPT ![u].at = "write", ![u].writes = i]
  /\ UNCHANGED <<published, exe, tmp, systemVars, operatorVars, crossed>>

(* std::fs::write(tmp): the file is made, or emptied if there is one... *)
OpenTemporary(u) ==
  /\ update[u].at = "open"
  /\ LET i == IF tmp = {} \/ update[u].stray THEN u ELSE CHOOSE j \in tmp : TRUE
     IN /\ content' = [content EXCEPT ![i].whole = FALSE]
        /\ tmp' = IF update[u].stray THEN tmp ELSE {i}
        /\ update' = [update EXCEPT ![u].at = "write", ![u].writes = i]
  /\ UNCHANGED <<published, exe, systemVars, operatorVars, crossed>>

(* ... and written, wherever it is by then. *)
WriteTemporary(u) ==
  /\ update[u].at = "write"
  /\ content' = [content EXCEPT ![update[u].writes] =
                   [version |-> update[u].release, whole |-> TRUE]]
  /\ Goes(u, "chmod")
  /\ UNCHANGED <<published, exe, tmp, systemVars, operatorVars, crossed>>

(* set_executable and rename fail if the path is gone. *)
Finds(u) == update[u].stray \/ tmp # {}

SetExecutable(u) ==
  /\ update[u].at = "chmod"
  /\ Goes(u, IF Finds(u) THEN "rename" ELSE "failed")
  /\ UNCHANGED <<published, fileVars, systemVars, operatorVars, crossed>>

ReplaceExecutable(u) ==
  /\ update[u].at = "rename"
  /\ Goes(u, IF Finds(u) THEN "updated" ELSE "failed")
  /\ IF Finds(u) /\ ~update[u].stray THEN exe' = tmp /\ tmp' = {} ELSE UNCHANGED <<exe, tmp>>
  /\ UNCHANGED <<published, content, systemVars, operatorVars, crossed>>

(* Any step fails, or the process is killed: what it wrote stays. *)
UpdateBreaksOff(u) ==
  /\ update[u].at = "download" \/ PastDownload(u)
  /\ Goes(u, "failed")
  /\ UNCHANGED <<published, fileVars, systemVars, operatorVars, crossed>>

UpdateStep(u) ==
  FetchLatest(u) \/ Download(u) \/ OpenTemporary(u) \/ WriteTemporary(u) \/ SetExecutable(u)
  \/ ReplaceExecutable(u) \/ UpdateBreaksOff(u)

-----------------------------------------------------------------------------
(* unly service ..., unly uninstall-cli *)

Issues(what, at) ==
  /\ command = NoCommand /\ commands < MaxCommands /\ \E i \in exe : content[i].whole
  /\ command' = [what |-> what, at |-> at]
  /\ commands' = commands + 1 /\ refused' = FALSE /\ said' = "nothing"
  /\ UNCHANGED <<published, fileVars, update, systemVars, crossed>>

CommandAt(what, at) == command = [what |-> what, at |-> at]

Then(at) == command' = [command EXCEPT !.at = at] /\ UNCHANGED said
Reports(what) == command' = NoCommand /\ said' = what

(* A part that sudo or systemctl refuses. *)
Refuse == refused' = TRUE /\ UNCHANGED systemVars
Accept == UNCHANGED refused

partVars == <<published, fileVars, update, commands, crossed>>

(* install_systemd_service without --force ends at a unit that exists. *)
ServiceInstall ==
  \E force \in BOOLEAN :
    IF unit /\ ~force THEN Issues("install", "exists") ELSE Issues("install", "copy")

(* The unit exists or cannot be rendered, or a program, as sudo, cannot be
   started: the command ends there with an error. *)
CommandStops ==
  /\ command # NoCommand /\ command.at # "binary"
  /\ Reports("failed")
  /\ UNCHANGED <<partVars, refused, systemVars>>

(* The exit status of `install` is not looked at. *)
InstallUnit ==
  /\ CommandAt("install", "copy") /\ Then("reload")
  /\ \/ Accept /\ unit' = TRUE /\ UNCHANGED <<enabled, active, abandoned>>
     \/ Refuse
  /\ UNCHANGED partVars

ReloadAfterInstall ==
  /\ CommandAt("install", "reload")
  /\ \/ Accept /\ Reports("installed") /\ UNCHANGED systemVars
     \/ Refuse /\ Reports("failed")
  /\ UNCHANGED partVars

(* run_systemctl: enable, disable, start, stop, restart. *)
Systemctl(verb) ==
  Issues(verb, "run")

SystemctlRuns(verb) ==
  /\ CommandAt(verb, "run")
  /\ \/ /\ Accept /\ Reports("ok")
        /\ verb \in {"enable", "start", "restart"} => unit
        /\ enabled' = CASE verb = "enable" -> TRUE [] verb = "disable" -> FALSE [] OTHER -> enabled
        /\ active' = CASE verb \in {"start", "restart"} -> TRUE [] verb = "stop" -> FALSE [] OTHER -> active
        /\ UNCHANGED <<unit, abandoned>>
     \/ Refuse /\ Reports("failed")
  /\ UNCHANGED partVars

(* run_uninstall_cli after the confirmation. *)
UninstallCli == Issues("uninstall", IF unit THEN "stop" ELSE "binary")

(* remove_systemd_service_if_exists: stop and disable may fail... *)
StopAndDisable ==
  /\ \/ /\ CommandAt("uninstall", "stop") /\ Then("disable")
        /\ (Accept /\ active' = FALSE /\ UNCHANGED <<unit, enabled, abandoned>>) \/ Refuse
     \/ /\ CommandAt("uninstall", "disable") /\ Then("rm")
        /\ (Accept /\ enabled' = FALSE /\ UNCHANGED <<unit, active, abandoned>>) \/ Refuse
  /\ UNCHANGED partVars

(* ... the exit status of `rm` is not looked at... *)
RemoveUnit ==
  /\ CommandAt("uninstall", "rm") /\ Then("reload")
  /\ \/ Accept /\ unit' = FALSE /\ abandoned' = (abandoned \/ refused) /\ UNCHANGED <<enabled, active>>
     \/ Refuse
  /\ UNCHANGED partVars

(* ... and a reload that fails ends the command before the binaries; after it
   reset-failed, which changes none of this. *)
ReloadAfterRemove ==
  /\ CommandAt("uninstall", "reload")
  /\ (Accept /\ Then("binary") /\ UNCHANGED systemVars) \/ (Refuse /\ Reports("failed"))
  /\ UNCHANGED partVars

RemoveBinary ==
  /\ CommandAt("uninstall", "binary")
  /\ \/ /\ exe' = {} /\ Reports("uninstalled")
        /\ crossed' = (crossed \/ \E u \in Updates : PastDownload(u))
     \/ Reports("failed") /\ UNCHANGED <<exe, crossed>>
  /\ UNCHANGED <<published, content, tmp, update, commands, systemVars, refused>>

Verbs == {"enable", "disable", "start", "stop", "restart"}

OperatorStep ==
  \/ ServiceInstall \/ InstallUnit \/ ReloadAfterInstall \/ CommandStops
  \/ \E verb \in Verbs : Systemctl(verb) \/ SystemctlRuns(verb)
  \/ UninstallCli \/ StopAndDisable \/ RemoveUnit \/ ReloadAfterRemove \/ RemoveBinary

InstallNext == Publish \/ (\E u \in Updates : UpdateStep(u)) \/ OperatorStep

-----------------------------------------------------------------------------
(* Properties. *)

InstallTypeOK ==
  /\ Cardinality(exe) <= 1 /\ Cardinality(tmp) <= 1 /\ exe \union tmp \subseteq Inodes
  /\ content \in [Inodes -> [version : 1..MaxVersion, whole : BOOLEAN]]
  /\ \A u \in Updates : update[u].runs \in Inodes /\ update[u].release \in 0..published

(* Wherever an update fails or is killed, the program that is installed is a
   whole release: only two updates that write the one temporary file at the
   same time can install half of one (update.rs:94-105). *)
InstalledIsWhole == ~crossed => \A i \in exe : content[i].whole

(* An update that says it has updated has, and nothing takes it back to an
   older release: the program is that release or a later one, or was removed
   since, unless another update, or the removal of the program, came between
   (update.rs:91-111). *)
UpdatedIsInstalled ==
  ~crossed => \A u \in Updates : update[u].at = "updated" /\ ~update[u].stray =>
    \A i \in exe : content[i].version >= update[u].release

(* What the commands about the service say is so, unless sudo refused a part
   of them: after "installed" the unit is there, and after the removal of the
   program neither the unit nor the executable is left, unless an update that
   was past its download put it back; nor is the service enabled, unless an
   earlier removal was refused that: with the unit gone, no later one tries
   again (commands.rs:1133-1201, 1494-1515). *)
SaidIsSo ==
  command = NoCommand /\ ~refused =>
    /\ said = "installed" => unit
    /\ said = "uninstalled" => ~unit /\ (~abandoned => ~enabled) /\ (~crossed => exe = {})

(* The installation through failures, kills, two updates and refused commands:
   the program is whole and as new as was said, and the service as was said. *)
InstallInv == InstallTypeOK /\ InstalledIsWhole /\ UpdatedIsInstalled /\ SaidIsSo

=============================================================================
