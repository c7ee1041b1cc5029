------------------------------ MODULE BootMode ------------------------------
(***************************************************************************)
(* The first boot: while BOOT.md exists in the workspace, every message is  *)
(* noted in it, until a user says that the setup is finished; then a        *)
(* summary goes to MEMORY.md and, as the section "User Preferences", to     *)
(* IDENTITY.md and SOUL.md, and BOOT.md is removed                          *)
(* (crates/unly-config/src/workspace.rs:73-162 and the part of              *)
(* handle_message in crates/unly-telegram/src/bot.rs:791-834 before the     *)
(* turn).  The handlers of two chats run concurrently over the same files;  *)
(* within a chat messages are handled one after the other.  Meanwhile the   *)
(* operator may run `unly setup` again, which removes the whole workspace.  *)
(*                                                                          *)
(* A note is a pair <<chat, number of its message>>; a summary is the set   *)
(* of the notes it was made from.                                           *)
(***************************************************************************)
EXTENDS SequencesExt, FiniteSetsExt, Naturals

CONSTANTS
  BootChats,
  MaxMessages,     (* bound: messages of all chats and new setups together *)
  MaxFaults,       (* bound: failed file operations and crashes            *)
  MaxLines         (* 20: the notes a summary without the model takes      *)

ASSUME BootAssumption == MaxLines \in Nat

VARIABLES
  boot,            (* BOOT.md: a set of at most one sequence of notes      *)
  prompted,        (* the marker .boot-prompted exists                     *)
  memory,          (* the notes in the summaries of MEMORY.md              *)
  identity, soul,  (* the two prompt files: [there, own, prefs]            *)
  bootHandler,     (* of each chat: [at, text, read]                       *)
  wizard,          (* the setup: [at, missing]                             *)
  sent,            (* messages of each chat so far                         *)
  faults, setups,
  noted, late,     (* history: notes taken; those a finish could not see   *)
  erased,          (* history: those a setup removed or wrote over         *)
  overlapped,      (* history: two handlers finished at the same time      *)
  broken           (* history: an operation on a prompt file failed, or the
                      process died in a finish or a setup got in its way   *)

bootFiles == <<boot, prompted, memory, identity, soul>>
bootCounts == <<sent, faults, setups>>
bootHistory == <<noted, late, erased, overlapped, broken>>
bootVars == <<bootFiles, bootHandler, wizard, bootCounts, bootHistory>>

Waiting == [at |-> "idle", text |-> {}, read |-> {}]
Untouched == [there |-> TRUE, own |-> TRUE, prefs |-> {}]
Gone == [there |-> FALSE, own |-> FALSE, prefs |-> {}]

BootInit ==
  /\ boot = {<<>>} /\ prompted = FALSE /\ memory = {}
  /\ identity = Untouched /\ soul = Untouched
  /\ bootHandler = [c \in BootChats |-> Waiting]
  /\ sent = [c \in BootChats |-> 0]
  /\ wizard = [at |-> "configured", missing |-> {}]
  /\ faults = 0 /\ setups = 0
  /\ noted = {} /\ late = {} /\ erased = {} /\ overlapped = FALSE /\ broken = FALSE

IsBootMode == boot # {}
NotesInBoot == UNION {ToSet(notes) : notes \in boot}

Goto(c, where) == bootHandler' = [bootHandler EXCEPT ![c].at = where]
At(c, where) == bootHandler[c].at = where

(* Finalizing: from the reading of the transcript to the end. *)
FinishSteps == {"profile", "fallback", "remember", "read identity", "empty identity",
  "fill identity", "read soul", "empty soul", "fill soul", "remove", "unmark", "finished"}
Finishing(c) == bootHandler[c].at \in FinishSteps

MayBegin == MapThenSumSet(LAMBDA c : sent[c], BootChats) + setups < MaxMessages

Fault == faults < MaxFaults /\ faults' = faults + 1
NoFault == UNCHANGED faults

-----------------------------------------------------------------------------
(* A message. *)

Receive(c) ==
  /\ At(c, "idle") /\ MayBegin
  /\ sent' = [sent EXCEPT ![c] = @ + 1]
  /\ Goto(c, IF IsBootMode THEN "classify" ELSE "hint")
  /\ UNCHANGED <<bootFiles, wizard, faults, setups, bootHistory>>

(* should_finalize_boot asks the model; a failure counts as NO. *)
Classified(c) ==
  /\ At(c, "classify")
  /\ \E where \in {"transcript", "note"} : Goto(c, where)
  /\ UNCHANGED <<bootFiles, wizard, bootCounts, bootHistory>>

(* append_boot_notes creates the file if it is gone.  Its error is logged. *)
TakeNote(c) ==
  /\ At(c, "note")
  /\ Goto(c, "hint")
  /\ LET note == <<c, sent[c]>>
         notes == IF IsBootMode THEN CHOOSE b \in boot : TRUE ELSE <<>>
     IN \/ /\ NoFault
           /\ boot' = {Append(notes, note)}
           /\ noted' = noted \union {note}
           /\ late' = IF \E d \in BootChats : Finishing(d) THEN late \union {note} ELSE late
        \/ Fault /\ UNCHANGED <<boot, noted, late>>
  /\ UNCHANGED <<prompted, memory, identity, soul, wizard, sent, setups, erased, overlapped, broken>>

(* The hint is sent once per boot mode; a failed send leaves it unmarked. *)
Hint(c) ==
  /\ At(c, "hint")
  /\ Goto(c, "idle")
  /\ \/ NoFault /\ prompted' = (prompted \/ IsBootMode)
     \/ IsBootMode /\ ~prompted /\ Fault /\ UNCHANGED prompted
  /\ UNCHANGED <<boot, memory, identity, soul, wizard, sent, setups, bootHistory>>

(* /start and /new: in boot mode a greeting is generated, and the marker is
   set after it was sent, whatever happened meanwhile. *)
Greet(c) ==
  /\ At(c, "idle") /\ MayBegin /\ IsBootMode
  /\ sent' = [sent EXCEPT ![c] = @ + 1]
  /\ Goto(c, "greeting")
  /\ UNCHANGED <<bootFiles, wizard, faults, setups, bootHistory>>

Greeted(c) ==
  /\ At(c, "greeting")
  /\ Goto(c, "idle")
  /\ \/ NoFault /\ prompted' = TRUE
     \/ Fault /\ UNCHANGED prompted
  /\ UNCHANGED <<boot, memory, identity, soul, wizard, sent, setups, bootHistory>>

-----------------------------------------------------------------------------
(* The end of the setup. *)

(* build_boot_profile_update reads the transcript, if there is one and it can... *)
ReadTranscript(c) ==
  /\ At(c, "transcript")
  /\ \E where \in {"profile", "fallback"} :
       /\ \/ NoFault /\ where = (IF IsBootMode THEN "profile" ELSE "fallback")
          \/ IsBootMode /\ Fault /\ where = "fallback"
       /\ bootHandler' = [bootHandler EXCEPT ![c] =
            [at |-> where, text |-> NotesInBoot, read |-> {}]]
  /\ overlapped' = (overlapped \/ \E d \in BootChats \ {c} : Finishing(d))
  /\ broken' = (broken \/ ~identity.there \/ ~soul.there)
  /\ UNCHANGED <<bootFiles, wizard, sent, setups, noted, late, erased>>

(* ... and the model makes a summary of it, or fails. *)
Profiled(c) ==
  /\ At(c, "profile")
  /\ \E where \in {"remember", "fallback"} : Goto(c, where)
  /\ UNCHANGED <<bootFiles, wizard, bootCounts, bootHistory>>

(* build_boot_summary reads the file again and takes the first notes; a file
   that cannot be read has none. *)
Fallback(c) ==
  /\ At(c, "fallback")
  /\ LET notes == IF IsBootMode THEN CHOOSE b \in boot : TRUE ELSE <<>>
         first == IF Len(notes) < MaxLines THEN Len(notes) ELSE MaxLines
     IN \E k \in {first, 0} :
          /\ (k = first /\ NoFault) \/ (k = 0 /\ IsBootMode /\ Fault)
          /\ bootHandler' = [bootHandler EXCEPT ![c].at = "remember",
                                               ![c].text = ToSet(SubSeq(notes, 1, k))]
          /\ late' = late \union (ToSet(notes) \ ToSet(SubSeq(notes, 1, k)))
  /\ UNCHANGED <<bootFiles, wizard, sent, setups, noted, erased, overlapped, broken>>

(* Mutant: when the summary cannot be written to MEMORY.md, the finish goes on. *)
GivesUp_ButNotThere(c) ==
  /\ bootHandler[c].at \in {"remember", "empty identity", "fill identity", "empty soul", "fill soul"}
  /\ Fault
  /\ Goto(c, IF At(c, "remember") THEN "read identity" ELSE "idle")
  /\ broken' = (broken \/ ~At(c, "remember"))
  /\ UNCHANGED <<bootFiles, wizard, sent, setups, noted, late, erased, overlapped>>

(* finalize_boot, step by step; an error ends it where it is, and the user is
   asked to try again. *)
GivesUp(c) ==
  /\ bootHandler[c].at \in {"remember", "empty identity", "fill identity", "empty soul", "fill soul"}
  /\ Fault
  /\ Goto(c, "idle")
  /\ broken' = (broken \/ ~At(c, "remember"))
  /\ UNCHANGED <<bootFiles, wizard, sent, setups, noted, late, erased, overlapped>>

Remember(c) ==
  /\ At(c, "remember")
  /\ memory' = memory \union bootHandler[c].text
  /\ Goto(c, "read identity")
  /\ UNCHANGED <<boot, prompted, identity, soul, wizard, bootCounts, bootHistory>>

(* apply_boot_preferences_to_prompt_file: read (an error reads as an empty
   file), replace the section, write: the write empties the file first. *)
ReadPrompt(c, file, from, to) ==
  /\ At(c, from)
  /\ \/ /\ NoFault /\ UNCHANGED broken
        /\ bootHandler' = [bootHandler EXCEPT ![c].at = to, ![c].read = {file}]
     \/ /\ Fault /\ broken' = TRUE
        /\ bootHandler' = [bootHandler EXCEPT ![c].at = to, ![c].read = {}]
  /\ UNCHANGED <<bootFiles, wizard, sent, setups, noted, late, erased, overlapped>>

Emptied == [there |-> TRUE, own |-> FALSE, prefs |-> {}]

Updated(c) ==
  [there |-> TRUE, own |-> \E f \in bootHandler[c].read : f.own, prefs |-> bootHandler[c].text]

WriteIdentity(c) ==
  /\ \/ At(c, "empty identity") /\ identity' = Emptied /\ Goto(c, "fill identity")
     \/ At(c, "fill identity") /\ identity' = Updated(c) /\ Goto(c, "read soul")
  /\ UNCHANGED <<boot, prompted, memory, soul, wizard, bootCounts, bootHistory>>

WriteSoul(c) ==
  /\ \/ At(c, "empty soul") /\ soul' = Emptied /\ Goto(c, "fill soul")
     \/ At(c, "fill soul") /\ soul' = Updated(c) /\ Goto(c, "remove")
  /\ UNCHANGED <<boot, prompted, memory, identity, wizard, bootCounts, bootHistory>>

(* The errors of the two removals are dropped. *)
RemoveBoot(c) ==
  /\ At(c, "remove")
  /\ \/ NoFault /\ boot' = {}
     \/ Fault /\ UNCHANGED boot
  /\ Goto(c, "unmark")
  /\ UNCHANGED <<prompted, memory, identity, soul, wizard, sent, setups, bootHistory>>

RemoveMarker(c) ==
  /\ At(c, "unmark")
  /\ \/ NoFault /\ prompted' = FALSE
     \/ prompted /\ Fault /\ UNCHANGED prompted
  /\ Goto(c, "finished")
  /\ UNCHANGED <<boot, memory, identity, soul, wizard, sent, setups, bootHistory>>

(* The confirmation is generated and sent; the message starts no turn. *)
Confirmed(c) ==
  /\ At(c, "finished")
  /\ Goto(c, "idle")
  /\ UNCHANGED <<bootFiles, wizard, bootCounts, bootHistory>>

-----------------------------------------------------------------------------
(* `unly setup` again, beside the running bot.  The files it is about. *)
WizardFiles == {"boot", "memory", "identity", "soul"}

(* The names of those files that are not there; a MEMORY.md that holds no
   summary counts as one. *)
MissingFiles ==
  {f \in WizardFiles : \/ f = "boot" /\ ~IsBootMode
                       \/ f = "memory" /\ memory = {}
                       \/ f = "identity" /\ ~identity.there
                       \/ f = "soul" /\ ~soul.there}

(* Over an existing configuration it asks first, and a yes removes the whole
   workspace, the marker with it; a removal that fails half way ends the setup. *)
SetupRemoves ==
  /\ wizard.at = "configured" /\ MayBegin
  /\ setups' = setups + 1
  /\ \E gone \in SUBSET WizardFiles, unmarked \in BOOLEAN, next \in {"asking", "configured", "unconfigured"} :
       /\ \/ /\ NoFault /\ gone = WizardFiles /\ unmarked /\ next = "asking"
             /\ broken' = (broken \/ \E c \in BootChats : Finishing(c))
          \/ Fault /\ next # "asking" /\ broken' = TRUE
       /\ wizard' = [wizard EXCEPT !.at = next]
       /\ boot' = IF "boot" \in gone THEN {} ELSE boot
       /\ memory' = IF "memory" \in gone THEN {} ELSE memory
       /\ identity' = IF "identity" \in gone THEN Gone ELSE identity
       /\ soul' = IF "soul" \in gone THEN Gone ELSE soul
       /\ prompted' = (prompted /\ ~unmarked)
  /\ erased' = noted
  /\ UNCHANGED <<bootHandler, sent, noted, late, overlapped>>

(* Without a configuration it removes nothing. *)
SetupAsks ==
  /\ wizard.at = "unconfigured"
  /\ wizard' = [wizard EXCEPT !.at = "asking"]
  /\ UNCHANGED <<bootFiles, bootHandler, bootCounts, bootHistory>>

SetupIsLeft ==
  /\ wizard.at = "asking"
  /\ wizard' = [wizard EXCEPT !.at = "unconfigured"]
  /\ UNCHANGED <<bootFiles, bootHandler, bootCounts, bootHistory>>

(* After the questions and the configuration, it looks which files are missing
   and writes those.  The errors of the writes are dropped. *)
SetupLooks ==
  /\ wizard.at = "asking"
  /\ wizard' = [at |-> "writing", missing |-> MissingFiles]
  /\ UNCHANGED <<bootFiles, bootHandler, bootCounts, bootHistory>>

SetupWrites ==
  /\ wizard.at = "writing"
  /\ wizard' = [at |-> "configured", missing |-> {}]
  /\ \E made \in SUBSET wizard.missing :
       /\ \/ NoFault /\ made = wizard.missing /\ UNCHANGED broken
          \/ Fault /\ made # wizard.missing /\ broken' = TRUE
       /\ boot' = IF "boot" \in made THEN {<<>>} ELSE boot
       /\ memory' = IF "memory" \in made THEN {} ELSE memory
       /\ identity' = IF "identity" \in made THEN Untouched ELSE identity
       /\ soul' = IF "soul" \in made THEN Untouched ELSE soul
       /\ erased' = erased \union (IF "boot" \in made THEN NotesInBoot ELSE {})
                          \union (IF "memory" \in made THEN memory ELSE {})
  /\ UNCHANGED <<prompted, bootHandler, sent, setups, noted, late, overlapped>>

Setup == SetupRemoves \/ SetupAsks \/ SetupIsLeft \/ SetupLooks \/ SetupWrites

(* The files stay as they are. *)
BootCrash ==
  /\ Fault
  /\ bootHandler' = [c \in BootChats |-> Waiting]
  /\ broken' = (broken \/ \E c \in BootChats : Finishing(c))
  /\ UNCHANGED <<bootFiles, wizard, sent, setups, noted, late, erased, overlapped>>

Finish(c) ==
  \/ ReadTranscript(c) \/ Profiled(c) \/ Fallback(c) \/ GivesUp(c) \/ Remember(c)
  \/ ReadPrompt(c, identity, "read identity", "empty identity")
  \/ ReadPrompt(c, soul, "read soul", "empty soul")
  \/ WriteIdentity(c) \/ WriteSoul(c) \/ RemoveBoot(c) \/ RemoveMarker(c) \/ Confirmed(c)

BootNext ==
  \/ \E c \in BootChats :
       \/ Receive(c) \/ Classified(c) \/ TakeNote(c) \/ Hint(c) \/ Greet(c) \/ Greeted(c)
       \/ Finish(c)
  \/ Setup \/ BootCrash

-----------------------------------------------------------------------------
(* Properties. *)

(* At most one BOOT.md; prompt files and handlers have their shapes. *)
BootTypeOK ==
  /\ \A a, b \in boot : a = b
  /\ NotesInBoot \union memory \union late \union erased \subseteq noted
  /\ prompted \in BOOLEAN
  /\ {identity, soul} \subseteq [there : BOOLEAN, own : BOOLEAN, prefs : SUBSET noted]
  /\ wizard.at \in {"configured", "asking", "writing", "unconfigured"}
  /\ wizard.missing \subseteq WizardFiles
  /\ \A c \in BootChats : bootHandler[c].text \subseteq noted

(* A finish that fails or is killed loses no answer of a user: each note is
   still in BOOT.md or already in MEMORY.md, however often the finish is tried
   (workspace.rs:104-131).  What a finish does lose are the notes taken while
   it was under way, those past the 20 lines of the summary made without the
   model, and all of them when BOOT.md cannot be read for that summary; and a
   new setup removes them with the workspace. *)
NotesAreKept == noted \subseteq NotesInBoot \union memory \union late \union erased

(* The rest of IDENTITY.md and SOUL.md is lost, and the two files disagree
   about the preferences when nobody is finishing, only after two chats
   finished at the same time, a finish broke off, or a setup failed half way
   or removed the files under a finish (workspace.rs:133-162). *)
PromptFilesAgree ==
  (\A c \in BootChats : ~Finishing(c)) /\ ~overlapped /\ ~broken
    /\ (identity.there \/ soul.there) =>
      identity.own /\ soul.own /\ identity.prefs = soul.prefs

(* What the two files call the user's preferences stands in MEMORY.md as
   well, unless a setup removed it there: the files never run ahead of the
   memory (workspace.rs:110-121). *)
PreferencesAreRemembered ==
  identity.prefs \union soul.prefs \subseteq memory \union erased

(* The interview through failures, restarts, a new setup and two chats that
   finish: no answer is lost but those NotesAreKept names, the two prompt files
   agree, and what they say is remembered. *)
BootInv == BootTypeOK /\ NotesAreKept /\ PromptFilesAgree /\ PreferencesAreRemembered

=============================================================================
