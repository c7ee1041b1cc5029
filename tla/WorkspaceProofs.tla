--------------------------- MODULE WorkspaceProofs ---------------------------
(***************************************************************************)
(* What the files of a user keep.  First the workspace: the interview of    *)
(* the first boot loses no answer, whatever fails and however many chats    *)
(* finish it.  Then the installation: the program is whole and as new as    *)
(* was said, and the service is as was said.  For any number of chats and   *)
(* messages, of updates, releases and commands.                             *)
(***************************************************************************)
EXTENDS BootMode, Installation, TLAPS, FiniteSetTheorems

BootSpec == BootInit /\ [][BootNext]_bootVars

-----------------------------------------------------------------------------
(* The inductive invariant. *)

Note == BootChats \X Nat
Prompt == [there : BOOLEAN, own : BOOLEAN, prefs : SUBSET Note]
Wizard ==
  [at : {"configured", "asking", "writing", "unconfigured"}, missing : SUBSET WizardFiles]
BootHandler ==
  [at : {"idle", "classify", "note", "hint", "greeting", "transcript"} \union FinishSteps,
   text : SUBSET Note, read : SUBSET Prompt]

BootShape ==
  /\ boot \subseteq Seq(Note) /\ \A a, b \in boot : a = b
  /\ noted \subseteq Note
  /\ NotesInBoot \union memory \union late \union erased \subseteq noted
  /\ wizard \in Wizard
  /\ prompted \in BOOLEAN /\ overlapped \in BOOLEAN /\ broken \in BOOLEAN
  /\ identity \in Prompt /\ soul \in Prompt
  /\ sent \in [BootChats -> Nat]
  /\ bootHandler \in [BootChats -> BootHandler]
  /\ \A c \in BootChats : bootHandler[c].text \subseteq noted

(* The notes that are lost, as NotesAreKept says. *)
Excused == late \union erased

(* A chat that finishes: what it read covers what stands in BOOT.md, except
   those; once it remembered that, MEMORY.md does. *)
WriteSteps == {"read identity", "empty identity", "fill identity", "read soul", "empty soul",
            "fill soul", "remove"}

Covers(c) ==
  /\ bootHandler[c].at \in {"profile", "remember"} =>
       NotesInBoot \subseteq bootHandler[c].text \union Excused
  /\ bootHandler[c].at \in WriteSteps =>
       NotesInBoot \subseteq memory \union Excused /\ bootHandler[c].text \subseteq memory \union erased

(* The two prompt files while one chat finishes, step by step. *)
Same == identity.own /\ soul.own /\ identity.prefs = soul.prefs
Both == identity.there /\ soul.there

(* A setup removed the two files, and has not yet written them. *)
Cleared == identity = Gone /\ soul = Gone
Opened ==
  wizard.at = "writing" /\ ("identity" \in wizard.missing \/ "soul" \in wizard.missing) =>
    Cleared /\ {"identity", "soul"} \subseteq wizard.missing

HasOwn(c) == \E f \in bootHandler[c].read : f.own

Halfway(c) ==
  /\ bootHandler[c].at \in {"profile", "fallback", "remember", "read identity", "remove",
                            "unmark", "finished"} => Same
  /\ bootHandler[c].at \in {"empty identity", "fill identity"} => soul.own /\ HasOwn(c)
  /\ bootHandler[c].at \in {"read soul", "empty soul", "fill soul"} =>
       identity.own /\ identity.prefs = bootHandler[c].text
  /\ bootHandler[c].at = "read soul" => soul.own
  /\ bootHandler[c].at \in {"empty soul", "fill soul"} => HasOwn(c)

OneFinishes ==
  /\ \A c, d \in BootChats : Finishing(c) /\ Finishing(d) => c = d
  /\ (\A c \in BootChats : ~Finishing(c)) => Same \/ Cleared
  /\ Both \/ Cleared
  /\ \A c \in BootChats : Finishing(c) => Both
  /\ \A c \in BootChats : Halfway(c)
  /\ Opened

BootKept ==
  /\ BootShape /\ NotesAreKept /\ PreferencesAreRemembered
  /\ \A c \in BootChats : Covers(c)
  /\ ~overlapped /\ ~broken => OneFinishes

-----------------------------------------------------------------------------
(* The notes of BOOT.md. *)

LEMMA NotesOf ==
  ASSUME boot \subseteq Seq(Note), \A a, b \in boot : a = b
  PROVE  /\ boot = {} => NotesInBoot = {}
         /\ boot # {} => /\ (CHOOSE b \in boot : TRUE) \in Seq(Note)
                         /\ boot = {CHOOSE b \in boot : TRUE}
                         /\ NotesInBoot = ToSet(CHOOSE b \in boot : TRUE)
BY DEF NotesInBoot

(* The notes a step reads from BOOT.md. *)
Transcript == IF IsBootMode THEN CHOOSE b \in boot : TRUE ELSE <<>>

LEMMA TranscriptRead ==
  ASSUME BootShape
  PROVE  Transcript \in Seq(Note) /\ NotesInBoot = ToSet(Transcript)
<1>1. CASE IsBootMode
  BY <1>1, NotesOf DEF BootShape, IsBootMode, Transcript
<1>2. CASE ~IsBootMode
  <2>1. Transcript = <<>> /\ NotesInBoot = {}
    BY <1>2, NotesOf DEF BootShape, IsBootMode, Transcript
  <2>2. PICK s : s = <<>>
    OBVIOUS
  <2>3. s \in Seq(Note) /\ Len(s) = 0 /\ DOMAIN s = 1..Len(s)
    BY <2>2
  <2>4. DOMAIN s = {}
    BY <2>3
  <2>5. ToSet(s) = {}
    BY <2>4 DEF ToSet
  <2>6. QED
    BY <2>1, <2>2, <2>3, <2>5
<1>3. QED
  BY <1>1, <1>2

LEMMA NotesAppended ==
  ASSUME NEW s \in Seq(Note), NEW n \in Note
  PROVE  Append(s, n) \in Seq(Note) /\ ToSet(Append(s, n)) = ToSet(s) \union {n}
<1> DEFINE a == Append(s, n)
<1>1. /\ a \in Seq(Note) /\ Len(s) \in Nat /\ DOMAIN s = 1..Len(s) /\ DOMAIN a = 1..(Len(s) + 1)
      /\ a[Len(s) + 1] = n /\ \A i \in 1..Len(s) : a[i] = s[i]
  OBVIOUS
<1> HIDE DEF a
<1>2. \A i \in 1..(Len(s) + 1) : i = Len(s) + 1 \/ i \in 1..Len(s)
  BY <1>1
<1>3. ToSet(a) = ToSet(s) \union {n}
  <2>1. ASSUME NEW x \in ToSet(a) PROVE x \in ToSet(s) \union {n}
    BY <1>1, <1>2, <2>1 DEF ToSet
  <2>2. ASSUME NEW x \in ToSet(s) PROVE x \in ToSet(a)
    <3>1. PICK i \in 1..Len(s) : x = s[i]
      BY <1>1, <2>2 DEF ToSet
    <3>2. i \in 1..(Len(s) + 1) /\ x = a[i]
      BY <1>1, <3>1
    <3>3. QED
      BY <1>1, <3>2 DEF ToSet
  <2>3. n \in ToSet(a)
    BY <1>1 DEF ToSet
  <2>4. QED
    BY <2>1, <2>2, <2>3
<1>4. QED
  BY <1>1, <1>3 DEF a

LEMMA FirstNotes ==
  ASSUME NEW s \in Seq(Note), NEW k \in 0..Len(s)
  PROVE  ToSet(SubSeq(s, 1, k)) \subseteq ToSet(s)
<1>1. /\ Len(s) \in Nat /\ DOMAIN SubSeq(s, 1, k) = 1..k
      /\ \A i \in 1..k : SubSeq(s, 1, k)[i] = s[i] /\ i \in 1..Len(s)
  OBVIOUS
<1>2. QED
  BY <1>1 DEF ToSet

-----------------------------------------------------------------------------
(* What a step that moves one handler leaves of the others. *)

(* The handler of c is what it was but for its place. *)
Moved(c, where) ==
  /\ bootHandler' \in [BootChats -> BootHandler]
  /\ bootHandler'[c].at = where
  /\ bootHandler'[c].text = bootHandler[c].text /\ bootHandler'[c].read = bootHandler[c].read
  /\ \A d \in BootChats : d # c => bootHandler'[d] = bootHandler[d]

LEMMA GotoMoves ==
  ASSUME NEW c \in BootChats, bootHandler \in [BootChats -> BootHandler], NEW where,
         where \in {"idle", "classify", "note", "hint", "greeting", "transcript"} \union FinishSteps,
         Goto(c, where)
  PROVE  Moved(c, where)
<1>1. bootHandler[c] \in BootHandler
  OBVIOUS
<1>2. PICK h : h = [bootHandler[c] EXCEPT !.at = where]
  OBVIOUS
<1>3. /\ h \in BootHandler /\ h.at = where /\ h.text = bootHandler[c].text
      /\ h.read = bootHandler[c].read
  BY <1>1, <1>2 DEF BootHandler
<1>4. bootHandler' = [bootHandler EXCEPT ![c] = h]
  BY <1>2 DEF Goto
<1>5. QED
  BY <1>3, <1>4 DEF Moved

LEMMA NotesSame == boot' = boot => NotesInBoot' = NotesInBoot
BY DEF NotesInBoot

LEMMA FilesSame ==
  ASSUME UNCHANGED <<identity, soul, wizard>>
  PROVE  Same' = Same /\ Both' = Both /\ Cleared' = Cleared /\ Opened' = Opened
<1>1. identity' = identity /\ soul' = soul /\ wizard' = wizard
  OBVIOUS
<1>2. Same' = Same /\ Both' = Both /\ Cleared' = Cleared
  BY <1>1 DEF Same, Both, Cleared, Gone
<1>3. QED
  BY <1>1, <1>2 DEF Opened

(* Steps outside the finish change neither a file but the marker nor what is
   known of the handlers that finish. *)
LEMMA AsideKeeps ==
  ASSUME BootKept, NEW c \in BootChats, NEW where, Moved(c, where),
         ~Finishing(c), where \notin FinishSteps,
         UNCHANGED <<boot, memory, identity, soul, wizard, bootHistory>>,
         prompted' \in BOOLEAN, sent' \in [BootChats -> Nat]
  PROVE  BootKept'
<1>1. /\ BootShape /\ NotesAreKept /\ PreferencesAreRemembered
      /\ UNCHANGED <<boot, memory, identity, soul, wizard, noted, late, erased, overlapped, broken>>
      /\ NotesInBoot' = NotesInBoot /\ Excused' = Excused
  BY NotesSame DEF BootKept, bootHistory, Excused
<1>2. /\ bootHandler' \in [BootChats -> BootHandler]
      /\ \A d \in BootChats : bootHandler'[d].text = bootHandler[d].text
      /\ \A d \in BootChats : d # c => bootHandler'[d] = bootHandler[d]
      /\ bootHandler'[c].at \notin FinishSteps /\ bootHandler[c].at \notin FinishSteps
  BY DEF Moved, Finishing
<1>3. BootShape'
  BY <1>1, <1>2 DEF BootShape
<1>4. NotesAreKept' /\ PreferencesAreRemembered'
  BY <1>1 DEF NotesAreKept, PreferencesAreRemembered
<1>5. ASSUME NEW d \in BootChats PROVE Covers(d)'
  <2>1. CASE d = c
    BY <1>2, <2>1 DEF Covers, WriteSteps, FinishSteps
  <2>2. CASE d # c
    BY <1>1, <1>2, <2>2 DEF BootKept, Covers
  <2>3. QED
    BY <2>1, <2>2
<1>6. ASSUME ~overlapped' /\ ~broken' PROVE OneFinishes'
  <2>1. OneFinishes
    BY <1>1, <1>6 DEF BootKept
  <2>2. \A d \in BootChats : Finishing(d)' = Finishing(d)
    BY <1>2 DEF Finishing
  <2>3. Same' = Same /\ Both' = Both /\ Cleared' = Cleared /\ Opened' = Opened
    BY <1>1, FilesSame
  <2>4. ASSUME NEW d \in BootChats PROVE Halfway(d)'
    <3>1. CASE d = c
      BY <1>2, <3>1 DEF Halfway, FinishSteps
    <3>2. CASE d # c
      BY <1>1, <1>2, <2>1, <2>3, <3>2 DEF OneFinishes, Halfway, HasOwn
    <3>3. QED
      BY <3>1, <3>2
  <2>5. QED
    BY <2>1, <2>2, <2>3, <2>4 DEF OneFinishes
<1>7. QED
  BY <1>3, <1>4, <1>5, <1>6 DEF BootKept

LEMMA NotedKeeps ==
  ASSUME BootKept, NEW c \in BootChats, TakeNote(c)
  PROVE  BootKept'
<1>1. /\ BootShape /\ NotesAreKept /\ PreferencesAreRemembered
      /\ At(c, "note") /\ Goto(c, "hint")
      /\ UNCHANGED <<prompted, memory, identity, soul, wizard, sent, erased, overlapped, broken>>
  BY DEF BootKept, TakeNote
<1>2. Moved(c, "hint") /\ ~Finishing(c) /\ "hint" \notin FinishSteps
  BY <1>1, GotoMoves DEF BootShape, At, Finishing, FinishSteps
<1>3. CASE UNCHANGED <<boot, noted, late>>
  BY <1>1, <1>2, <1>3, AsideKeeps DEF bootHistory, BootShape
<1> DEFINE note == <<c, sent[c]>>
           notes == IF IsBootMode THEN CHOOSE b \in boot : TRUE ELSE <<>>
<1>4. CASE /\ boot' = {Append(notes, note)} /\ noted' = noted \union {note}
           /\ late' = IF \E d \in BootChats : Finishing(d) THEN late \union {note} ELSE late
  <2>1. notes \in Seq(Note) /\ NotesInBoot = ToSet(notes)
    BY <1>1, TranscriptRead DEF Transcript
  <2>2. note \in Note
    BY <1>1 DEF BootShape, Note
  <2> HIDE DEF note, notes
  <2>3. Append(notes, note) \in Seq(Note) /\ ToSet(Append(notes, note)) = ToSet(notes) \union {note}
    BY <2>1, <2>2, NotesAppended
  <2>4. NotesInBoot' = NotesInBoot \union {note}
    BY <1>4, <2>1, <2>3 DEF NotesInBoot
  <2>5. /\ bootHandler' \in [BootChats -> BootHandler]
        /\ \A d \in BootChats : bootHandler'[d].text = bootHandler[d].text
        /\ \A d \in BootChats : d # c => bootHandler'[d] = bootHandler[d]
        /\ bootHandler'[c].at \notin FinishSteps /\ bootHandler[c].at \notin FinishSteps
    BY <1>2 DEF Moved, Finishing
  <2>6. BootShape'
    BY <1>1, <1>4, <2>2, <2>3, <2>4, <2>5 DEF BootShape
  <2>7. NotesAreKept' /\ PreferencesAreRemembered'
    BY <1>1, <1>4, <2>4 DEF NotesAreKept, PreferencesAreRemembered
  <2>8. ASSUME NEW d \in BootChats PROVE Covers(d)'
    <3>1. CASE bootHandler'[d].at \notin FinishSteps
      BY <3>1 DEF Covers, WriteSteps, FinishSteps
    <3>2. CASE bootHandler'[d].at \in FinishSteps
      <4>1. d # c /\ bootHandler'[d] = bootHandler[d] /\ late' = late \union {note}
        BY <1>4, <2>5, <3>2 DEF Finishing
      <4>2. Excused' = Excused \union {note}
        BY <1>1, <4>1 DEF Excused
      <4>3. QED
        BY <1>1, <2>4, <4>1, <4>2 DEF BootKept, Covers
    <3>3. QED
      BY <3>1, <3>2
  <2>9. ASSUME ~overlapped' /\ ~broken' PROVE OneFinishes'
    <3>1. OneFinishes
      BY <1>1, <2>9 DEF BootKept
    <3>2. \A d \in BootChats : Finishing(d)' = Finishing(d)
      BY <2>5 DEF Finishing
    <3>3. Same' = Same /\ Both' = Both /\ Cleared' = Cleared /\ Opened' = Opened
      BY <1>1, FilesSame
    <3>4. ASSUME NEW d \in BootChats PROVE Halfway(d)'
      <4>1. CASE d = c
        BY <2>5, <4>1 DEF Halfway, FinishSteps
      <4>2. CASE d # c
        BY <1>1, <2>5, <3>1, <3>3, <4>2 DEF OneFinishes, Halfway, HasOwn
      <4>3. QED
        BY <4>1, <4>2
    <3>5. QED
      BY <3>1, <3>2, <3>3, <3>4 DEF OneFinishes
  <2>10. QED
    BY <2>6, <2>7, <2>8, <2>9 DEF BootKept
<1>5. QED
  BY <1>3, <1>4 DEF TakeNote

-----------------------------------------------------------------------------
(* The steps of a finish. *)

(* What a step of a chat that finishes leaves as it was: the other handlers
   and the notes taken; BOOT.md, unless all of it is known elsewhere. *)
Frame(c) ==
  /\ bootHandler' \in [BootChats -> BootHandler]
  /\ \A d \in BootChats : d # c => bootHandler'[d] = bootHandler[d]
  /\ bootHandler'[c].text \subseteq noted
  /\ noted' = noted /\ sent' = sent /\ overlapped' = overlapped
  /\ wizard' = wizard /\ erased' = erased
  /\ boot' = boot \/ (boot' = {} /\ NotesInBoot \subseteq memory \union Excused)
  /\ late \subseteq late' /\ late' \subseteq noted
  /\ memory \subseteq memory' /\ memory' \subseteq noted

(* What such a step makes of the marker and of the prompt files. *)
Files ==
  /\ prompted' \in BOOLEAN /\ broken' \in BOOLEAN /\ (~broken' => ~broken)
  /\ identity' \in Prompt /\ soul' \in Prompt
  /\ (identity.there => identity'.there) /\ (soul.there => soul'.there)
  /\ identity'.prefs \union soul'.prefs \subseteq memory' \union erased

(* With these it is enough to look at that chat and at the two prompt files. *)
LEMMA FinishKeeps ==
  ASSUME BootKept, NEW c \in BootChats, Finishing(c), Frame(c), Files, Covers(c)',
         ~overlapped' /\ ~broken' /\ OneFinishes =>
           /\ Halfway(c)'
           /\ Finishing(c)' \/ Same'
  PROVE  BootKept'
<1>1. BootShape /\ NotesAreKept /\ PreferencesAreRemembered
  BY DEF BootKept
<1>2. NotesInBoot' = NotesInBoot \/ NotesInBoot' = {}
  BY DEF NotesInBoot, Frame
<1>3. BootShape'
  <2>1. boot' \subseteq Seq(Note) /\ \A a, b \in boot' : a = b
    BY <1>1 DEF BootShape, Frame
  <2>2. /\ noted' \subseteq Note /\ memory' \union late' \union erased' \subseteq noted'
        /\ NotesInBoot' \subseteq noted' /\ overlapped' \in BOOLEAN /\ wizard' \in Wizard
    BY <1>1, <1>2 DEF BootShape, Frame
  <2>3. /\ sent' \in [BootChats -> Nat] /\ bootHandler' \in [BootChats -> BootHandler]
        /\ \A d \in BootChats : bootHandler'[d].text \subseteq noted'
    BY <1>1 DEF BootShape, Frame
  <2>4. QED
    BY <2>1, <2>2, <2>3 DEF BootShape, Files
<1>4. NotesAreKept'
  <2>1. CASE boot' = boot
    BY <1>1, <2>1, NotesSame DEF NotesAreKept, Frame
  <2>2. CASE boot' = {} /\ NotesInBoot \subseteq memory \union Excused
    BY <1>1, <2>2 DEF NotesAreKept, Frame, Excused
  <2>3. QED
    BY <2>1, <2>2 DEF Frame
<1>5. PreferencesAreRemembered'
  BY DEF PreferencesAreRemembered, Files, Frame
<1>6. ASSUME NEW d \in BootChats PROVE Covers(d)'
  <2>1. CASE d # c
    <3>1. Covers(d) /\ bootHandler'[d] = bootHandler[d]
      BY <2>1 DEF BootKept, Frame
    <3>2. Excused \subseteq Excused' /\ memory \subseteq memory' /\ erased' = erased
      BY DEF Frame, Excused
    <3>3. QED
      BY <1>2, <3>1, <3>2 DEF Covers
  <2>2. QED
    BY <2>1
<1>7. ASSUME ~overlapped' /\ ~broken' PROVE OneFinishes'
  <2>1. OneFinishes
    BY <1>7 DEF BootKept, Frame, Files
  <2>2. \A d \in BootChats : d # c => ~Finishing(d)'
    BY <2>1 DEF OneFinishes, Finishing, Frame
  <2>3. \A d \in BootChats : d # c => Halfway(d)'
    BY <2>2 DEF Halfway, Finishing, FinishSteps
  <2>4. Halfway(c)' /\ (Finishing(c)' \/ Same')
    BY <1>7, <2>1
  <2>5. Both /\ Both' /\ ~Cleared
    BY <2>1 DEF OneFinishes, Both, Files, Cleared, Gone
  <2>6. Opened'
    BY <2>1, <2>5 DEF OneFinishes, Opened, Frame
  <2>7. QED
    BY <2>2, <2>3, <2>4, <2>5, <2>6 DEF OneFinishes
<1>8. QED
  BY <1>3, <1>4, <1>5, <1>6, <1>7 DEF BootKept

LEMMA QuietFrame ==
  ASSUME BootShape, NEW c \in BootChats, NEW where, Moved(c, where),
         UNCHANGED <<boot, memory, wizard, sent, noted, late, erased, overlapped>>
  PROVE  Frame(c)
<1>1. bootHandler'[c].text \subseteq noted /\ memory \union late \subseteq noted
  BY DEF BootShape, Moved
<1>2. QED
  BY <1>1 DEF Moved, Frame

LEMMA QuietFiles ==
  ASSUME BootShape, PreferencesAreRemembered, memory \subseteq memory',
         UNCHANGED <<identity, soul, broken>>, prompted' \in BOOLEAN
  PROVE  Files
<1>1. identity'.prefs \union soul'.prefs \subseteq memory' \union erased
  BY DEF PreferencesAreRemembered
<1>2. QED
  BY <1>1 DEF BootShape, Files

LEMMA ReadTranscriptKeeps ==
  ASSUME BootKept, NEW c \in BootChats, ReadTranscript(c)
  PROVE  BootKept'
<1>1. /\ BootShape /\ NotesAreKept /\ PreferencesAreRemembered
      /\ UNCHANGED <<boot, prompted, memory, identity, soul, wizard, sent, noted, late, erased>>
      /\ NotesInBoot' = NotesInBoot /\ Excused' = Excused /\ bootHandler[c].at = "transcript"
      /\ overlapped' = (overlapped \/ \E d \in BootChats \ {c} : Finishing(d))
      /\ broken' = (broken \/ ~identity.there \/ ~soul.there)
  BY NotesSame DEF BootKept, ReadTranscript, bootFiles, At, Excused
<1> PICK where \in {"profile", "fallback"} :
      bootHandler' = [bootHandler EXCEPT ![c] = [at |-> where, text |-> NotesInBoot, read |-> {}]]
  BY DEF ReadTranscript
<1>2. PICK h : h = [at |-> where, text |-> NotesInBoot, read |-> {}]
  OBVIOUS
<1>3. /\ h \in BootHandler /\ h.text = NotesInBoot /\ h.at \in {"profile", "fallback"}
  BY <1>1, <1>2 DEF BootShape, BootHandler, FinishSteps
<1>4. bootHandler' = [bootHandler EXCEPT ![c] = h]
  BY <1>2
<1>5. /\ bootHandler' \in [BootChats -> BootHandler] /\ bootHandler'[c] = h
      /\ \A d \in BootChats : d # c => bootHandler'[d] = bootHandler[d]
  BY <1>1, <1>3, <1>4 DEF BootShape
<1>6. BootShape'
  BY <1>1, <1>3, <1>5 DEF BootShape
<1>7. NotesAreKept' /\ PreferencesAreRemembered'
  BY <1>1 DEF NotesAreKept, PreferencesAreRemembered
<1>8. ASSUME NEW d \in BootChats PROVE Covers(d)'
  <2>1. CASE d = c
    BY <1>1, <1>3, <1>5, <2>1 DEF Covers, WriteSteps
  <2>2. CASE d # c
    BY <1>1, <1>5, <2>2 DEF BootKept, Covers
  <2>3. QED
    BY <2>1, <2>2
<1>9. ASSUME ~overlapped' /\ ~broken' PROVE OneFinishes'
  <2>1. OneFinishes /\ ~Finishing(c) /\ (\A d \in BootChats : d # c => ~Finishing(d)) /\ Both
    BY <1>1, <1>9 DEF BootKept, Finishing, FinishSteps, Both
  <2> Same /\ Opened
    BY <2>1 DEF OneFinishes, Cleared, Gone, Both
  <2>2. Same' /\ Both' /\ Opened' /\ \A d \in BootChats : d # c => ~Finishing(d)'
    BY <1>1, <1>5, <2>1, FilesSame DEF Finishing
  <2>3. ASSUME NEW d \in BootChats PROVE Halfway(d)'
    <3>1. CASE d = c
      BY <1>3, <1>5, <2>2, <3>1 DEF Halfway
    <3>2. CASE d # c
      BY <2>2, <3>2 DEF Halfway, Finishing, FinishSteps
    <3>3. QED
      BY <3>1, <3>2
  <2>4. Finishing(c)'
    BY <1>3, <1>5 DEF Finishing, FinishSteps
  <2>5. QED
    BY <2>2, <2>3, <2>4 DEF OneFinishes
<1>10. QED
  BY <1>6, <1>7, <1>8, <1>9 DEF BootKept

LEMMA ProfiledKeeps ==
  ASSUME BootKept, NEW c \in BootChats, Profiled(c)
  PROVE  BootKept'
<1>1. /\ BootShape /\ PreferencesAreRemembered /\ Covers(c)
      /\ UNCHANGED <<boot, prompted, memory, identity, soul, wizard, sent, noted, late, erased, overlapped, broken>>
      /\ NotesInBoot' = NotesInBoot /\ bootHandler[c].at = "profile" /\ Finishing(c)
  BY NotesSame DEF BootKept, Profiled, bootFiles, bootCounts, bootHistory, At, Finishing, FinishSteps
<1>2. PICK where \in {"remember", "fallback"} : Moved(c, where)
  BY <1>1, GotoMoves DEF Profiled, BootShape, FinishSteps
<1>3. Covers(c)'
  BY <1>1, <1>2 DEF Covers, Moved, WriteSteps, Excused
<1>4. OneFinishes => Halfway(c)' /\ Finishing(c)'
  BY <1>1, <1>2 DEF OneFinishes, Halfway, Same, Moved, Finishing, FinishSteps
<1>5. prompted' \in BOOLEAN
  BY <1>1 DEF BootShape
<1>6. Frame(c) /\ Files
  BY <1>1, <1>2, <1>5, QuietFrame, QuietFiles
<1>7. QED
  BY <1>1, <1>3, <1>4, <1>6, FinishKeeps

LEMMA FallbackKeeps ==
  ASSUME BootKept, NEW c \in BootChats, Fallback(c)
  PROVE  BootKept'
<1> DEFINE notes == IF IsBootMode THEN CHOOSE b \in boot : TRUE ELSE <<>>
           first == IF Len(notes) < MaxLines THEN Len(notes) ELSE MaxLines
<1>0. PICK n \in {first, 0} :
        /\ bootHandler' = [bootHandler EXCEPT ![c].at = "remember",
                                             ![c].text = ToSet(SubSeq(notes, 1, n))]
        /\ late' = late \union (ToSet(notes) \ ToSet(SubSeq(notes, 1, n)))
  BY DEF Fallback
<1> DEFINE taken == SubSeq(notes, 1, n)
<1>1. /\ BootShape /\ PreferencesAreRemembered
      /\ UNCHANGED <<boot, prompted, memory, identity, soul, wizard, sent, noted, erased, overlapped, broken>>
      /\ NotesInBoot' = NotesInBoot /\ bootHandler[c].at = "fallback" /\ Finishing(c)
      /\ bootHandler' = [bootHandler EXCEPT ![c].at = "remember", ![c].text = ToSet(taken)]
      /\ late' = late \union (ToSet(notes) \ ToSet(taken))
  BY <1>0, NotesSame DEF BootKept, Fallback, bootFiles, At, Finishing, FinishSteps
<1>2. notes \in Seq(Note) /\ NotesInBoot = ToSet(notes)
  BY <1>1, TranscriptRead DEF Transcript
<1>3. PICK k \in 0..Len(notes) : taken = SubSeq(notes, 1, k)
  <2>1. Len(notes) \in Nat /\ MaxLines \in Nat
    BY <1>2, BootAssumption
  <2> HIDE DEF notes
  <2>2. first \in 0..Len(notes) /\ n \in 0..Len(notes)
    BY <2>1
  <2>3. QED
    BY <2>2
<1> HIDE DEF notes, taken, first
<1>4. ToSet(taken) \subseteq NotesInBoot
  BY <1>2, <1>3, FirstNotes
<1>5. PICK h : h = [bootHandler[c] EXCEPT !.at = "remember", !.text = ToSet(taken)]
  OBVIOUS
<1>6. h \in BootHandler /\ h.at = "remember" /\ h.text = ToSet(taken)
  <2>1. bootHandler[c] \in BootHandler /\ ToSet(taken) \subseteq Note
    BY <1>1, <1>4 DEF BootShape
  <2>2. QED
    BY <1>5, <2>1 DEF BootHandler, FinishSteps
<1>7. bootHandler' = [bootHandler EXCEPT ![c] = h]
  BY <1>1, <1>5 DEF BootShape
<1>8. /\ bootHandler' \in [BootChats -> BootHandler] /\ bootHandler'[c] = h
      /\ \A d \in BootChats : d # c => bootHandler'[d] = bootHandler[d]
  <2>1. bootHandler \in [BootChats -> BootHandler]
    BY <1>1 DEF BootShape
  <2>2. h \in BootHandler
    BY <1>6
  <2>3. QED
    BY <1>7, <2>1, <2>2
<1>9. Covers(c)'
  BY <1>1, <1>2, <1>4, <1>6, <1>8 DEF Covers, WriteSteps, Excused
<1>10. OneFinishes => Halfway(c)' /\ Finishing(c)'
  BY <1>1, <1>6, <1>8 DEF OneFinishes, Halfway, Same, Finishing, FinishSteps
<1>11. /\ late \subseteq late' /\ late' \subseteq noted /\ h.text \subseteq noted
       /\ memory \subseteq noted /\ prompted' \in BOOLEAN
  BY <1>1, <1>2, <1>4, <1>6 DEF BootShape
<1>12. Frame(c)
  BY <1>1, <1>8, <1>11 DEF Frame
<1>13. Files
  BY <1>1, <1>11, QuietFiles
<1>14. QED
  BY <1>1, <1>9, <1>10, <1>12, <1>13, FinishKeeps

LEMMA GivesUpKeeps ==
  ASSUME BootKept, NEW c \in BootChats, GivesUp(c)
  PROVE  BootKept'
<1>1. /\ BootShape /\ PreferencesAreRemembered
      /\ UNCHANGED <<boot, prompted, memory, identity, soul, wizard, sent, noted, late, erased, overlapped>>
      /\ Finishing(c) /\ broken' = (broken \/ ~At(c, "remember"))
  BY DEF BootKept, GivesUp, bootFiles, Finishing, FinishSteps
<1>2. Moved(c, "idle")
  BY <1>1, GotoMoves DEF GivesUp, BootShape
<1>3. Covers(c)'
  BY <1>2 DEF Covers, Moved, WriteSteps, Excused
<1>4. ~broken' /\ OneFinishes => Halfway(c)' /\ Same'
  BY <1>1, <1>2 DEF OneFinishes, Halfway, Same, Moved, At
<1>5. broken' \in BOOLEAN /\ (~broken' => ~broken)
  BY <1>1
<1>6. Frame(c)
  BY <1>1, <1>2, QuietFrame
<1>7. Files
  <2>1. identity'.prefs \union soul'.prefs \subseteq memory' \union erased
    BY <1>1 DEF PreferencesAreRemembered
  <2>2. prompted' \in BOOLEAN /\ identity' \in Prompt /\ soul' \in Prompt
    BY <1>1 DEF BootShape
  <2>3. QED
    BY <1>1, <1>5, <2>1, <2>2 DEF Files
<1>8. QED
  BY <1>1, <1>3, <1>4, <1>6, <1>7, FinishKeeps

LEMMA RememberKeeps ==
  ASSUME BootKept, NEW c \in BootChats, Remember(c)
  PROVE  BootKept'
<1>1. /\ BootShape /\ PreferencesAreRemembered /\ Covers(c)
      /\ UNCHANGED <<boot, prompted, identity, soul, wizard, sent, noted, late, erased, overlapped, broken>>
      /\ NotesInBoot' = NotesInBoot /\ bootHandler[c].at = "remember" /\ Finishing(c)
      /\ memory' = memory \union bootHandler[c].text
  BY NotesSame DEF BootKept, Remember, bootCounts, bootHistory, At, Finishing, FinishSteps
<1>2. Moved(c, "read identity")
  BY <1>1, GotoMoves DEF Remember, BootShape, FinishSteps
<1>3. Covers(c)'
  BY <1>1, <1>2 DEF Covers, Moved, WriteSteps, Excused
<1>4. OneFinishes => Halfway(c)' /\ Finishing(c)'
  BY <1>1, <1>2 DEF OneFinishes, Halfway, Same, Moved, Finishing, FinishSteps
<1>5. prompted' \in BOOLEAN /\ memory' \union late \subseteq noted
  BY <1>1 DEF BootShape
<1>6. bootHandler'[c].text \subseteq noted
  BY <1>1, <1>2 DEF BootShape, Moved
<1>7. Frame(c)
  BY <1>1, <1>2, <1>5, <1>6 DEF Moved, Frame
<1>8. Files
  BY <1>1, <1>5, QuietFiles
<1>9. QED
  BY <1>1, <1>3, <1>4, <1>7, <1>8, FinishKeeps

LEMMA ReadPromptKeeps ==
  ASSUME BootKept, NEW c \in BootChats,
         \/ ReadPrompt(c, identity, "read identity", "empty identity")
         \/ ReadPrompt(c, soul, "read soul", "empty soul")
  PROVE  BootKept'
<1>1. PICK file, to, read :
        /\ \/ bootHandler[c].at = "read identity" /\ to = "empty identity" /\ file = identity
           \/ bootHandler[c].at = "read soul" /\ to = "empty soul" /\ file = soul
        /\ bootHandler' = [bootHandler EXCEPT ![c].at = to, ![c].read = read]
        /\ (read = {file} /\ broken' = broken) \/ (read = {} /\ broken' = TRUE)
  BY DEF ReadPrompt, At
<1>2. /\ BootShape /\ PreferencesAreRemembered /\ Covers(c)
      /\ UNCHANGED <<boot, prompted, memory, identity, soul, wizard, sent, noted, late, erased, overlapped>>
      /\ NotesInBoot' = NotesInBoot
  BY NotesSame DEF BootKept, ReadPrompt, bootFiles
<1>3. Finishing(c) /\ to \in FinishSteps
  BY <1>1 DEF Finishing, FinishSteps
<1>4. PICK h : h = [bootHandler[c] EXCEPT !.at = to, !.read = read]
  OBVIOUS
<1>5. h \in BootHandler /\ h.at = to /\ h.read = read /\ h.text = bootHandler[c].text
  <2>1. bootHandler[c] \in BootHandler /\ read \subseteq Prompt
    BY <1>1, <1>2 DEF BootShape
  <2>2. QED
    BY <1>3, <1>4, <2>1 DEF BootHandler
<1>6. bootHandler' = [bootHandler EXCEPT ![c] = h]
  BY <1>1, <1>2, <1>4 DEF BootShape
<1>7. /\ bootHandler' \in [BootChats -> BootHandler] /\ bootHandler'[c] = h
      /\ \A d \in BootChats : d # c => bootHandler'[d] = bootHandler[d]
  BY <1>2, <1>5, <1>6 DEF BootShape
<1>8. Covers(c)'
  BY <1>1, <1>2, <1>5, <1>7 DEF Covers, WriteSteps, Excused
<1>9. Finishing(c)'
  BY <1>3, <1>5, <1>7 DEF Finishing
<1>10. ASSUME ~broken', OneFinishes PROVE Halfway(c)'
  <2>1. Halfway(c) /\ read = {file}
    BY <1>1, <1>10 DEF OneFinishes
  <2>2. file.own
    BY <1>1, <2>1 DEF Halfway, Same
  <2>3. HasOwn(c)'
    BY <1>5, <1>7, <2>1, <2>2 DEF HasOwn
  <2>4. CASE bootHandler[c].at = "read identity" /\ to = "empty identity"
    BY <1>2, <1>5, <1>7, <2>1, <2>3, <2>4 DEF Halfway, Same
  <2>5. CASE bootHandler[c].at = "read soul" /\ to = "empty soul"
    BY <1>2, <1>5, <1>7, <2>1, <2>3, <2>5 DEF Halfway
  <2>6. QED
    BY <1>1, <2>4, <2>5
<1>11. broken' \in BOOLEAN /\ (~broken' => ~broken)
  <2>1. CASE broken' = broken
    BY <1>2, <2>1 DEF BootShape
  <2>2. CASE broken' = TRUE
    BY <2>2
  <2>3. QED
    BY <1>1, <2>1, <2>2
<1>12. h.text \subseteq noted /\ memory \union late \subseteq noted
  BY <1>2, <1>5 DEF BootShape
<1>13. Frame(c)
  BY <1>2, <1>7, <1>12 DEF Frame
<1>14. Files
  <2>1. identity'.prefs \union soul'.prefs \subseteq memory' \union erased
    BY <1>2 DEF PreferencesAreRemembered
  <2>2. prompted' \in BOOLEAN /\ identity' \in Prompt /\ soul' \in Prompt
    BY <1>2 DEF BootShape
  <2>3. QED
    BY <1>2, <1>11, <2>1, <2>2 DEF Files
<1>15. QED
  BY <1>3, <1>8, <1>9, <1>10, <1>13, <1>14, FinishKeeps

LEMMA Prompts ==
  ASSUME BootShape, NEW c \in BootChats
  PROVE  /\ Emptied \in Prompt /\ Emptied.there /\ Emptied.prefs = {}
         /\ Updated(c) \in Prompt /\ Updated(c).there /\ Updated(c).prefs = bootHandler[c].text
         /\ Updated(c).own = HasOwn(c)
BY DEF BootShape, Emptied, Updated, Prompt, HasOwn, BootHandler

LEMMA WriteIdentityKeeps ==
  ASSUME BootKept, NEW c \in BootChats, WriteIdentity(c)
  PROVE  BootKept'
<1>1. /\ BootShape /\ PreferencesAreRemembered /\ Covers(c)
      /\ UNCHANGED <<boot, prompted, memory, soul, wizard, sent, noted, late, erased, overlapped, broken>>
      /\ NotesInBoot' = NotesInBoot /\ Finishing(c)
  BY NotesSame DEF BootKept, WriteIdentity, bootCounts, bootHistory, At, Finishing, FinishSteps
<1>2. CASE At(c, "empty identity") /\ identity' = Emptied /\ Goto(c, "fill identity")
  <2>1. Moved(c, "fill identity")
    BY <1>1, <1>2, GotoMoves DEF BootShape, FinishSteps
  <2>2. Covers(c)'
    BY <1>1, <1>2, <2>1 DEF Covers, Moved, WriteSteps, Excused, At
  <2>3. OneFinishes => Halfway(c)' /\ Finishing(c)'
    BY <1>1, <1>2, <2>1 DEF OneFinishes, Halfway, HasOwn, Moved, Finishing, FinishSteps, At
  <2>4. Frame(c)
    BY <1>1, <2>1, QuietFrame
  <2>5. Files
    <3>1. identity' \in Prompt /\ identity'.there /\ identity'.prefs = {}
      BY <1>1, <1>2, Prompts
    <3>2. QED
      BY <1>1, <3>1 DEF BootShape, PreferencesAreRemembered, Files
  <2>6. QED
    BY <1>1, <2>2, <2>3, <2>4, <2>5, FinishKeeps
<1>3. CASE At(c, "fill identity") /\ identity' = Updated(c) /\ Goto(c, "read soul")
  <2>1. Moved(c, "read soul")
    BY <1>1, <1>3, GotoMoves DEF BootShape, FinishSteps
  <2>2. Covers(c)' /\ bootHandler[c].text \subseteq memory \union erased
    BY <1>1, <1>3, <2>1 DEF Covers, Moved, WriteSteps, Excused, At
  <2>3. OneFinishes => Halfway(c)' /\ Finishing(c)'
    BY <1>1, <1>3, <2>1, Prompts DEF OneFinishes, Halfway, Moved, Finishing, FinishSteps, At
  <2>4. Frame(c)
    BY <1>1, <2>1, QuietFrame
  <2>5. Files
    <3>1. identity' \in Prompt /\ identity'.there /\ identity'.prefs = bootHandler[c].text
      BY <1>1, <1>3, Prompts
    <3>2. QED
      BY <1>1, <2>2, <3>1 DEF BootShape, PreferencesAreRemembered, Files
  <2>6. QED
    BY <1>1, <2>2, <2>3, <2>4, <2>5, FinishKeeps
<1>4. QED
  BY <1>2, <1>3 DEF WriteIdentity

LEMMA WriteSoulKeeps ==
  ASSUME BootKept, NEW c \in BootChats, WriteSoul(c)
  PROVE  BootKept'
<1>1. /\ BootShape /\ PreferencesAreRemembered /\ Covers(c)
      /\ UNCHANGED <<boot, prompted, memory, identity, wizard, sent, noted, late, erased, overlapped, broken>>
      /\ NotesInBoot' = NotesInBoot /\ Finishing(c)
  BY NotesSame DEF BootKept, WriteSoul, bootCounts, bootHistory, At, Finishing, FinishSteps
<1>2. CASE At(c, "empty soul") /\ soul' = Emptied /\ Goto(c, "fill soul")
  <2>1. Moved(c, "fill soul")
    BY <1>1, <1>2, GotoMoves DEF BootShape, FinishSteps
  <2>2. Covers(c)'
    BY <1>1, <1>2, <2>1 DEF Covers, Moved, WriteSteps, Excused, At
  <2>3. OneFinishes => Halfway(c)' /\ Finishing(c)'
    BY <1>1, <1>2, <2>1 DEF OneFinishes, Halfway, HasOwn, Moved, Finishing, FinishSteps, At
  <2>4. Frame(c)
    BY <1>1, <2>1, QuietFrame
  <2>5. Files
    <3>1. soul' \in Prompt /\ soul'.there /\ soul'.prefs = {}
      BY <1>1, <1>2, Prompts
    <3>2. QED
      BY <1>1, <3>1 DEF BootShape, PreferencesAreRemembered, Files
  <2>6. QED
    BY <1>1, <2>2, <2>3, <2>4, <2>5, FinishKeeps
<1>3. CASE At(c, "fill soul") /\ soul' = Updated(c) /\ Goto(c, "remove")
  <2>1. Moved(c, "remove")
    BY <1>1, <1>3, GotoMoves DEF BootShape, FinishSteps
  <2>2. Covers(c)' /\ bootHandler[c].text \subseteq memory \union erased
    BY <1>1, <1>3, <2>1 DEF Covers, Moved, WriteSteps, Excused, At
  <2>3. OneFinishes => Halfway(c)' /\ Finishing(c)'
    BY <1>1, <1>3, <2>1, Prompts DEF OneFinishes, Halfway, Same, Moved, Finishing, FinishSteps, At
  <2>4. Frame(c)
    BY <1>1, <2>1, QuietFrame
  <2>5. Files
    <3>1. soul' \in Prompt /\ soul'.there /\ soul'.prefs = bootHandler[c].text
      BY <1>1, <1>3, Prompts
    <3>2. QED
      BY <1>1, <2>2, <3>1 DEF BootShape, PreferencesAreRemembered, Files
  <2>6. QED
    BY <1>1, <2>2, <2>3, <2>4, <2>5, FinishKeeps
<1>4. QED
  BY <1>2, <1>3 DEF WriteSoul

LEMMA RemovalKeeps ==
  ASSUME BootKept, NEW c \in BootChats, RemoveBoot(c) \/ RemoveMarker(c) \/ Confirmed(c)
  PROVE  BootKept'
<1>1. /\ BootShape /\ PreferencesAreRemembered /\ Covers(c)
      /\ UNCHANGED <<memory, identity, soul, wizard, sent, noted, late, erased, overlapped, broken>>
      /\ bootHandler[c].at \in {"remove", "unmark", "finished"} /\ Finishing(c)
  BY DEF BootKept, RemoveBoot, RemoveMarker, Confirmed, bootCounts, bootHistory, bootFiles, At, Finishing,
    FinishSteps
<1>2. PICK where \in {"unmark", "finished", "idle"} : Moved(c, where)
  BY <1>1, GotoMoves DEF RemoveBoot, RemoveMarker, Confirmed, BootShape, FinishSteps
<1>3. /\ boot' = boot \/ (boot' = {} /\ bootHandler[c].at = "remove")
      /\ prompted' \in BOOLEAN
  BY <1>1 DEF RemoveBoot, RemoveMarker, Confirmed, bootFiles, At, BootShape
<1>4. boot' = boot \/ (boot' = {} /\ NotesInBoot \subseteq memory \union Excused)
  BY <1>1, <1>3 DEF Covers, WriteSteps, Excused
<1>5. Covers(c)'
  BY <1>2 DEF Covers, Moved, WriteSteps, Excused
<1>6. OneFinishes => Halfway(c)' /\ Same'
  BY <1>1, <1>2 DEF OneFinishes, Halfway, Same, Moved
<1>7. bootHandler'[c].text \subseteq noted /\ memory \union late \subseteq noted
  BY <1>1, <1>2 DEF BootShape, Moved
<1>8. Frame(c)
  BY <1>1, <1>2, <1>4, <1>7 DEF Moved, Frame
<1>9. Files
  BY <1>1, <1>3, QuietFiles
<1>10. QED
  BY <1>1, <1>5, <1>6, <1>8, <1>9, FinishKeeps

-----------------------------------------------------------------------------
(* The steps that move no handler, or all. *)

LEMMA NothingNoted ==
  ASSUME NEW b, b = {<<>>}
  PROVE  b \subseteq Seq(Note) /\ UNION {ToSet(notes) : notes \in b} = {}
<1>1. PICK s : s = <<>>
  OBVIOUS
<1>2. Len(s) = 0 /\ DOMAIN s = 1..Len(s)
  BY <1>1
<1>3. DOMAIN s = {}
  BY <1>2
<1>4. ToSet(s) = {}
  BY <1>3 DEF ToSet
<1>5. b = {s} /\ s \in Seq(Note)
  BY <1>1
<1>6. QED
  BY <1>4, <1>5

(* A setup removes or writes over whole files. *)
LEMMA SetupRemovesKeeps ==
  ASSUME BootKept, SetupRemoves
  PROVE  BootKept'
<1>1. PICK gone \in SUBSET WizardFiles, unmarked \in BOOLEAN, next \in {"asking", "configured", "unconfigured"} :
        /\ \/ /\ gone = WizardFiles /\ next = "asking"
              /\ broken' = (broken \/ \E c \in BootChats : Finishing(c))
           \/ broken' = TRUE
        /\ wizard' = [wizard EXCEPT !.at = next]
        /\ boot' = IF "boot" \in gone THEN {} ELSE boot
        /\ memory' = IF "memory" \in gone THEN {} ELSE memory
        /\ identity' = IF "identity" \in gone THEN Gone ELSE identity
        /\ soul' = IF "soul" \in gone THEN Gone ELSE soul
        /\ prompted' = (prompted /\ ~unmarked)
  BY DEF SetupRemoves
<1>2. /\ BootShape /\ erased' = noted
      /\ UNCHANGED <<bootHandler, sent, noted, late, overlapped>>
  BY DEF BootKept, SetupRemoves
<1>3. boot' = {} \/ boot' = boot
  BY <1>1
<1>4. NotesInBoot' \subseteq noted
  <2>1. NotesInBoot' = {} \/ NotesInBoot' = NotesInBoot
    BY <1>3 DEF NotesInBoot
  <2>2. QED
    BY <1>2, <2>1 DEF BootShape
<1>5. /\ memory' \subseteq noted /\ identity' \in Prompt /\ soul' \in Prompt
      /\ identity'.prefs \subseteq noted /\ soul'.prefs \subseteq noted
  <2>1. Gone \in Prompt /\ Gone.prefs = {}
    BY DEF Gone, Prompt
  <2>2. identity.prefs \subseteq noted /\ soul.prefs \subseteq noted
    BY DEF BootKept, BootShape, PreferencesAreRemembered
  <2>3. QED
    BY <1>1, <1>2, <2>1, <2>2 DEF BootShape
<1>6. wizard' \in Wizard /\ wizard'.at = next /\ broken' \in BOOLEAN /\ prompted' \in BOOLEAN
  <2>1. wizard \in Wizard
    BY <1>2 DEF BootShape
  <2>2. wizard' \in Wizard /\ wizard'.at = next
    BY <1>1, <2>1 DEF Wizard
  <2>3. QED
    BY <1>1, <2>2
<1>7. BootShape'
  <2>1. boot' \subseteq Seq(Note) /\ \A a, b \in boot' : a = b
    BY <1>2, <1>3 DEF BootShape
  <2>2. QED
    BY <1>2, <1>4, <1>5, <1>6, <2>1 DEF BootShape
<1>8. NotesAreKept' /\ PreferencesAreRemembered'
  BY <1>2, <1>5 DEF NotesAreKept, PreferencesAreRemembered
<1>9. ASSUME NEW d \in BootChats PROVE Covers(d)'
  <2>1. bootHandler'[d].text \subseteq noted /\ Excused' = late \union noted
    BY <1>2 DEF BootShape, Excused
  <2>2. QED
    BY <1>2, <1>4, <2>1 DEF Covers
<1>10. ASSUME ~overlapped' /\ ~broken' PROVE OneFinishes'
  <2>1. gone = WizardFiles /\ next = "asking" /\ \A c \in BootChats : ~Finishing(c)
    BY <1>1, <1>10
  <2>2. Cleared' /\ Opened' /\ \A c \in BootChats : ~Finishing(c)'
    BY <1>1, <1>2, <1>6, <2>1 DEF Cleared, Opened, Gone, WizardFiles, Finishing
  <2>3. \A c \in BootChats : Halfway(c)'
    BY <2>2 DEF Halfway, Finishing, FinishSteps
  <2>4. QED
    BY <2>2, <2>3 DEF OneFinishes
<1>11. QED
  BY <1>7, <1>8, <1>9, <1>10 DEF BootKept

LEMMA WizardKeeps ==
  ASSUME BootKept, SetupAsks \/ SetupIsLeft \/ SetupLooks
  PROVE  BootKept'
<1>1. /\ BootShape /\ UNCHANGED <<bootFiles, bootHandler, bootCounts, bootHistory>>
      /\ \/ wizard' = [wizard EXCEPT !.at = "asking"]
         \/ wizard' = [wizard EXCEPT !.at = "unconfigured"]
         \/ wizard' = [at |-> "writing", missing |-> MissingFiles]
  BY DEF BootKept, SetupAsks, SetupIsLeft, SetupLooks
<1>2. /\ UNCHANGED <<boot, prompted, memory, identity, soul, bootHandler, sent, noted, late,
                     erased, overlapped, broken>>
      /\ NotesInBoot' = NotesInBoot /\ Excused' = Excused
  BY <1>1, NotesSame DEF bootFiles, bootCounts, bootHistory, Excused
<1>3. /\ wizard' \in Wizard
      /\ wizard'.at = "writing" => wizard'.missing = MissingFiles
  BY <1>1 DEF BootShape, Wizard, MissingFiles
<1>4. BootShape'
  BY <1>1, <1>2, <1>3 DEF BootShape
<1>5. NotesAreKept' /\ PreferencesAreRemembered' /\ \A d \in BootChats : Covers(d)'
  BY <1>2 DEF BootKept, NotesAreKept, PreferencesAreRemembered, Covers
<1>6. ASSUME ~overlapped' /\ ~broken' PROVE OneFinishes'
  <2>1. OneFinishes
    BY <1>2, <1>6 DEF BootKept
  <2>2. Same' = Same /\ Both' = Both /\ Cleared' = Cleared
    BY <1>2 DEF Same, Both, Cleared, Gone
  <2>3. Opened'
    <3>1. Both \/ Cleared
      BY <2>1 DEF OneFinishes
    <3>2. CASE Both
      BY <1>3, <3>2 DEF Opened, Both, MissingFiles
    <3>3. CASE Cleared
      BY <1>3, <2>2, <3>3 DEF Opened, Cleared, Gone, MissingFiles, WizardFiles
    <3>4. QED
      BY <3>1, <3>2, <3>3
  <2>4. \A d \in BootChats : Halfway(d)' /\ Finishing(d)' = Finishing(d)
    BY <1>2, <2>1, <2>2 DEF OneFinishes, Halfway, HasOwn, Finishing
  <2>5. QED
    BY <2>1, <2>2, <2>3, <2>4 DEF OneFinishes
<1>7. QED
  BY <1>4, <1>5, <1>6 DEF BootKept

LEMMA SetupWritesKeeps ==
  ASSUME BootKept, SetupWrites
  PROVE  BootKept'
<1>1. PICK made \in SUBSET wizard.missing :
        /\ \/ made = wizard.missing /\ broken' = broken
           \/ broken' = TRUE
        /\ boot' = IF "boot" \in made THEN {<<>>} ELSE boot
        /\ memory' = IF "memory" \in made THEN {} ELSE memory
        /\ identity' = IF "identity" \in made THEN Untouched ELSE identity
        /\ soul' = IF "soul" \in made THEN Untouched ELSE soul
        /\ erased' = erased \union (IF "boot" \in made THEN NotesInBoot ELSE {})
                            \union (IF "memory" \in made THEN memory ELSE {})
  BY DEF SetupWrites
<1>2. /\ BootShape /\ NotesAreKept /\ PreferencesAreRemembered /\ wizard.at = "writing"
      /\ wizard' = [at |-> "configured", missing |-> {}]
      /\ UNCHANGED <<prompted, bootHandler, sent, noted, late, overlapped>>
  BY DEF BootKept, SetupWrites
<1>3. /\ wizard' \in Wizard /\ wizard'.at = "configured" /\ broken' \in BOOLEAN
      /\ (~broken' => ~broken /\ made = wizard.missing)
  BY <1>1, <1>2 DEF BootShape, Wizard
<1>4. NotesInBoot' = IF "boot" \in made THEN {} ELSE NotesInBoot
  <2>1. CASE "boot" \in made
    BY <1>1, <2>1, NothingNoted DEF NotesInBoot
  <2>2. CASE "boot" \notin made
    BY <1>1, <2>2 DEF NotesInBoot
  <2>3. QED
    BY <2>1, <2>2
<1>5. Untouched \in Prompt /\ Untouched.prefs = {}
  BY DEF Untouched, Prompt
<1>6. /\ erased \subseteq erased' /\ erased' \subseteq noted
      /\ memory \subseteq memory' \union erased' /\ memory' \subseteq memory
      /\ NotesInBoot \subseteq NotesInBoot' \union erased' /\ NotesInBoot' \subseteq NotesInBoot
  BY <1>1, <1>2, <1>4 DEF BootShape
<1>7. /\ identity' \in Prompt /\ identity'.prefs \subseteq identity.prefs
      /\ soul' \in Prompt /\ soul'.prefs \subseteq soul.prefs
  BY <1>1, <1>2, <1>5 DEF BootShape
<1>8. BootShape'
  <2>1. boot' \subseteq Seq(Note) /\ \A a, b \in boot' : a = b
    BY <1>1, <1>2, NothingNoted DEF BootShape
  <2>2. QED
    BY <1>2, <1>3, <1>6, <1>7, <2>1 DEF BootShape
<1>9. NotesAreKept' /\ PreferencesAreRemembered'
  BY <1>2, <1>6, <1>7 DEF NotesAreKept, PreferencesAreRemembered
<1>10. ASSUME NEW d \in BootChats PROVE Covers(d)'
  <2>1. Covers(d) /\ bootHandler' = bootHandler /\ Excused \subseteq Excused' /\ erased' \subseteq Excused'
    BY <1>2, <1>6 DEF BootKept, Excused
  <2>2. QED
    BY <1>6, <2>1 DEF Covers
<1>11. ASSUME ~overlapped' /\ ~broken' PROVE OneFinishes'
  <2>1. OneFinishes /\ made = wizard.missing
    BY <1>2, <1>3, <1>11 DEF BootKept
  <2>2. Opened' /\ \A d \in BootChats : Finishing(d)' = Finishing(d)
    BY <1>2, <1>3 DEF Opened, Finishing
  <2>3. CASE "identity" \in made \/ "soul" \in made
    <3>1. Cleared /\ {"identity", "soul"} \subseteq made
      BY <1>2, <2>1, <2>3 DEF OneFinishes, Opened
    <3>2. identity' = Untouched /\ soul' = Untouched
      BY <1>1, <3>1
    <3>3. Same' /\ Both'
      BY <3>2 DEF Same, Both, Untouched
    <3>4. \A d \in BootChats : ~Finishing(d)
      BY <2>1, <3>1 DEF OneFinishes, Both, Cleared, Gone
    <3>5. \A d \in BootChats : Halfway(d)'
      BY <2>2, <3>4 DEF Halfway, Finishing, FinishSteps
    <3>6. QED
      BY <2>2, <3>3, <3>4, <3>5 DEF OneFinishes
  <2>4. CASE ~("identity" \in made \/ "soul" \in made)
    <3>1. identity' = identity /\ soul' = soul
      BY <1>1, <2>4
    <3>2. Same' = Same /\ Both' = Both /\ Cleared' = Cleared
      BY <3>1 DEF Same, Both, Cleared, Gone
    <3>3. \A d \in BootChats : Halfway(d)'
      BY <1>2, <2>1, <3>1, <3>2 DEF OneFinishes, Halfway, HasOwn
    <3>4. QED
      BY <2>1, <2>2, <3>2, <3>3 DEF OneFinishes
  <2>5. QED
    BY <2>3, <2>4
<1>12. QED
  BY <1>8, <1>9, <1>10, <1>11 DEF BootKept

LEMMA CrashKeeps ==
  ASSUME BootKept, BootCrash
  PROVE  BootKept'
<1>1. /\ BootShape /\ NotesAreKept /\ PreferencesAreRemembered
      /\ UNCHANGED <<boot, prompted, memory, identity, soul, wizard, sent, noted, late, erased, overlapped>>
      /\ NotesInBoot' = NotesInBoot
      /\ bootHandler' = [c \in BootChats |-> Waiting]
      /\ broken' = (broken \/ \E c \in BootChats : Finishing(c))
  BY NotesSame DEF BootKept, BootCrash, bootFiles
<1>2. /\ bootHandler' \in [BootChats -> BootHandler]
      /\ \A c \in BootChats : bootHandler'[c].at = "idle" /\ bootHandler'[c].text = {}
  BY <1>1 DEF Waiting, BootHandler
<1>3. broken' \in BOOLEAN /\ (~broken' => ~broken /\ \A c \in BootChats : ~Finishing(c))
  BY <1>1
<1>4. BootShape'
  BY <1>1, <1>2, <1>3 DEF BootShape
<1>5. NotesAreKept' /\ PreferencesAreRemembered'
  BY <1>1 DEF NotesAreKept, PreferencesAreRemembered
<1>6. ASSUME NEW d \in BootChats PROVE Covers(d)'
  BY <1>2 DEF Covers, WriteSteps
<1>7. ASSUME ~overlapped' /\ ~broken' PROVE OneFinishes'
  <2>1. (Same \/ Cleared) /\ (Both \/ Cleared) /\ Opened
    BY <1>1, <1>3, <1>7 DEF BootKept, OneFinishes
  <2>2. (Same' \/ Cleared') /\ (Both' \/ Cleared') /\ Opened'
    BY <1>1, <2>1, FilesSame
  <2>3. \A c \in BootChats : ~Finishing(c)' /\ Halfway(c)'
    BY <1>1, <1>2 DEF Finishing, FinishSteps, Halfway
  <2>4. QED
    BY <2>2, <2>3 DEF OneFinishes
<1>8. QED
  BY <1>4, <1>5, <1>6, <1>7 DEF BootKept

LEMMA MessageKeeps ==
  ASSUME BootKept, NEW c \in BootChats,
         \/ Receive(c) \/ Classified(c) \/ Hint(c) \/ Greet(c) \/ Greeted(c)
  PROVE  BootKept'
<1>1. /\ BootShape
      /\ UNCHANGED <<boot, memory, identity, soul, wizard, bootHistory>>
      /\ bootHandler[c].at \in {"idle", "classify", "hint", "greeting"} /\ ~Finishing(c)
  BY DEF BootKept, Receive, Classified, Hint, Greet, Greeted, bootFiles, bootCounts, At, Finishing, FinishSteps
<1>2. PICK where \in {"idle", "classify", "note", "hint", "greeting", "transcript"} : Goto(c, where)
  BY DEF Receive, Classified, Hint, Greet, Greeted
<1>3. Moved(c, where) /\ where \notin FinishSteps
  BY <1>1, <1>2, GotoMoves DEF BootShape, FinishSteps
<1>4. prompted' \in BOOLEAN
  <2>1. prompted \in BOOLEAN
    BY <1>1 DEF BootShape
  <2>2. CASE prompted' = prompted
    BY <2>1, <2>2
  <2>3. CASE prompted' = (prompted \/ IsBootMode)
    BY <2>3
  <2>4. CASE prompted' = TRUE
    BY <2>4
  <2>5. QED
    BY <2>2, <2>3, <2>4 DEF Receive, Classified, Hint, Greet, Greeted, bootFiles
<1>5. sent' \in [BootChats -> Nat]
  BY <1>1 DEF Receive, Classified, Hint, Greet, Greeted, BootShape, bootCounts
<1>6. QED
  BY <1>1, <1>3, <1>4, <1>5, AsideKeeps

LEMMA BootStep ==
  ASSUME BootKept, [BootNext]_bootVars
  PROVE  BootKept'
<1>1. ASSUME NEW c \in BootChats, Finish(c) PROVE BootKept'
  <2>1. CASE ReadTranscript(c) \/ Profiled(c) \/ Fallback(c) \/ GivesUp(c) \/ Remember(c)
    BY <2>1, ReadTranscriptKeeps, ProfiledKeeps, FallbackKeeps, GivesUpKeeps, RememberKeeps
  <2>2. CASE \/ ReadPrompt(c, identity, "read identity", "empty identity")
             \/ ReadPrompt(c, soul, "read soul", "empty soul")
    BY <2>2, ReadPromptKeeps
  <2>3. CASE WriteIdentity(c) \/ WriteSoul(c)
    BY <2>3, WriteIdentityKeeps, WriteSoulKeeps
  <2>4. CASE RemoveBoot(c) \/ RemoveMarker(c) \/ Confirmed(c)
    BY <2>4, RemovalKeeps
  <2>5. QED
    BY <1>1, <2>1, <2>2, <2>3, <2>4 DEF Finish
<1>2. ASSUME NEW c \in BootChats, TakeNote(c) PROVE BootKept'
  BY <1>2, NotedKeeps
<1>3. CASE \E c \in BootChats : Receive(c) \/ Classified(c) \/ Hint(c) \/ Greet(c) \/ Greeted(c)
  BY <1>3, MessageKeeps
<1>4. CASE Setup \/ BootCrash
  BY <1>4, SetupRemovesKeeps, WizardKeeps, SetupWritesKeeps, CrashKeeps DEF Setup
<1>5. CASE UNCHANGED bootVars
  <2>1. /\ UNCHANGED <<boot, prompted, memory, identity, soul, bootHandler, wizard, sent, noted, late,
                       erased, overlapped, broken>>
        /\ NotesInBoot' = NotesInBoot
    BY <1>5, NotesSame DEF bootVars, bootFiles, bootCounts, bootHistory
  <2>2. BootShape' /\ NotesAreKept' /\ PreferencesAreRemembered'
    BY <2>1 DEF BootKept, BootShape, NotesAreKept, PreferencesAreRemembered
  <2>3. \A c \in BootChats : Covers(c)'
    BY <2>1 DEF BootKept, Covers, Excused
  <2>4. ASSUME ~overlapped' /\ ~broken' PROVE OneFinishes'
    <3>1. OneFinishes
      BY <2>1, <2>4 DEF BootKept
    <3>2. Same' = Same /\ Both' = Both /\ Cleared' = Cleared /\ Opened' = Opened
      BY <2>1, FilesSame
    <3>3. QED
      BY <2>1, <3>1, <3>2 DEF OneFinishes, Finishing, Halfway, HasOwn
  <2>5. QED
    BY <2>2, <2>3, <2>4 DEF BootKept
<1>6. QED
  BY <1>1, <1>2, <1>3, <1>4, <1>5 DEF BootNext

LEMMA BootInitially == BootInit => BootKept
<1> SUFFICES ASSUME BootInit PROVE BootKept
  OBVIOUS
<1>1. /\ boot = {<<>>} /\ prompted = FALSE /\ memory = {} /\ noted = {} /\ late = {} /\ erased = {}
      /\ overlapped = FALSE /\ broken = FALSE /\ sent = [c \in BootChats |-> 0]
      /\ identity = Untouched /\ soul = Untouched
      /\ bootHandler = [c \in BootChats |-> Waiting]
  BY DEF BootInit
<1>2. NotesInBoot = {}
  <2>1. PICK s : s = <<>>
    OBVIOUS
  <2>2. Len(s) = 0 /\ DOMAIN s = 1..Len(s)
    BY <2>1
  <2>3. DOMAIN s = {}
    BY <2>2
  <2>4. ToSet(s) = {} /\ boot = {s}
    BY <1>1, <2>1, <2>3 DEF ToSet
  <2>5. QED
    BY <2>4 DEF NotesInBoot
<1>3. /\ Untouched \in Prompt /\ Untouched.own /\ Untouched.prefs = {}
      /\ Waiting \in BootHandler /\ Waiting.at = "idle" /\ Waiting.text = {}
  BY DEF Untouched, Prompt, Waiting, BootHandler
<1>4. \A c \in BootChats : bootHandler[c] = Waiting
  BY <1>1
<1>5. boot \subseteq Seq(Note) /\ \A a, b \in boot : a = b
  BY <1>1
<1>6. BootShape
  <2>1. wizard \in Wizard
    BY DEF BootInit, Wizard
  <2>2. QED
    BY <1>1, <1>2, <1>3, <1>4, <1>5, <2>1 DEF BootShape
<1>7. NotesAreKept /\ PreferencesAreRemembered
  BY <1>1, <1>3 DEF NotesAreKept, PreferencesAreRemembered
<1>8. \A c \in BootChats : Covers(c) /\ Halfway(c) /\ ~Finishing(c)
  BY <1>3, <1>4 DEF Covers, WriteSteps, Halfway, Finishing, FinishSteps
<1>9. Same /\ Both /\ Opened
  BY <1>1 DEF Same, Both, Untouched, Opened, BootInit
<1>10. QED
  BY <1>6, <1>7, <1>8, <1>9 DEF BootKept, OneFinishes

LEMMA BootKeptTells == BootKept => BootInv
<1> SUFFICES ASSUME BootKept PROVE BootInv
  OBVIOUS
<1>1. BootShape /\ NotesAreKept /\ PreferencesAreRemembered
  BY DEF BootKept
<1>2. identity.prefs \subseteq noted /\ soul.prefs \subseteq noted
  BY <1>1 DEF BootShape, PreferencesAreRemembered
<1>3. {identity, soul} \subseteq [there : BOOLEAN, own : BOOLEAN, prefs : SUBSET noted]
  BY <1>1, <1>2 DEF BootShape, Prompt
<1>4. BootTypeOK
  BY <1>1, <1>3 DEF BootShape, BootTypeOK, Wizard
<1>5. PromptFilesAgree
  BY DEF BootKept, OneFinishes, Same, Cleared, Gone, PromptFilesAgree
<1>6. QED
  BY <1>1, <1>4, <1>5 DEF BootInv

(* Whatever fails, dies or overlaps in the interview, a new setup included: no
   answer is lost but those that came during a finish, that a summary without
   the model has no line for or could not read, or that a setup removed; the two
   prompt files say the same as long as one chat at a time finished it and no
   finish or setup broke off in them; and they never run ahead of MEMORY.md
   (workspace.rs:73-162, bot.rs:791-834, commands.rs:700-916). *)
THEOREM NoAnswerIsLost == BootSpec => []BootInv
<1>1. BootKept /\ [BootNext]_bootVars => BootKept'
  BY BootStep
<1>2. QED
  BY <1>1, BootInitially, BootKeptTells, PTL DEF BootSpec

-----------------------------------------------------------------------------
(* The installation. *)

InstallSpec == InstallInit /\ [][InstallNext]_installVars

-----------------------------------------------------------------------------
(* The shapes of the variables; a path leads to one file at most. *)

UpdateRecord ==
  [at : {"new", "latest", "download", "open", "write", "chmod", "rename", "updated", "failed"},
   runs : Inodes, release : 0..MaxVersion, writes : Inodes, stray : BOOLEAN]

FileRecord == [version : 1..MaxVersion, whole : BOOLEAN]

FilesTypeOK ==
  /\ published \in 1..MaxVersion
  /\ exe \subseteq Inodes /\ \A i, j \in exe : i = j
  /\ tmp \subseteq Inodes /\ \A i, j \in tmp : i = j
  /\ content \in [Inodes -> FileRecord]
  /\ update \in [Updates -> UpdateRecord]
  /\ \A u \in Updates : /\ update[u].release <= published
                        /\ update[u].at # "new" => update[u].release >= 1

CommandRecord ==
  [what : {"none", "install", "uninstall"} \union Verbs,
   at : {"none", "exists", "copy", "reload", "run", "stop", "disable", "rm", "binary"}]

ServiceTypeOK ==
  /\ unit \in BOOLEAN /\ enabled \in BOOLEAN /\ active \in BOOLEAN
  /\ abandoned \in BOOLEAN /\ refused \in BOOLEAN /\ crossed \in BOOLEAN
  /\ command \in CommandRecord

(* Where the files are, whoever crosses whom: an inode that ran is never the
   temporary file again, the one that an update would make is nowhere before
   it opens it, and the one made beside the path stays beside it. *)
Unopened(u) == update[u].at \in {"new", "latest", "download", "open"}
Writing(u) == update[u].at \in {"write", "chmod", "rename"}

Places ==
  /\ exe \cap tmp = {} /\ 0 \notin tmp
  /\ \A u \in Updates :
       /\ update[u].runs \notin tmp
       /\ Unopened(u) =>
            /\ u \notin exe \union tmp
            /\ \A v \in Updates : update[v].runs # u /\ update[v].writes # u
       /\ Writing(u) /\ update[u].stray => update[u].writes = u /\ u \notin exe \union tmp

(* As long as no update crossed another: the one past its download has the
   temporary file for itself, and what it replaces is older. *)
Alone(u) ==
  /\ PastDownload(u) /\ ~update[u].stray => update[u].runs \in exe
  /\ Writing(u) /\ ~update[u].stray => tmp = {update[u].writes}
  /\ update[u].at \in {"chmod", "rename"} /\ ~update[u].stray =>
       /\ content[update[u].writes].whole
       /\ content[update[u].writes].version = update[u].release
  /\ update[u].at = "download" \/ PastDownload(u) =>
       (update[u].runs \in exe => content[update[u].runs].version < update[u].release)
  /\ update[u].at = "updated" /\ ~update[u].stray =>
       \A i \in exe : content[i].version >= update[u].release

Uncrossed ==
  /\ \A u, v \in Updates : PastDownload(u) /\ PastDownload(v) => u = v
  /\ \A u \in Updates : Alone(u)
  /\ \A i \in exe : content[i].whole

FilesKept == FilesTypeOK /\ Places /\ (~crossed => Uncrossed)

(* The commands about the service: nothing is said while one is under way,
   and a service stays enabled without its unit only if sudo refused. *)
Doing(what, at) == command.what = what /\ command.at = at

ServiceKept ==
  /\ ServiceTypeOK
  /\ (command.what = "none") = (command.at = "none")
  /\ command.what # "none" => said = "nothing"
  /\ Doing("install", "reload") /\ ~refused => unit
  /\ enabled /\ ~unit => abandoned
  /\ Doing("uninstall", "rm") /\ ~refused => ~enabled
  /\ Doing("uninstall", "reload") \/ Doing("uninstall", "binary") => refused \/ ~unit
  /\ command.what = "none" /\ ~refused =>
       /\ said = "installed" => unit
       /\ said = "uninstalled" => ~unit

(* After a removal without crossing nothing brings the program back. *)
RemovalKept ==
  command.what = "none" /\ said = "uninstalled" /\ ~crossed => exe = {}

InstallKept == FilesKept /\ ServiceKept /\ RemovalKept

-----------------------------------------------------------------------------

(* What an update changes of the records: its own. *)
LEMMA OwnRecord ==
  ASSUME NEW u \in Updates, NEW r \in UpdateRecord, update \in [Updates -> UpdateRecord],
         update' = [update EXCEPT ![u] = r]
  PROVE  /\ update' \in [Updates -> UpdateRecord] /\ update'[u] = r
         /\ \A v \in Updates : v # u => update'[v] = update[v]
OBVIOUS

LEMMA OwnPlace ==
  ASSUME NEW u \in Updates, NEW where \in {"new", "latest", "download", "open", "write", "chmod",
           "rename", "updated", "failed"},
         update \in [Updates -> UpdateRecord], Goes(u, where)
  PROVE  /\ update' \in [Updates -> UpdateRecord] /\ update'[u].at = where
         /\ update'[u].runs = update[u].runs /\ update'[u].release = update[u].release
         /\ update'[u].writes = update[u].writes /\ update'[u].stray = update[u].stray
         /\ \A v \in Updates : v # u => update'[v] = update[v]
<1>1. update[u] \in UpdateRecord
  OBVIOUS
<1>2. PICK r : r = [update[u] EXCEPT !.at = where]
  OBVIOUS
<1>3. /\ r \in UpdateRecord /\ r.at = where /\ r.runs = update[u].runs
      /\ r.release = update[u].release /\ r.writes = update[u].writes /\ r.stray = update[u].stray
  BY <1>1, <1>2 DEF UpdateRecord
<1>4. update' = [update EXCEPT ![u] = r]
  BY <1>2 DEF Goes
<1>5. QED
  BY <1>3, <1>4, OwnRecord

LEMMA FilesUnchanged ==
  ASSUME FilesKept, UNCHANGED <<fileVars, update, crossed>>,
         published' = published \/ (published < MaxVersion /\ published' = published + 1)
  PROVE  FilesKept'
<1>1. FilesTypeOK'
  <2>1. /\ FilesTypeOK /\ UNCHANGED <<content, exe, tmp, update>>
        /\ published \in 1..MaxVersion /\ MaxVersion \in Nat
    BY InstallAssumption DEF FilesKept, FilesTypeOK, fileVars
  <2>2. published' \in 1..MaxVersion /\ published <= published'
    BY <2>1
  <2>3. \A u \in Updates : update[u].release \in 0..MaxVersion
    BY <2>1 DEF FilesTypeOK, UpdateRecord
  <2>4. \A u \in Updates : update'[u].release <= published'
    BY <2>1, <2>2, <2>3 DEF FilesTypeOK
  <2>5. QED
    BY <2>1, <2>2, <2>4 DEF FilesTypeOK
<1>2. Places'
  BY DEF FilesKept, Places, fileVars, Unopened, Writing
<1>3. ~crossed' => Uncrossed'
  BY DEF FilesKept, Uncrossed, Alone, fileVars, PastDownload, Writing
<1>4. QED
  BY <1>1, <1>2, <1>3 DEF FilesKept

LEMMA FetchKeeps ==
  ASSUME FilesKept, NEW u \in Updates, FetchLatest(u)
  PROVE  FilesKept'
<1>1. /\ FilesTypeOK /\ Places /\ update[u].at = "new"
      /\ UNCHANGED <<published, content, exe, tmp, crossed>>
  BY DEF FilesKept, FetchLatest, fileVars
<1>2. PICK i \in exe :
        update' = [update EXCEPT ![u] =
          [@ EXCEPT !.at = IF IsNewer(published, i) THEN "download" ELSE "latest",
                    !.runs = i, !.release = published]]
  BY DEF FetchLatest
<1>3. PICK r :
        r = [update[u] EXCEPT !.at = IF IsNewer(published, i) THEN "download" ELSE "latest",
                              !.runs = i, !.release = published]
  OBVIOUS
<1>4. /\ r \in UpdateRecord /\ r.runs = i /\ r.release = published
      /\ r.writes = update[u].writes /\ r.stray = update[u].stray
      /\ r.at \in {"download", "latest"}
      /\ r.at = "download" => content[i].version < published
  <2>1. update[u] \in UpdateRecord /\ i \in Inodes /\ published \in 0..MaxVersion
        /\ content[i].version \in 1..MaxVersion
    BY <1>1, InstallAssumption DEF FilesTypeOK, FileRecord
  <2>2. QED
    BY <1>3, <2>1 DEF UpdateRecord, IsNewer
<1>5. /\ update' \in [Updates -> UpdateRecord] /\ update'[u] = r
      /\ \A v \in Updates : v # u => update'[v] = update[v]
  BY <1>1, <1>2, <1>3, <1>4, OwnRecord DEF FilesTypeOK
<1>6. FilesTypeOK'
  BY <1>1, <1>4, <1>5 DEF FilesTypeOK
<1>7. Places'
  <2>1. i \notin tmp /\ \A v \in Updates : Unopened(v) => i # v
    BY <1>1 DEF Places
  <2>2. QED
    BY <1>1, <1>4, <1>5, <2>1 DEF Places, Unopened, Writing
<1>8. ~crossed' => Uncrossed'
  BY <1>1, <1>4, <1>5 DEF FilesKept, Uncrossed, Alone, PastDownload, Writing
<1>9. QED
  BY <1>6, <1>7, <1>8 DEF FilesKept

LEMMA DownloadKeeps ==
  ASSUME FilesKept, NEW u \in Updates, Download(u)
  PROVE  FilesKept'
<1>1. /\ FilesTypeOK /\ Places /\ update[u].at = "download"
      /\ UNCHANGED <<published, content, exe, tmp>>
      /\ crossed' = (crossed \/ \E v \in Updates \ {u} : PastDownload(v))
  BY DEF FilesKept, Download, fileVars
<1>2. PICK r : r = [update[u] EXCEPT !.at = "open", !.stray = update[u].runs \notin exe]
  OBVIOUS
<1>3. /\ r \in UpdateRecord /\ r.at = "open" /\ r.runs = update[u].runs
      /\ r.release = update[u].release /\ r.writes = update[u].writes
      /\ r.stray = (update[u].runs \notin exe)
  <2>1. update[u] \in UpdateRecord
    BY <1>1 DEF FilesTypeOK
  <2>2. QED
    BY <1>2, <2>1 DEF UpdateRecord
<1>4. update' = [update EXCEPT ![u] = r]
  BY <1>1, <1>2 DEF Download, FilesTypeOK
<1>5. /\ update' \in [Updates -> UpdateRecord] /\ update'[u] = r
      /\ \A v \in Updates : v # u => update'[v] = update[v]
  BY <1>1, <1>3, <1>4, OwnRecord DEF FilesTypeOK
<1>6. FilesTypeOK'
  BY <1>1, <1>3, <1>5 DEF FilesTypeOK
<1>7. Places'
  BY <1>1, <1>3, <1>5 DEF Places, Unopened, Writing
<1>8. ASSUME ~crossed' PROVE Uncrossed'
  <2>1. ~crossed /\ Uncrossed /\ \A v \in Updates : PastDownload(v) => v = u
    BY <1>1, <1>8 DEF FilesKept
  <2>2. \A v, w \in Updates : PastDownload(v)' /\ PastDownload(w)' => v = w
    BY <1>5, <2>1 DEF PastDownload
  <2>3. \A v \in Updates : Alone(v)'
    <3>1. ASSUME NEW v \in Updates, v # u PROVE Alone(v)'
      BY <1>1, <1>5, <2>1, <3>1 DEF Uncrossed, Alone, PastDownload, Writing
    <3>2. Alone(u)'
      BY <1>1, <1>3, <1>5, <2>1 DEF Uncrossed, Alone, PastDownload, Writing
    <3>3. QED
      BY <3>1, <3>2
  <2>4. QED
    BY <1>1, <2>1, <2>2, <2>3 DEF Uncrossed
<1>9. QED
  BY <1>6, <1>7, <1>8 DEF FilesKept

LEMMA OpenKeeps ==
  ASSUME FilesKept, NEW u \in Updates, OpenTemporary(u)
  PROVE  FilesKept'
<1>1. FilesTypeOK /\ Places /\ update[u].at = "open" /\ UNCHANGED <<published, exe, crossed>>
  BY DEF FilesKept, OpenTemporary
<1>2. PICK i :
        /\ i = IF tmp = {} \/ update[u].stray THEN u ELSE CHOOSE j \in tmp : TRUE
        /\ content' = [content EXCEPT ![i].whole = FALSE]
        /\ tmp' = IF update[u].stray THEN tmp ELSE {i}
        /\ update' = [update EXCEPT ![u].at = "write", ![u].writes = i]
  BY DEF OpenTemporary
<1>3. /\ tmp = {} \/ update[u].stray => i = u
      /\ tmp # {} /\ ~update[u].stray => i \in tmp
  BY <1>2
<1>4. i \in Inodes /\ i \notin exe /\ u \in Inodes /\ i # 0
  BY <1>1, <1>3, InstallAssumption DEF Places, FilesTypeOK, Unopened, Inodes
<1>5. PICK r : r = [update[u] EXCEPT !.at = "write", !.writes = i]
  OBVIOUS
<1>6. /\ r \in UpdateRecord /\ r.at = "write" /\ r.runs = update[u].runs
      /\ r.release = update[u].release /\ r.writes = i /\ r.stray = update[u].stray
  <2>1. update[u] \in UpdateRecord
    BY <1>1 DEF FilesTypeOK
  <2>2. QED
    BY <1>4, <1>5, <2>1 DEF UpdateRecord
<1>7. update' = [update EXCEPT ![u] = r]
  BY <1>1, <1>2, <1>5 DEF FilesTypeOK
<1>8. /\ update' \in [Updates -> UpdateRecord] /\ update'[u] = r
      /\ \A v \in Updates : v # u => update'[v] = update[v]
  BY <1>1, <1>6, <1>7, OwnRecord DEF FilesTypeOK
<1>9. /\ content' \in [Inodes -> FileRecord]
      /\ \A j \in Inodes : content'[j].version = content[j].version
      /\ \A j \in exe : content'[j] = content[j]
  <2>1. content \in [Inodes -> FileRecord] /\ content[i] \in FileRecord
    BY <1>1, <1>4 DEF FilesTypeOK
  <2>2. PICK f : f = [content[i] EXCEPT !.whole = FALSE]
    OBVIOUS
  <2>3. f \in FileRecord /\ f.version = content[i].version
    BY <2>1, <2>2 DEF FileRecord
  <2>4. content' = [content EXCEPT ![i] = f]
    BY <1>2, <2>1, <2>2
  <2>5. QED
    BY <1>1, <1>4, <2>1, <2>3, <2>4 DEF FilesTypeOK
<1>10. FilesTypeOK'
  BY <1>1, <1>2, <1>4, <1>6, <1>8, <1>9 DEF FilesTypeOK
<1>11. Places'
  <2>1. tmp' \subseteq tmp \union {i} /\ (update[u].stray => tmp' = tmp)
    BY <1>2
  <2>2. \A v \in Updates : update[v].runs # i
    BY <1>1, <1>3 DEF Places, Unopened
  <2>3. \A v \in Updates : Unopened(v)' => v # i
    BY <1>1, <1>3, <1>6, <1>8 DEF Places, Unopened
  <2>4. \A v \in Updates : Writing(v) /\ update[v].stray => v # i
    BY <1>1, <1>3 DEF Places, Unopened, Writing
  <2>5. exe' \cap tmp' = {} /\ 0 \notin tmp'
    BY <1>1, <1>4, <2>1 DEF Places
  <2>6. ASSUME NEW v \in Updates
        PROVE  /\ update'[v].runs \notin tmp'
               /\ Unopened(v)' =>
                    /\ v \notin exe' \union tmp'
                    /\ \A w \in Updates : update'[w].runs # v /\ update'[w].writes # v
               /\ Writing(v)' /\ update'[v].stray =>
                    update'[v].writes = v /\ v \notin exe' \union tmp'
    <3>1. update'[v].runs \notin tmp'
      BY <1>1, <1>6, <1>8, <2>1, <2>2 DEF Places
    <3>2. Unopened(v)' => v # u /\ Unopened(v)
      BY <1>6, <1>8 DEF Unopened
    <3>3. Unopened(v)' => /\ v \notin exe' \union tmp'
                          /\ \A w \in Updates : update'[w].runs # v /\ update'[w].writes # v
      BY <1>1, <1>6, <1>8, <2>1, <2>3, <3>2 DEF Places
    <3>4. CASE v = u
      BY <1>1, <1>3, <1>6, <1>8, <2>1, <3>1, <3>3, <3>4 DEF Places, Unopened
    <3>5. CASE v # u
      BY <1>1, <1>8, <2>1, <2>4, <3>1, <3>3, <3>5 DEF Places, Writing
    <3>6. QED
      BY <3>4, <3>5
  <2>7. QED
    BY <2>5, <2>6 DEF Places
<1>12. ASSUME ~crossed' PROVE Uncrossed'
  <2>1. Uncrossed /\ PastDownload(u)
    BY <1>1, <1>12 DEF FilesKept, PastDownload
  <2>2. \A v \in Updates : PastDownload(v)' => v = u
    BY <1>8, <2>1 DEF Uncrossed, PastDownload
  <2>3. ASSUME NEW v \in Updates PROVE Alone(v)'
    <3>1. Alone(v) /\ (v # u => ~PastDownload(v)')
      BY <2>1, <2>2 DEF Uncrossed
    <3>2. \A j \in exe : content'[j] = content[j]
      BY <1>9
    <3>3. CASE v = u
      BY <1>1, <1>2, <1>6, <1>8, <2>1, <3>1, <3>2, <3>3 DEF Alone, PastDownload, Writing
    <3>4. CASE v # u
      BY <1>1, <1>8, <3>1, <3>2, <3>4 DEF Alone, PastDownload, Writing
    <3>5. QED
      BY <3>3, <3>4
  <2>4. \A j \in exe' : content'[j].whole
    BY <1>1, <1>9, <2>1 DEF Uncrossed
  <2>5. QED
    BY <2>2, <2>3, <2>4 DEF Uncrossed
<1>13. QED
  BY <1>10, <1>11, <1>12 DEF FilesKept

LEMMA WriteKeeps ==
  ASSUME FilesKept, NEW u \in Updates, WriteTemporary(u)
  PROVE  FilesKept'
<1>1. /\ FilesTypeOK /\ Places /\ update[u].at = "write"
      /\ UNCHANGED <<published, exe, tmp, crossed>> /\ Goes(u, "chmod")
  BY DEF FilesKept, WriteTemporary
<1>2. PICK i, f : /\ i = update[u].writes
                  /\ f = [version |-> update[u].release, whole |-> TRUE]
  OBVIOUS
<1>3. content' = [content EXCEPT ![i] = f]
  BY <1>2 DEF WriteTemporary
<1>4. i \in Inodes /\ f \in FileRecord /\ f.version = update[u].release /\ f.whole
  <2>1. update[u] \in UpdateRecord /\ update[u].release >= 1
    BY <1>1 DEF FilesTypeOK
  <2>2. update[u].release \in 1..MaxVersion
    BY <2>1, InstallAssumption DEF UpdateRecord
  <2>3. QED
    BY <1>2, <2>1, <2>2 DEF UpdateRecord, FileRecord
<1>5. /\ update' \in [Updates -> UpdateRecord] /\ update'[u].at = "chmod"
      /\ update'[u].runs = update[u].runs /\ update'[u].release = update[u].release
      /\ update'[u].writes = i /\ update'[u].stray = update[u].stray
      /\ \A v \in Updates : v # u => update'[v] = update[v]
  BY <1>1, <1>2, OwnPlace DEF FilesTypeOK
<1>6. /\ content' \in [Inodes -> FileRecord] /\ content'[i] = f
      /\ \A j \in Inodes : j # i => content'[j] = content[j]
  BY <1>1, <1>3, <1>4 DEF FilesTypeOK
<1>7. FilesTypeOK'
  BY <1>1, <1>5, <1>6 DEF FilesTypeOK
<1>8. Places'
  BY <1>1, <1>2, <1>5 DEF Places, Unopened, Writing
<1>9. ASSUME ~crossed' PROVE Uncrossed'
  <2>1. Uncrossed /\ PastDownload(u)
    BY <1>1, <1>9 DEF FilesKept, PastDownload
  <2>2. \A v \in Updates : PastDownload(v)' => v = u
    BY <1>5, <2>1 DEF Uncrossed, PastDownload
  <2>3. i \notin exe
    BY <1>1, <1>2, <2>1 DEF Places, Uncrossed, Alone, Writing
  <2>4. \A j \in exe : content'[j] = content[j]
    BY <1>1, <1>6, <2>3 DEF FilesTypeOK
  <2>5. ASSUME NEW v \in Updates PROVE Alone(v)'
    <3>1. Alone(v) /\ (v # u => ~PastDownload(v)')
      BY <2>1, <2>2 DEF Uncrossed
    <3>2. CASE v = u
      BY <1>1, <1>2, <1>4, <1>5, <1>6, <2>1, <2>4, <3>1, <3>2 DEF Alone, PastDownload, Writing
    <3>3. CASE v # u
      BY <1>1, <1>5, <2>4, <3>1, <3>3 DEF Alone, PastDownload, Writing
    <3>4. QED
      BY <3>2, <3>3
  <2>6. \A j \in exe' : content'[j].whole
    BY <1>1, <2>1, <2>4 DEF Uncrossed
  <2>7. QED
    BY <2>2, <2>5, <2>6 DEF Uncrossed
<1>10. QED
  BY <1>7, <1>8, <1>9 DEF FilesKept

(* An update that goes on, or gives up, without touching a file. *)
LEMMA GoesKeeps ==
  ASSUME FilesKept, NEW u \in Updates, NEW where \in {"rename", "failed"}, Goes(u, where),
         where = "rename" => update[u].at = "chmod", update[u].at # "new",
         UNCHANGED <<published, fileVars, crossed>>
  PROVE  FilesKept'
<1>1. FilesTypeOK /\ Places /\ UNCHANGED <<published, content, exe, tmp, crossed>>
  BY DEF FilesKept, fileVars
<1>2. /\ update' \in [Updates -> UpdateRecord] /\ update'[u].at = where
      /\ update'[u].runs = update[u].runs /\ update'[u].release = update[u].release
      /\ update'[u].writes = update[u].writes /\ update'[u].stray = update[u].stray
      /\ \A v \in Updates : v # u => update'[v] = update[v]
  BY <1>1, OwnPlace DEF FilesTypeOK
<1>3. FilesTypeOK'
  BY <1>1, <1>2 DEF FilesTypeOK
<1>4. Places'
  BY <1>1, <1>2 DEF Places, Unopened, Writing
<1>5. ASSUME ~crossed' PROVE Uncrossed'
  <2>1. Uncrossed
    BY <1>1, <1>5 DEF FilesKept
  <2>2. \A v \in Updates : PastDownload(v)' => PastDownload(v)
    BY <1>2 DEF PastDownload
  <2>3. ASSUME NEW v \in Updates PROVE Alone(v)'
    <3>1. Alone(v)
      BY <2>1 DEF Uncrossed
    <3>2. CASE v = u
      BY <1>1, <1>2, <3>1, <3>2 DEF Alone, PastDownload, Writing
    <3>3. CASE v # u
      BY <1>1, <1>2, <3>1, <3>3 DEF Alone, PastDownload, Writing
    <3>4. QED
      BY <3>2, <3>3
  <2>4. QED
    BY <1>1, <2>1, <2>2, <2>3 DEF Uncrossed
<1>6. QED
  BY <1>3, <1>4, <1>5 DEF FilesKept

(* The executable is the temporary file of before. *)
LEMMA ReplaceKeeps ==
  ASSUME FilesKept, NEW u \in Updates, ReplaceExecutable(u)
  PROVE  FilesKept'
<1>1. /\ FilesTypeOK /\ Places /\ update[u].at = "rename"
      /\ UNCHANGED <<published, content, crossed>>
  BY DEF FilesKept, ReplaceExecutable
<1>2. CASE ~Finds(u)
  <2>1. Goes(u, "failed") /\ UNCHANGED <<exe, tmp>>
    BY <1>2 DEF ReplaceExecutable
  <2>2. QED
    BY <1>1, <2>1, GoesKeeps DEF fileVars
<1>3. CASE Finds(u)
  <2>1. /\ Goes(u, "updated")
        /\ update[u].stray => UNCHANGED <<exe, tmp>>
        /\ ~update[u].stray => exe' = tmp /\ tmp' = {}
    BY <1>3 DEF ReplaceExecutable
  <2>2. /\ update' \in [Updates -> UpdateRecord] /\ update'[u].at = "updated"
        /\ update'[u].runs = update[u].runs /\ update'[u].release = update[u].release
        /\ update'[u].writes = update[u].writes /\ update'[u].stray = update[u].stray
        /\ \A v \in Updates : v # u => update'[v] = update[v]
    BY <1>1, <2>1, OwnPlace DEF FilesTypeOK
  <2>3. FilesTypeOK'
    BY <1>1, <2>1, <2>2 DEF FilesTypeOK
  <2>4. Places'
    BY <1>1, <2>1, <2>2 DEF Places, Unopened, Writing
  <2>5. ASSUME ~crossed' PROVE Uncrossed'
    <3>1. Uncrossed /\ PastDownload(u) /\ Alone(u)
      BY <1>1, <2>5 DEF FilesKept, Uncrossed, PastDownload
    <3>2. \A v \in Updates : ~PastDownload(v)'
      BY <2>2, <3>1 DEF Uncrossed, PastDownload
    <3>3. CASE update[u].stray
      <4>1. exe' = exe /\ content' = content
        BY <1>1, <2>1, <3>3
      <4>2. ASSUME NEW v \in Updates, v # u PROVE Alone(v)'
        <5>1. ~PastDownload(v)' /\ ~Writing(v)' /\ update'[v] = update[v] /\ Alone(v)
          BY <2>2, <3>1, <3>2, <4>2 DEF Uncrossed, PastDownload, Writing
        <5>2. QED
          BY <4>1, <5>1 DEF Alone, PastDownload, Writing
      <4>3. Alone(u)'
        BY <2>2, <3>3 DEF Alone, PastDownload, Writing
      <4>4. QED
        BY <3>1, <3>2, <4>1, <4>2, <4>3 DEF Uncrossed
    <3>4. CASE ~update[u].stray
      <4>1. PICK new, old : /\ new = update[u].writes /\ tmp = {new}
                            /\ old = update[u].runs /\ old \in exe
        BY <1>1, <3>1, <3>4 DEF Alone, Writing
      <4>2. /\ content[new].whole /\ content[new].version = update[u].release
            /\ content[old].version < update[u].release
        BY <1>1, <3>1, <3>4, <4>1 DEF Alone, PastDownload
      <4>3. exe = {old} /\ exe' = {new} /\ tmp' = {}
        BY <1>1, <2>1, <3>4, <4>1 DEF FilesTypeOK
      <4>4. /\ content[old].version \in Int /\ content[new].version \in Int
            /\ \A v \in Updates : update[v].release \in Int
        BY <1>1, <4>1, InstallAssumption DEF FilesTypeOK, FileRecord, UpdateRecord
      <4>5. ASSUME NEW v \in Updates PROVE Alone(v)'
        <5>1. Alone(v) /\ ~PastDownload(v)' /\ update[v].runs # new
          BY <1>1, <3>1, <3>2, <4>1 DEF Uncrossed, Places
        <5>2. ~Writing(v)'
          BY <5>1 DEF Writing, PastDownload
        <5>3. CASE v = u
          BY <1>1, <2>2, <4>2, <4>3, <4>4, <5>1, <5>2, <5>3 DEF Alone, Writing, PastDownload
        <5>4. CASE v # u
          <6>1. update'[v] = update[v] /\ update[v].runs \notin exe'
            BY <2>2, <4>3, <5>1, <5>4
          <6>2. update[v].at = "updated" /\ ~update[v].stray =>
                  content[new].version >= update[v].release
            BY <4>2, <4>3, <4>4, <5>1 DEF Alone
          <6>3. QED
            BY <1>1, <4>3, <5>1, <5>2, <6>1, <6>2 DEF Alone, Writing, PastDownload
        <5>5. QED
          BY <5>3, <5>4
      <4>6. QED
        BY <1>1, <3>2, <4>2, <4>3, <4>5 DEF Uncrossed
    <3>5. QED
      BY <3>3, <3>4
  <2>6. QED
    BY <2>3, <2>4, <2>5 DEF FilesKept
<1>4. QED
  BY <1>2, <1>3

LEMMA RemoveKeeps ==
  ASSUME FilesKept, crossed \in BOOLEAN, RemoveBinary
  PROVE  FilesKept'
<1>1. FilesTypeOK /\ Places /\ UNCHANGED <<published, content, tmp, update>>
  BY DEF FilesKept, RemoveBinary
<1>2. CASE UNCHANGED <<exe, crossed>>
  BY <1>1, <1>2, FilesUnchanged DEF fileVars
<1>3. CASE exe' = {} /\ crossed' = (crossed \/ \E u \in Updates : PastDownload(u))
  <2>1. FilesTypeOK' /\ Places'
    BY <1>1, <1>3 DEF FilesTypeOK, Places, Unopened, Writing
  <2>2. ASSUME ~crossed' PROVE Uncrossed'
    <3>1. ~crossed /\ Uncrossed /\ \A u \in Updates : ~PastDownload(u)
      BY <1>3, <2>2 DEF FilesKept
    <3>2. \A u \in Updates : ~PastDownload(u)'
      BY <1>1, <3>1 DEF PastDownload
    <3>3. \A u \in Updates : Alone(u)'
      BY <1>1, <1>3, <3>1, <3>2 DEF Uncrossed, Alone, PastDownload, Writing
    <3>4. QED
      BY <1>3, <3>2, <3>3 DEF Uncrossed
  <2>3. QED
    BY <2>1, <2>2 DEF FilesKept
<1>4. QED
  BY <1>2, <1>3 DEF RemoveBinary

LEMMA UpdateKeeps ==
  ASSUME FilesKept, NEW u \in Updates, UpdateStep(u)
  PROVE  FilesKept'
<1>1. CASE SetExecutable(u)
  <2>1. /\ update[u].at = "chmod" /\ UNCHANGED <<published, fileVars, crossed>>
        /\ Goes(u, "rename") \/ Goes(u, "failed")
    BY <1>1 DEF SetExecutable
  <2>2. QED
    BY <2>1, GoesKeeps
<1>2. CASE UpdateBreaksOff(u)
  <2>1. /\ update[u].at # "new" /\ UNCHANGED <<published, fileVars, crossed>>
        /\ Goes(u, "failed")
    BY <1>2 DEF UpdateBreaksOff, PastDownload
  <2>2. QED
    BY <2>1, GoesKeeps
<1>3. QED
  BY <1>1, <1>2, FetchKeeps, DownloadKeeps, OpenKeeps, WriteKeeps, ReplaceKeeps DEF UpdateStep

-----------------------------------------------------------------------------
(* The commands about the service. *)

LEMMA CommandFields ==
  ASSUME NEW what, NEW at, command = [what |-> what, at |-> at] \/ command = NoCommand
  PROVE  /\ command = [what |-> what, at |-> at] => command.what = what /\ command.at = at
         /\ command = NoCommand => command.what = "none" /\ command.at = "none"
BY DEF NoCommand

LEMMA IssuesKeeps ==
  ASSUME ServiceKept, NEW what, NEW at, [what |-> what, at |-> at] \in CommandRecord,
         what # "none", at \notin {"none", "reload", "rm"},
         at = "binary" => ~unit, Issues(what, at)
  PROVE  ServiceKept'
<1>1. /\ command' = [what |-> what, at |-> at] /\ refused' = FALSE /\ said' = "nothing"
      /\ UNCHANGED <<unit, enabled, active, abandoned, crossed>>
  BY DEF Issues, systemVars
<1>2. command'.what = what /\ command'.at = at /\ command' \in CommandRecord
  BY <1>1
<1>3. ServiceTypeOK'
  BY <1>1, <1>2 DEF ServiceKept, ServiceTypeOK
<1>4. QED
  BY <1>1, <1>2, <1>3 DEF ServiceKept, Doing

(* What a step of the command leads to, in fields. *)
LEMMA ThenFields ==
  ASSUME command \in CommandRecord, NEW at, Then(at),
         at \in {"reload", "disable", "rm", "binary"}
  PROVE  command' \in CommandRecord /\ command'.what = command.what /\ command'.at = at
         /\ said' = said
BY DEF Then, CommandRecord

LEMMA ReportsFields ==
  ASSUME NEW what, Reports(what)
  PROVE  /\ command' \in CommandRecord /\ command'.what = "none" /\ command'.at = "none"
         /\ said' = what
BY DEF Reports, NoCommand, CommandRecord

(* The end of a command that says neither "installed" nor "uninstalled". *)
LEMMA EndsOtherwise ==
  ASSUME ServiceKept, NEW what, Reports(what), what \notin {"installed", "uninstalled"},
         refused' \in BOOLEAN, crossed' \in BOOLEAN, UNCHANGED systemVars
  PROVE  ServiceKept'
<1>1. /\ command' \in CommandRecord /\ command'.what = "none" /\ command'.at = "none"
      /\ said' = what /\ UNCHANGED <<unit, enabled, active, abandoned>>
  BY ReportsFields DEF systemVars
<1>2. ServiceTypeOK'
  BY <1>1 DEF ServiceKept, ServiceTypeOK
<1>3. QED
  BY <1>1, <1>2 DEF ServiceKept, Doing

LEMMA InstallKeeps ==
  ASSUME ServiceKept, InstallUnit \/ ReloadAfterInstall
  PROVE  ServiceKept'
<1>1. ServiceTypeOK /\ crossed' = crossed /\ crossed' \in BOOLEAN
  BY DEF ServiceKept, ServiceTypeOK, InstallUnit, ReloadAfterInstall, partVars
<1>2. CASE InstallUnit
  <2>1. /\ command.what = "install" /\ command.at = "copy" /\ Then("reload")
        /\ \/ /\ refused' = refused /\ unit' = TRUE
              /\ UNCHANGED <<enabled, active, abandoned>>
           \/ refused' = TRUE /\ UNCHANGED <<unit, enabled, active, abandoned>>
    BY <1>2 DEF InstallUnit, CommandAt, Accept, Refuse, systemVars
  <2>2. /\ command' \in CommandRecord /\ command'.what = "install" /\ command'.at = "reload"
        /\ said' = said
    BY <1>1, <2>1, ThenFields DEF ServiceTypeOK
  <2>3. said = "nothing"
    BY <2>1 DEF ServiceKept
  <2>4. ServiceTypeOK'
    BY <1>1, <2>1, <2>2 DEF ServiceTypeOK
  <2>5. QED
    BY <2>1, <2>2, <2>3, <2>4 DEF ServiceKept, Doing
<1>3. CASE ReloadAfterInstall
  <2>1. /\ command.what = "install" /\ command.at = "reload"
        /\ UNCHANGED <<unit, enabled, active, abandoned>>
        /\ \/ refused' = refused /\ Reports("installed")
           \/ refused' = TRUE /\ Reports("failed")
    <3>1. command.what = "install" /\ command.at = "reload"
      BY <1>3 DEF ReloadAfterInstall, CommandAt
    <3>2. \/ refused' = refused /\ Reports("installed") /\ UNCHANGED systemVars
          \/ refused' = TRUE /\ Reports("failed") /\ UNCHANGED systemVars
      BY <1>3 DEF ReloadAfterInstall, Accept, Refuse
    <3>3. UNCHANGED <<unit, enabled, active, abandoned>>
      BY <3>2 DEF systemVars
    <3>4. QED
      BY <3>1, <3>2, <3>3
  <2>2. /\ command' \in CommandRecord /\ command'.what = "none" /\ command'.at = "none"
        /\ said' = "installed" \/ said' = "failed"
        /\ said' = "installed" => refused' = refused
    BY <2>1, ReportsFields
  <2>3. ServiceTypeOK'
    BY <1>1, <2>1, <2>2 DEF ServiceTypeOK
  <2>4. refused \/ unit
    BY <2>1 DEF ServiceKept, Doing
  <2>5. QED
    BY <2>1, <2>2, <2>3, <2>4 DEF ServiceKept, Doing
<1>4. QED
  BY <1>2, <1>3

LEMMA SystemctlKeeps ==
  ASSUME ServiceKept, NEW verb \in Verbs, SystemctlRuns(verb)
  PROVE  ServiceKept'
<1>1. ServiceTypeOK /\ crossed' = crossed /\ crossed' \in BOOLEAN
  BY DEF ServiceKept, ServiceTypeOK, SystemctlRuns, partVars
<1>2. /\ command.what = verb /\ command.at = "run"
      /\ \/ /\ refused' = refused /\ Reports("ok") /\ UNCHANGED <<unit, abandoned>>
            /\ verb \in {"enable", "start", "restart"} => unit
            /\ enabled' = CASE verb = "enable" -> TRUE [] verb = "disable" -> FALSE
                            [] OTHER -> enabled
            /\ active' = CASE verb \in {"start", "restart"} -> TRUE [] verb = "stop" -> FALSE
                           [] OTHER -> active
         \/ refused' = TRUE /\ Reports("failed") /\ UNCHANGED systemVars
  BY DEF SystemctlRuns, CommandAt, Accept, Refuse
<1>3. CASE refused' = TRUE /\ Reports("failed") /\ UNCHANGED systemVars
  BY <1>1, <1>3, EndsOtherwise
<1>4. CASE /\ refused' = refused /\ Reports("ok") /\ UNCHANGED <<unit, abandoned>>
           /\ verb \in {"enable", "start", "restart"} => unit
           /\ enabled' = CASE verb = "enable" -> TRUE [] verb = "disable" -> FALSE
                           [] OTHER -> enabled
           /\ active' = CASE verb \in {"start", "restart"} -> TRUE [] verb = "stop" -> FALSE
                          [] OTHER -> active
  <2>1. /\ command' \in CommandRecord /\ command'.what = "none" /\ command'.at = "none"
        /\ said' = "ok"
    BY <1>4, ReportsFields
  <2>2. enabled' \in BOOLEAN /\ active' \in BOOLEAN /\ (enabled' => enabled \/ unit)
    BY <1>1, <1>4 DEF ServiceTypeOK, Verbs
  <2>3. ServiceTypeOK'
    BY <1>1, <1>4, <2>1, <2>2 DEF ServiceTypeOK
  <2>4. QED
    BY <1>4, <2>1, <2>2, <2>3 DEF ServiceKept, Doing
<1>5. QED
  BY <1>2, <1>3, <1>4

LEMMA UninstallKeeps ==
  ASSUME ServiceKept, StopAndDisable \/ RemoveUnit \/ ReloadAfterRemove
  PROVE  ServiceKept'
<1>1. /\ ServiceTypeOK /\ crossed' = crossed /\ crossed' \in BOOLEAN
      /\ command.what = "uninstall" /\ said = "nothing"
  BY DEF ServiceKept, ServiceTypeOK, StopAndDisable, RemoveUnit, ReloadAfterRemove, partVars,
    CommandAt
<1>2. CASE StopAndDisable
  <2>1. CASE Then("disable") /\ \/ Accept /\ active' = FALSE /\ UNCHANGED <<unit, enabled, abandoned>>
                                \/ Refuse
    <3>1. /\ command' \in CommandRecord /\ command'.what = "uninstall" /\ command'.at = "disable"
          /\ said' = "nothing"
      BY <1>1, <2>1, ThenFields DEF ServiceTypeOK
    <3>2. /\ UNCHANGED <<unit, enabled, abandoned>>
          /\ active' = FALSE \/ active' = active
          /\ refused' = TRUE \/ refused' = refused
      BY <2>1 DEF Accept, Refuse, systemVars
    <3>3. ServiceTypeOK'
      BY <1>1, <3>1, <3>2 DEF ServiceTypeOK
    <3>4. QED
      BY <3>1, <3>2, <3>3 DEF ServiceKept, Doing
  <2>2. CASE Then("rm") /\ \/ Accept /\ enabled' = FALSE /\ UNCHANGED <<unit, active, abandoned>>
                           \/ Refuse
    <3>1. /\ command' \in CommandRecord /\ command'.what = "uninstall" /\ command'.at = "rm"
          /\ said' = "nothing"
      BY <1>1, <2>2, ThenFields DEF ServiceTypeOK
    <3>2. /\ UNCHANGED <<unit, active, abandoned>>
          /\ \/ enabled' = FALSE /\ refused' = refused
             \/ enabled' = enabled /\ refused' = TRUE
      BY <2>2 DEF Accept, Refuse, systemVars
    <3>3. ServiceTypeOK'
      BY <1>1, <3>1, <3>2 DEF ServiceTypeOK
    <3>4. QED
      BY <3>1, <3>2, <3>3 DEF ServiceKept, Doing
  <2>3. QED
    BY <1>2, <2>1, <2>2 DEF StopAndDisable
<1>3. CASE RemoveUnit
  <2>1. /\ command.at = "rm" /\ Then("reload") /\ UNCHANGED <<enabled, active>>
        /\ \/ refused' = refused /\ unit' = FALSE /\ abandoned' = (abandoned \/ refused)
           \/ refused' = TRUE /\ UNCHANGED <<unit, abandoned>>
    BY <1>3 DEF RemoveUnit, CommandAt, Accept, Refuse, systemVars
  <2>2. /\ command' \in CommandRecord /\ command'.what = "uninstall" /\ command'.at = "reload"
        /\ said' = "nothing"
    BY <1>1, <2>1, ThenFields DEF ServiceTypeOK
  <2>3. ServiceTypeOK'
    BY <1>1, <2>1, <2>2 DEF ServiceTypeOK
  <2>4. ~refused => ~enabled
    BY <1>1, <2>1 DEF ServiceKept, Doing
  <2>5. enabled' /\ ~unit' => abandoned'
    <3>1. enabled /\ ~unit => abandoned
      BY DEF ServiceKept
    <3>2. CASE unit' = FALSE /\ abandoned' = (abandoned \/ refused)
      BY <2>1, <2>4, <3>2
    <3>3. CASE UNCHANGED <<unit, abandoned>>
      BY <2>1, <3>1, <3>3
    <3>4. QED
      BY <2>1, <3>2, <3>3
  <2>6. refused' \/ ~unit'
    BY <2>1
  <2>7. QED
    BY <2>2, <2>3, <2>5, <2>6 DEF ServiceKept, Doing
<1>4. CASE ReloadAfterRemove
  <2>1. CASE refused' = refused /\ Then("binary") /\ UNCHANGED systemVars
    <3>1. /\ command' \in CommandRecord /\ command'.what = "uninstall" /\ command'.at = "binary"
          /\ said' = "nothing" /\ UNCHANGED <<unit, enabled, active, abandoned>>
      BY <1>1, <2>1, ThenFields DEF ServiceTypeOK, systemVars
    <3>2. ServiceTypeOK'
      BY <1>1, <2>1, <3>1 DEF ServiceTypeOK
    <3>3. refused \/ ~unit
      BY <1>1, <1>4 DEF ServiceKept, Doing, ReloadAfterRemove, CommandAt
    <3>4. QED
      BY <2>1, <3>1, <3>2, <3>3 DEF ServiceKept, Doing
  <2>2. CASE refused' = TRUE /\ Reports("failed") /\ UNCHANGED systemVars
    BY <1>1, <2>2, EndsOtherwise
  <2>3. QED
    BY <1>4, <2>1, <2>2 DEF ReloadAfterRemove, Accept, Refuse
<1>5. QED
  BY <1>2, <1>3, <1>4

LEMMA BinaryKeeps ==
  ASSUME ServiceKept, RemoveBinary
  PROVE  ServiceKept'
<1>1. /\ ServiceTypeOK /\ command.what = "uninstall" /\ command.at = "binary"
      /\ UNCHANGED systemVars /\ UNCHANGED <<unit, enabled, active, abandoned, refused>>
      /\ Reports("uninstalled") \/ Reports("failed")
  BY DEF ServiceKept, RemoveBinary, CommandAt, systemVars
<1>2. crossed' \in BOOLEAN
  BY <1>1 DEF RemoveBinary, ServiceTypeOK
<1>3. /\ command' \in CommandRecord /\ command'.what = "none" /\ command'.at = "none"
      /\ said' \in {"uninstalled", "failed"}
  BY <1>1, ReportsFields
<1>4. ServiceTypeOK'
  BY <1>1, <1>2, <1>3 DEF ServiceTypeOK
<1>5. refused \/ ~unit
  BY <1>1 DEF ServiceKept, Doing
<1>6. QED
  BY <1>1, <1>3, <1>4, <1>5 DEF ServiceKept, Doing

LEMMA OperatorKeeps == ServiceKept /\ OperatorStep => ServiceKept'
<1> SUFFICES ASSUME ServiceKept, OperatorStep PROVE ServiceKept'
  OBVIOUS
<1>1. CASE ServiceInstall
  <2>1. Issues("install", "exists") \/ Issues("install", "copy")
    BY <1>1 DEF ServiceInstall
  <2>2. /\ [what |-> "install", at |-> "exists"] \in CommandRecord
        /\ [what |-> "install", at |-> "copy"] \in CommandRecord
    BY DEF CommandRecord
  <2>3. QED
    BY <2>1, <2>2, IssuesKeeps
<1>2. CASE CommandStops
  <2>1. Reports("failed") /\ UNCHANGED systemVars /\ refused' \in BOOLEAN /\ crossed' \in BOOLEAN
    BY <1>2 DEF CommandStops, partVars, ServiceKept, ServiceTypeOK
  <2>2. QED
    BY <2>1, EndsOtherwise
<1>3. ASSUME NEW verb \in Verbs, Systemctl(verb) PROVE ServiceKept'
  <2>1. [what |-> verb, at |-> "run"] \in CommandRecord /\ verb # "none"
    BY DEF CommandRecord, Verbs
  <2>2. QED
    BY <1>3, <2>1, IssuesKeeps DEF Systemctl
<1>4. CASE UninstallCli
  <2>1. Issues("uninstall", "stop") \/ (Issues("uninstall", "binary") /\ ~unit)
    <3>1. CASE unit
      BY <1>4, <3>1 DEF UninstallCli
    <3>2. CASE ~unit
      BY <1>4, <3>2 DEF UninstallCli
    <3>3. QED
      BY <3>1, <3>2
  <2>2. /\ [what |-> "uninstall", at |-> "stop"] \in CommandRecord
        /\ [what |-> "uninstall", at |-> "binary"] \in CommandRecord
    BY DEF CommandRecord
  <2>3. QED
    BY <2>1, <2>2, IssuesKeeps
<1>5. QED
  BY <1>1, <1>2, <1>3, <1>4, InstallKeeps, SystemctlKeeps, UninstallKeeps, BinaryKeeps
    DEF OperatorStep

LEMMA ServiceUnchanged ==
  ASSUME ServiceKept, UNCHANGED <<systemVars, operatorVars>>, crossed' \in BOOLEAN
  PROVE  ServiceKept'
<1>1. UNCHANGED <<unit, enabled, active, abandoned, command, said, refused>>
  BY DEF systemVars, operatorVars
<1>2. ServiceTypeOK'
  BY <1>1 DEF ServiceKept, ServiceTypeOK
<1>3. QED
  BY <1>1, <1>2 DEF ServiceKept, Doing

-----------------------------------------------------------------------------
(* Both together. *)

LEMMA UpdatesAndService ==
  ASSUME NEW u \in Updates, UpdateStep(u), ServiceKept
  PROVE  UNCHANGED <<systemVars, operatorVars>> /\ crossed' \in BOOLEAN
<1>1. crossed \in BOOLEAN
  BY DEF ServiceKept, ServiceTypeOK
<1>2. QED
  BY <1>1 DEF UpdateStep, FetchLatest, Download, OpenTemporary, WriteTemporary, SetExecutable,
    ReplaceExecutable, UpdateBreaksOff

LEMMA OperatorAndFiles ==
  ASSUME OperatorStep, ~RemoveBinary
  PROVE  UNCHANGED <<published, fileVars, update, crossed>>
BY DEF OperatorStep, ServiceInstall, Issues, InstallUnit, ReloadAfterInstall, CommandStops,
  Systemctl, SystemctlRuns, UninstallCli, StopAndDisable, RemoveUnit, ReloadAfterRemove, partVars

(* A removal that was said is not undone, and another is not said wrongly. *)
LEMMA RemovalStep == InstallKept /\ [InstallNext]_installVars => RemovalKept'
<1> SUFFICES ASSUME InstallKept, [InstallNext]_installVars,
                    command'.what = "none", said' = "uninstalled", ~crossed'
             PROVE  exe' = {}
  BY DEF RemovalKept
<1>1. FilesKept /\ ServiceKept /\ RemovalKept
  BY DEF InstallKept
<1>2. CASE UNCHANGED <<exe, crossed, command, said>>
  BY <1>1, <1>2 DEF RemovalKept
<1>3. ASSUME NEW u \in Updates, UpdateStep(u) PROVE exe' = {}
  <2>1. UNCHANGED <<command, said>> /\ (~crossed' => ~crossed)
    <3>1. UNCHANGED <<command, said>>
      BY <1>1, <1>3, UpdatesAndService DEF operatorVars
    <3>2. crossed' = crossed \/ Download(u)
      BY <1>3 DEF UpdateStep, FetchLatest, OpenTemporary, WriteTemporary, SetExecutable,
        ReplaceExecutable, UpdateBreaksOff
    <3>3. Download(u) => crossed' = (crossed \/ \E v \in Updates \ {u} : PastDownload(v))
      BY DEF Download
    <3>4. ~crossed' => ~crossed
      BY <3>2, <3>3
    <3>5. QED
      BY <3>1, <3>4
  <2>2. exe = {} /\ Uncrossed
    BY <1>1, <2>1 DEF RemovalKept, FilesKept
  <2>3. CASE ReplaceExecutable(u)
    <3>1. update[u].stray
      BY <2>2, <2>3 DEF ReplaceExecutable, Uncrossed, Alone, PastDownload
    <3>2. QED
      BY <2>2, <2>3, <3>1 DEF ReplaceExecutable
  <2>4. CASE ~ReplaceExecutable(u)
    BY <1>3, <2>2, <2>4 DEF UpdateStep, FetchLatest, Download, OpenTemporary, WriteTemporary,
      SetExecutable, UpdateBreaksOff, fileVars
  <2>5. QED
    BY <2>3, <2>4
<1>4. CASE OperatorStep
  <2>1. CASE RemoveBinary
    <3>1. Reports("failed") => said' = "failed"
      BY DEF Reports
    <3>2. QED
      BY <2>1, <3>1 DEF RemoveBinary
  <2>2. CASE ~RemoveBinary
    <3>1. ASSUME command.what # "none" PROVE said = "nothing"
      BY <1>1, <3>1 DEF ServiceKept
    <3>2. CASE InstallUnit \/ StopAndDisable \/ RemoveUnit \/ ReloadAfterRemove
      <4>1. command.what \in {"install", "uninstall"}
        BY <3>2 DEF InstallUnit, StopAndDisable, RemoveUnit, ReloadAfterRemove, CommandAt
      <4>2. said' = said \/ said' = "failed"
        BY <3>2 DEF InstallUnit, StopAndDisable, RemoveUnit, ReloadAfterRemove, Then, Reports
      <4>3. QED
        BY <3>1, <4>1, <4>2
    <3>3. CASE ServiceInstall \/ UninstallCli \/ \E verb \in Verbs : Systemctl(verb)
      <4>1. said' = "nothing"
        BY <3>3 DEF ServiceInstall, UninstallCli, Systemctl, Issues
      <4>2. QED
        BY <4>1
    <3>4. CASE CommandStops \/ ReloadAfterInstall \/ \E verb \in Verbs : SystemctlRuns(verb)
      <4>1. said' \in {"failed", "installed", "ok"}
        BY <3>4 DEF CommandStops, ReloadAfterInstall, SystemctlRuns, Reports
      <4>2. QED
        BY <4>1
    <3>5. QED
      BY <1>4, <2>2, <3>2, <3>3, <3>4 DEF OperatorStep
  <2>3. QED
    BY <2>1, <2>2
<1>5. CASE Publish \/ UNCHANGED installVars
  BY <1>2, <1>5 DEF Publish, installVars, fileVars, operatorVars
<1>6. QED
  BY <1>3, <1>4, <1>5 DEF InstallNext

LEMMA InstallStep == InstallKept /\ [InstallNext]_installVars => InstallKept'
<1> SUFFICES ASSUME InstallKept, [InstallNext]_installVars PROVE InstallKept'
  OBVIOUS
<1>1. FilesKept /\ ServiceKept /\ crossed \in BOOLEAN
  BY DEF InstallKept, ServiceKept, ServiceTypeOK
<1>2. FilesKept'
  <2>1. CASE OperatorStep
    <3>1. CASE RemoveBinary
      BY <1>1, <3>1, RemoveKeeps
    <3>2. CASE ~RemoveBinary
      BY <1>1, <2>1, <3>2, OperatorAndFiles, FilesUnchanged
    <3>3. QED
      BY <3>1, <3>2
  <2>2. CASE Publish
    BY <1>1, <2>2, FilesUnchanged DEF Publish
  <2>3. CASE UNCHANGED installVars
    BY <1>1, <2>3, FilesUnchanged DEF installVars
  <2>4. QED
    BY <1>1, <2>1, <2>2, <2>3, UpdateKeeps DEF InstallNext
<1>3. ServiceKept'
  <2>1. CASE Publish \/ UNCHANGED installVars
    <3>1. UNCHANGED <<systemVars, operatorVars>> /\ crossed' \in BOOLEAN
      BY <1>1, <2>1 DEF Publish, installVars
    <3>2. QED
      BY <1>1, <3>1, ServiceUnchanged
  <2>2. QED
    BY <1>1, <2>1, OperatorKeeps, UpdatesAndService, ServiceUnchanged DEF InstallNext
<1>4. QED
  BY <1>2, <1>3, RemovalStep DEF InstallKept

LEMMA InstallInitially == InstallInit => InstallKept
<1> SUFFICES ASSUME InstallInit PROVE InstallKept
  OBVIOUS
<1>1. NoUpdate \in UpdateRecord /\ [version |-> 1, whole |-> TRUE] \in FileRecord
  BY InstallAssumption DEF NoUpdate, UpdateRecord, FileRecord, Inodes
<1>2. \A u \in Updates : /\ update[u].at = "new" /\ update[u].runs = 0 /\ update[u].writes = 0
                         /\ update[u].release = 0 /\ u # 0
  BY InstallAssumption DEF InstallInit, NoUpdate
<1>3. FilesTypeOK
  BY <1>1, <1>2, InstallAssumption DEF InstallInit, FilesTypeOK, Inodes
<1>4. Places
  BY <1>2 DEF InstallInit, Places, Unopened, Writing
<1>5. Uncrossed
  BY <1>2 DEF InstallInit, Uncrossed, Alone, PastDownload, Writing, Inodes
<1>6. ServiceKept
  <2>1. command \in CommandRecord /\ command.what = "none" /\ command.at = "none"
    BY DEF InstallInit, NoCommand, CommandRecord
  <2>2. QED
    BY <2>1 DEF InstallInit, ServiceKept, ServiceTypeOK, Doing
<1>7. RemovalKept
  BY DEF InstallInit, RemovalKept
<1>8. QED
  BY <1>3, <1>4, <1>5, <1>6, <1>7 DEF InstallKept, FilesKept

(* However updates fail, are killed or race, the program that is installed is
   a whole release and no older than an update said, unless two updates were
   past their download or the program was removed under one; and what the
   commands about the service say is so unless sudo refused
   (update.rs:91-114, commands.rs:1133-1201, 1494-1515). *)
THEOREM InstallationIsAsSaid == InstallSpec => []InstallInv
<1>1. InstallKept => InstallInv
  <2> SUFFICES ASSUME InstallKept PROVE InstallInv
    OBVIOUS
  <2>1. FilesTypeOK /\ (~crossed => Uncrossed) /\ ServiceKept /\ RemovalKept
    BY DEF InstallKept, FilesKept
  <2>2. ASSUME NEW S, \A i, j \in S : i = j PROVE Cardinality(S) <= 1
    <3>1. CASE S = {}
      BY <3>1, FS_EmptySet
    <3>2. CASE \E x : S = {x}
      BY <3>2, FS_Singleton
    <3>3. QED
      BY <2>2, <3>1, <3>2
  <2>3. InstallTypeOK
    <3>1. Cardinality(exe) <= 1 /\ Cardinality(tmp) <= 1
      BY <2>1, <2>2 DEF FilesTypeOK
    <3>2. ASSUME NEW u \in Updates
          PROVE  update[u].runs \in Inodes /\ update[u].release \in 0..published
      <4>1. update[u] \in UpdateRecord /\ update[u].release <= published
            /\ published \in 1..MaxVersion
        BY <2>1 DEF FilesTypeOK
      <4>2. QED
        BY <4>1, InstallAssumption DEF UpdateRecord
    <3>3. QED
      BY <2>1, <3>1, <3>2 DEF InstallTypeOK, FilesTypeOK, FileRecord
  <2>4. InstalledIsWhole /\ UpdatedIsInstalled
    BY <2>1 DEF InstalledIsWhole, UpdatedIsInstalled, Uncrossed, Alone
  <2>5. SaidIsSo
    <3>1. command = NoCommand => command.what = "none"
      BY DEF NoCommand
    <3>2. QED
      BY <2>1, <3>1 DEF SaidIsSo, ServiceKept, RemovalKept
  <2>6. QED
    BY <2>3, <2>4, <2>5 DEF InstallInv
<1>2. QED
  BY <1>1, InstallInitially, InstallStep, PTL DEF InstallSpec

=============================================================================
