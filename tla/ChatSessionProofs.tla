------------------------- MODULE ChatSessionProofs -------------------------
(* Proofs about ChatSession for every set of chats, every number of turns   *)
(* and every choice of what users do and what fails.                        *)
EXTENDS ChatSession, FiniteSetTheorems, WellFoundedInduction, TLAPS

(* A new context, and a context restored from history, are contexts. *)
LEMMA NoneIsNoCtx == None \notin Ctx
BY ConstantsOK

(* What the limits leave of a list of turns is part of it. *)
LEMMA RemainsPart ==
  ASSUME NEW S \in SUBSET Turns, NEW kept \in Remains(S)
  PROVE  kept \subseteq S /\ kept \in SUBSET Turns
BY DEF Remains

LEMMA ContextTypes ==
  ASSUME TypeOK, NEW c \in Chats
  PROVE  /\ NewCtx \in Ctx
         /\ NewCtx # None
         /\ sessions[c] # None => sessions[c] \in Ctx
         /\ \A h \in Histories(c) : Restored(c, h) \in Ctx
<1>1. NewCtx \in Ctx
  BY ConstantsOK DEF NewCtx, Ctx
<1>2. \A h \in Histories(c) : h \in SUBSET Turns
  <2>1. db[c] \in SUBSET Turns
    BY DEF TypeOK
  <2>2. QED
    BY <2>1, RemainsPart DEF Histories
<1>3. sessions[c] # None => sessions[c] \in Ctx
  BY DEF TypeOK
<1>4. ASSUME NEW h \in Histories(c) PROVE Restored(c, h) \in Ctx
  <2> DEFINE x == IF sessions[c] = None THEN NewCtx ELSE sessions[c]
  <2>1. x \in Ctx
    BY <1>1, <1>3
  <2>2. [x EXCEPT !.turns = h] \in Ctx
    BY <2>1, <1>2 DEF Ctx
  <2>3. QED
    BY <2>1, <2>2 DEF Restored
<1>5. QED
  BY <1>1, <1>3, <1>4, ConstantsOK

(* The history record keeps its type under each update the actions make. *)
LEMMA LedgerTypes ==
  ASSUME TypeOK, NEW c \in Chats, NEW S \in SUBSET Turns, NEW b \in BOOLEAN,
         NEW m \in Models
  PROVE  /\ Forgotten(c) \in Ledger
         /\ [ledger EXCEPT !.chosen[c] = m] \in Ledger
         /\ [ledger EXCEPT !.since[c] = S] \in Ledger
         /\ [ledger EXCEPT !.chosen = [d \in Chats |-> m]] \in Ledger
         /\ [ledger EXCEPT !.seen = S] \in Ledger
         /\ [ledger EXCEPT !.denied = S] \in Ledger
         /\ [ledger EXCEPT !.run = S, !.again = b] \in Ledger
BY ConstantsOK DEF TypeOK, Ledger, Forgotten

LEMMA ReadTypes ==
  ASSUME TypeOK, NEW c \in Chats, NEW h
  PROVE  /\ Read(c, h) \in Ledger
         /\ MarkUsed(c, Read(c, h)) \in Ledger
         /\ MarkUsed(c, ledger) \in Ledger
<1>1. ledger \in Ledger /\ db[c] \in SUBSET Turns
  BY DEF TypeOK
<1>2. \A x \in Ledger : MarkUsed(c, x) \in Ledger
  BY <1>1 DEF MarkUsed, Ledger
<1>3. Read(c, h) \in Ledger
  BY <1>1 DEF Read, Ledger
<1>4. QED
  BY <1>1, <1>2, <1>3

(* The contexts a task may end with. *)
LEMMA WithTurnFacts ==
  ASSUME TypeOK, NEW t \in Turns, NEW w \in WithTurn(t)
  PROVE  /\ w \in Ctx
         /\ w.pend = tctx[t].pend /\ w.open = tctx[t].open /\ w.model = tctx[t].model
         /\ w.turns \in Remains(tctx[t].turns \union {t})
         /\ w.turns \subseteq tctx[t].turns \union {t}
<1>1. tctx[t] \in Ctx
  BY DEF TypeOK
<1> DEFINE S == tctx[t].turns \union {t}
<1>2. S \in SUBSET Turns
  BY <1>1 DEF Ctx
<1>3. PICK kept \in Remains(S) : w = [tctx[t] EXCEPT !.turns = kept]
  BY DEF WithTurn
<1> HIDE DEF S
<1>4. kept \subseteq S /\ kept \in SUBSET Turns
  BY <1>2, <1>3, RemainsPart
<1>5. QED
  BY <1>1, <1>3, <1>4 DEF Ctx, S

(* The context of a handler that has run the approved calls. *)
LEMMA RunFacts ==
  ASSUME TypeOK, NEW c \in Chats, RunApproved(c)
  PROVE  /\ hctx'[c] \in Ctx /\ hctx' = [hctx EXCEPT ![c] = hctx'[c]]
         /\ hctx'[c].pend = {} /\ hctx'[c].model = hctx[c].model
         /\ hctx'[c].turns \in Remains(hctx[c].turns)
         /\ hctx'[c].turns \subseteq hctx[c].turns
<1>1. hctx[c] \in Ctx
  BY DEF TypeOK
<1>2. hctx[c].turns \in SUBSET Turns
  BY <1>1 DEF Ctx
<1>3. PICK kept \in Remains(hctx[c].turns) :
        hctx' = [hctx EXCEPT ![c].pend = {}, ![c].open = @ \ hctx[c].pend,
                             ![c].turns = kept]
  BY DEF RunApproved
<1>4. kept \subseteq hctx[c].turns /\ kept \in SUBSET Turns
  BY <1>2, <1>3, RemainsPart
<1>5. hctx'[c] = [hctx[c] EXCEPT !.pend = {}, !.open = @ \ hctx[c].pend, !.turns = kept]
      /\ hctx' = [hctx EXCEPT ![c] = hctx'[c]]
  BY <1>3 DEF TypeOK
<1>6. hctx[c].open \ hctx[c].pend \in SUBSET Turns
  BY <1>1 DEF Ctx
<1>7. hctx'[c] \in Ctx /\ hctx'[c].pend = {} /\ hctx'[c].model = hctx[c].model
      /\ hctx'[c].turns = kept
  BY <1>1, <1>4, <1>5, <1>6 DEF Ctx
<1>8. QED
  BY <1>3, <1>4, <1>5, <1>7

(* A context with other open or pending calls. *)
LEMMA OtherCalls ==
  ASSUME NEW w \in Ctx, NEW open \in SUBSET Turns, NEW pend \in SUBSET Turns
  PROVE  LET x == [w EXCEPT !.open = open]
             y == [w EXCEPT !.open = open, !.pend = pend]
         IN  /\ x \in Ctx /\ x.turns = w.turns /\ x.model = w.model
             /\ x.pend = w.pend /\ x.open = open
             /\ y \in Ctx /\ y.turns = w.turns /\ y.model = w.model
             /\ y.pend = pend /\ y.open = open
BY DEF Ctx

LEMMA InitType == Init => TypeOK
<1> SUFFICES ASSUME Init PROVE TypeOK
  OBVIOUS
<1>1. NewCtx \in Ctx
  BY ConstantsOK DEF NewCtx, Ctx
<1>2. ledger \in Ledger
  BY ConstantsOK DEF Init, Ledger
<1>3. sessions \in [Chats -> Ctx \union {None}] /\ hctx \in [Chats -> Ctx]
      /\ tctx \in [Turns -> Ctx]
  BY <1>1 DEF Init
<1>4. hpc \in [Chats -> {"idle", "requesting", "preparing", "receiving",
                         "executing", "executed"}]
  BY DEF Init
<1>5. /\ db \in [Chats -> SUBSET Turns]
      /\ hturn \in [Chats -> Turns \union {0}]
      /\ chan \in [Chats -> {"open", "done", "asked", "closed"}]
      /\ tpc \in [Turns -> {"new", "running", "storing", "ended"}]
      /\ tchat \in [Turns -> Chats \union {None}]
      /\ tauto \subseteq Turns
      /\ next \in Nat \ {0}
  BY DEF Init
<1>6. /\ globalAuto \in {"unset", "auto", "manual"}
      /\ pendingSub \subseteq Chats /\ skip \subseteq Chats
  BY DEF Init
<1>7. \A c \in Chats : hpc[c] = "idle"
  BY DEF Init
<1>8. QED
  BY <1>2, <1>3, <1>4, <1>5, <1>6, <1>7 DEF TypeOK

(* Dropping the pending approvals of a session keeps the types. *)
LEMMA DenyType ==
  ASSUME TypeOK, NEW c \in Chats, HasPending(c), DenyPending(c),
         ledger' = [ledger EXCEPT !.denied = @ \union sessions[c].pend]
  PROVE  TypeOK'
<1>1. sessions[c] \in Ctx
  BY ContextTypes DEF HasPending
<1>2. [sessions[c] EXCEPT !.pend = {}] \in Ctx
  BY <1>1 DEF Ctx
<1>3. sessions' \in [Chats -> Ctx \union {None}]
  BY <1>2 DEF DenyPending, SetSession, TypeOK
<1>4. ledger.denied \union sessions[c].pend \in SUBSET Turns
  BY <1>1 DEF Ctx, TypeOK, Ledger
<1>5. ledger' \in Ledger
  BY <1>4 DEF TypeOK, Ledger
<1>6. QED
  BY <1>3, <1>5 DEF DenyPending, TypeOK, handler, task

(* Commands and button presses keep the types. *)
LEMMA CommandType ==
  ASSUME TypeOK, NEW c \in Chats, Command(c)
  PROVE  TypeOK'
<1> USE DEF handler, task, store
<1>0. NewCtx \in Ctx /\ (sessions[c] # None => sessions[c] \in Ctx)
  BY ContextTypes
<1>1. CASE Reset(c)
  <2>1. ledger' \in Ledger
    BY <1>1, LedgerTypes, ConstantsOK DEF Reset
  <2>2. sessions' \in [Chats -> Ctx \union {None}]
    BY <1>1 DEF Reset, Forgotten, SetSession, TypeOK
  <2>3. QED
    BY <1>1, <2>1, <2>2 DEF Reset, TypeOK
<1>2. ASSUME NEW m \in Models, SetModel(c, m) PROVE TypeOK'
  <2>1. ledger' \in Ledger
    BY <1>2, LedgerTypes DEF SetModel
  <2>2. sessions[c] # None => [sessions[c] EXCEPT !.model = m] \in Ctx
    BY <1>0 DEF Ctx
  <2>3. sessions' \in [Chats -> Ctx \union {None}]
    BY <1>2, <2>2 DEF SetModel, SetSession, TypeOK
  <2>4. QED
    BY <1>2, <2>1, <2>3 DEF SetModel, TypeOK
<1>3. ASSUME NEW mode \in {"auto", "manual"}, ApprovalMode(c, mode)
      PROVE  TypeOK'
  BY <1>3 DEF ApprovalMode, TypeOK
<1>4. CASE ApproveSubagent(c)
  BY <1>0, <1>4 DEF ApproveSubagent, SetSession, TypeOK
<1>5. CASE DenySubagent(c)
  BY <1>5 DEF DenySubagent, TypeOK
<1>6. CASE Approve(c)
  <2>1. ledger' \in Ledger
    BY <1>6, LedgerTypes DEF Approve, TypeOK, Ledger
  <2>2. QED
    BY <1>0, <1>6, <2>1 DEF Approve, StartApproved, HasPending, TypeOK
<1>7. CASE Deny(c)
  BY <1>7, DenyType DEF Deny, TypeOK, Ledger
<1>8. QED
  BY <1>1, <1>2, <1>3, <1>4, <1>5, <1>6, <1>7 DEF Command

(* Texts that approve, deny or start a turn keep the types. *)
LEMMA TextType ==
  ASSUME TypeOK, NEW c \in Chats, Text(c)
  PROVE  TypeOK'
<1> USE DEF handler, task, store
<1>1. CASE TextStartsSubagent(c)
  BY <1>1, CommandType DEF TextStartsSubagent, Command
<1>2. CASE TextDenies(c)
  BY <1>2, DenyType DEF TextDenies, TypeOK, Ledger
<1>3. ASSUME NEW say \in Says, TextApproves(c, say) PROVE TypeOK'
  <2>1. sessions[c] \in Ctx
    BY <1>3, ContextTypes DEF TextApproves, HasPending
  <2>2. ledger.seen \union sessions[c].pend \in SUBSET Turns
    BY <2>1 DEF Ctx, TypeOK, Ledger
  <2>3. ledger' \in Ledger
    BY <1>3, <2>2 DEF TextApproves, TypeOK, Ledger
  <2>4. QED
    BY <1>3, <2>1, <2>3 DEF TextApproves, StartApproved, TypeOK
<1>4. ASSUME NEW say \in Says, TextForTurn(c, say) PROVE TypeOK'
  BY <1>4 DEF TextForTurn, TypeOK
<1>5. QED
  BY <1>1, <1>2, <1>3, <1>4 DEF Text

(* The handler's own steps keep the types. *)
LEMMA HandleType ==
  ASSUME TypeOK, NEW c \in Chats, Handle(c)
  PROVE  TypeOK'
<1> USE DEF handler, task, store
<1>0. NewCtx \in Ctx /\ hctx[c] \in Ctx
  BY ContextTypes DEF TypeOK
<1>1. CASE RequestSubagent(c)
  <2> PICK h \in Histories(c) : SetSession(c, Restored(c, h))
    BY <1>1 DEF RequestSubagent
  <2>1. sessions' \in [Chats -> Ctx \union {None}]
    BY ContextTypes DEF SetSession, TypeOK
  <2>2. ledger' \in Ledger
    BY <1>1, ReadTypes DEF RequestSubagent
  <2>3. QED
    BY <1>1, <2>1, <2>2 DEF RequestSubagent, TypeOK
<1>2. CASE TypingFails(c)
  <2>1. ledger' \in Ledger
    BY <1>2, ReadTypes DEF TypingFails
  <2>2. QED
    BY <1>2, <2>1 DEF TypingFails, TypeOK
<1>3. CASE BeginTurn(c)
  <2> DEFINE t == hturn[c]
  <2> PICK h \in Histories(c) :
        /\ tctx' = [tctx EXCEPT ![t] = Restored(c, h)]
        /\ ledger' = [Read(c, h) EXCEPT !.since[c] = @ \union {t}]
    BY <1>3 DEF BeginTurn
  <2>1. tctx' \in [Turns -> Ctx]
    BY ContextTypes DEF TypeOK
  <2>2. t \in Turns
    BY <1>3 DEF BeginTurn, TypeOK
  <2>3. db' \in [Chats -> SUBSET Turns]
    BY <1>3, <2>2 DEF BeginTurn, TypeOK
  <2>4. ledger' \in Ledger
    <3>1. Read(c, h) \in Ledger
      BY ReadTypes
    <3>2. QED
      BY <2>2, <3>1 DEF Ledger
  <2>5. tauto' \subseteq Turns
    BY <1>3, <2>2 DEF BeginTurn, TypeOK
  <2>6. QED
    BY <1>3, <2>1, <2>2, <2>3, <2>4, <2>5 DEF BeginTurn, TypeOK
<1>4. CASE ReceiveDone(c)
  BY <1>4 DEF ReceiveDone, TypeOK
<1>5. CASE ReceiveClosed(c)
  BY <1>5 DEF ReceiveClosed, TypeOK
<1>6. /\ ledger.seen \union hctx[c].pend \in SUBSET Turns
      /\ ledger.unshown \union hctx[c].pend \in SUBSET Turns
  BY <1>0 DEF Ctx, TypeOK, Ledger
<1>7. CASE ReceiveAsk(c)
  <2>1. ledger' \in Ledger
    BY <1>6, <1>7 DEF ReceiveAsk, TypeOK, Ledger
  <2>2. QED
    BY <1>0, <1>7, <2>1 DEF ReceiveAsk, SetSession, TypeOK
<1>8. CASE ReceiveAskAuto(c)
  <2>1. ledger' \in Ledger
    BY <1>6, <1>8 DEF ReceiveAskAuto, TypeOK, Ledger
  <2>2. QED
    BY <1>0, <1>8, <2>1 DEF ReceiveAskAuto, StartApproved, TypeOK
<1>9. CASE RunApproved(c)
  <2>1. ledger' \in Ledger
    <3>1. PICK run, again : /\ run = ledger.run \union hctx[c].pend
                            /\ again = (ledger.again \/ hctx[c].pend \intersect
                                         (ledger.run \union ledger.denied) # {})
      OBVIOUS
    <3>2. run \in SUBSET Turns /\ again \in BOOLEAN
      BY <1>0, <3>1 DEF Ctx, TypeOK, Ledger
    <3>3. ledger' = [ledger EXCEPT !.run = run, !.again = again]
      BY <1>9, <3>1 DEF RunApproved
    <3>4. QED
      BY <3>2, <3>3 DEF TypeOK, Ledger
  <2>3. hctx' \in [Chats -> Ctx]
    BY <1>9, RunFacts DEF TypeOK
  <2>4. QED
    BY <1>9, <2>1, <2>3 DEF RunApproved, TypeOK
<1>10. CASE StoreApproved(c)
  BY <1>0, <1>10 DEF StoreApproved, SetSession, TypeOK
<1>11. QED
  BY <1>1, <1>2, <1>3, <1>4, <1>5, <1>7, <1>8, <1>9, <1>10 DEF Handle, HandleWithoutAgent

(* The background task's steps keep the types. *)
LEMMA TaskType ==
  ASSUME TypeOK, NEW t \in Turns, Task(t)
  PROVE  TypeOK'
<1> USE DEF handler, task, store
<1>0. NewCtx \in Ctx
  BY ConstantsOK DEF NewCtx, Ctx
<1>1. ASSUME NEW ctx \in Ctx, NEW event \in {"done", "asked", "closed"},
             TaskSends(t, event, ctx)
      PROVE  TypeOK'
  BY <1>1 DEF TaskSends, TypeOK
<1>3. CASE TaskAnswers(t)
  BY <1>1, <1>3, WithTurnFacts DEF TaskAnswers
<1>4. CASE TaskAsks(t)
  <2> PICK w \in WithTurn(t) :
        TaskSends(t, "asked", [w EXCEPT !.open = @ \union {t}, !.pend = {t}])
    BY <1>4 DEF TaskAsks
  <2>0. w \in Ctx /\ w.open \union {t} \in SUBSET Turns /\ {t} \in SUBSET Turns
    BY WithTurnFacts DEF Ctx
  <2>1. [w EXCEPT !.open = @ \union {t}, !.pend = {t}] \in Ctx
    BY <2>0, OtherCalls
  <2>2. QED
    BY <1>1, <2>1
<1>5. CASE TaskFails(t)
  <2> PICK w \in WithTurn(t), d \in {{}, {t}} :
        TaskSends(t, "closed", [w EXCEPT !.open = @ \union d])
    BY <1>5 DEF TaskFails
  <2>0. w \in Ctx /\ w.open \union d \in SUBSET Turns
    BY WithTurnFacts DEF Ctx
  <2>1. [w EXCEPT !.open = @ \union d] \in Ctx
    BY <2>0, OtherCalls
  <2>2. QED
    BY <1>1, <2>1
<1>6. CASE TaskStores(t)
  <2>1. sessions' \in [Chats -> Ctx \union {None}]
    BY <1>6 DEF TaskStores, SetSession, TypeOK
  <2>2. QED
    BY <1>0, <1>6, <2>1 DEF TaskStores, TypeOK
<1>7. QED
  BY <1>3, <1>4, <1>5, <1>6 DEF Task

LEMMA RestartType == TypeOK /\ Restart => TypeOK'
<1> SUFFICES ASSUME TypeOK, Restart PROVE TypeOK'
  OBVIOUS
<1>1. NewCtx \in Ctx
  BY ConstantsOK DEF NewCtx, Ctx
<1>2. ledger' \in Ledger
  <2> DEFINE back == [c \in Chats |-> ledger.back[c] \union db[c]]
             lost == [c \in Chats |-> ledger.lost[c] \union (ledger.since[c] \ db[c])]
  <2>1. back \in [Chats -> SUBSET Turns] /\ lost \in [Chats -> SUBSET Turns]
    BY DEF TypeOK, Ledger
  <2>2. ledger' = [ledger EXCEPT !.chosen = [c \in Chats |-> DefaultModel],
                                 !.back = back, !.lost = lost]
    BY DEF Restart
  <2> HIDE DEF back, lost
  <2>3. QED
    BY <2>1, <2>2, ConstantsOK DEF TypeOK, Ledger
<1>3. /\ sessions' \in [Chats -> Ctx \union {None}]
      /\ hctx' \in [Chats -> Ctx] /\ tctx' \in [Turns -> Ctx]
  BY <1>1 DEF Restart
<1>4. /\ hpc' \in [Chats -> {"idle", "requesting", "preparing", "receiving",
                           "executing", "executed"}]
      /\ chan' \in [Chats -> {"open", "done", "asked", "closed"}]
      /\ tpc' \in [Turns -> {"new", "running", "storing", "ended"}]
      /\ tauto' \subseteq Turns
  BY DEF Restart
<1>5. QED
  BY <1>2, <1>3, <1>4 DEF Restart, TypeOK

(* Every variable keeps its type, whatever users, tasks and faults do. *)
THEOREM TypeCorrect == Spec => []TypeOK
<1>1. TypeOK /\ [Next]_vars => TypeOK'
  <2>1. TypeOK /\ UNCHANGED vars => TypeOK'
    BY DEF vars, store, handler, task, TypeOK
  <2>2. QED
    BY <2>1, CommandType, TextType, HandleType, TaskType, RestartType DEF Next
<1>2. QED
  BY <1>1, InitType, PTL DEF Spec

-----------------------------------------------------------------------------
(* Pending approvals are open calls, in every copy of a context. *)

LEMMA RestoredPending ==
  ASSUME TypeOK, NEW c \in Chats, NEW h \in Histories(c)
  PROVE  /\ Restored(c, h).pend =
              IF sessions[c] = None THEN {} ELSE sessions[c].pend
         /\ Restored(c, h).open =
              IF sessions[c] = None THEN {} ELSE sessions[c].open
<1> DEFINE x == IF sessions[c] = None THEN NewCtx ELSE sessions[c]
<1>1. x \in Ctx
  BY ContextTypes
<1>2. [x EXCEPT !.turns = h].pend = x.pend /\ [x EXCEPT !.turns = h].open = x.open
  BY <1>1 DEF Ctx
<1>3. Restored(c, h).pend = x.pend /\ Restored(c, h).open = x.open
  BY <1>2 DEF Restored
<1>4. QED
  BY <1>3 DEF NewCtx

(* No step of any handler or task leaves a pending approval whose call was
   already answered or is not in the context. *)
THEOREM PendingOpen == Spec => []PendingIsOpen
<1> USE DEF handler, task, store
<1>1. Init => PendingIsOpen
  BY DEF Init, PendingIsOpen, NewCtx
<1>2. ASSUME TypeOK, PendingIsOpen, [Next]_vars PROVE PendingIsOpen'
  <2>0. NewCtx.pend \subseteq NewCtx.open /\ NewCtx # None
    <3>1. NewCtx \in Ctx
      BY ConstantsOK DEF NewCtx, Ctx
    <3>2. QED
      BY <3>1, ConstantsOK DEF NewCtx
  <2>1. ASSUME NEW c \in Chats, Command(c) PROVE PendingIsOpen'
    <3>0. sessions[c] # None => sessions[c] \in Ctx
      BY <1>2, ContextTypes
    <3>1. CASE Reset(c)
      BY <1>2, <3>1 DEF Reset, Forgotten, SetSession, PendingIsOpen, TypeOK
    <3>2. ASSUME NEW m \in Models, SetModel(c, m) PROVE PendingIsOpen'
      <4>1. sessions[c] # None =>
              LET x == [sessions[c] EXCEPT !.model = m]
              IN  x.pend = sessions[c].pend /\ x.open = sessions[c].open
        BY <3>0 DEF Ctx
      <4>2. QED
        BY <1>2, <3>2, <4>1 DEF SetModel, SetSession, PendingIsOpen, TypeOK
    <3>3. ASSUME NEW mode \in {"auto", "manual"}, ApprovalMode(c, mode)
          PROVE  PendingIsOpen'
      BY <1>2, <3>3 DEF ApprovalMode, PendingIsOpen
    <3>4. CASE ApproveSubagent(c)
      BY <1>2, <2>0, <3>4 DEF ApproveSubagent, SetSession, PendingIsOpen, TypeOK
    <3>5. CASE DenySubagent(c)
      BY <1>2, <3>5 DEF DenySubagent, PendingIsOpen
    <3>6. CASE Approve(c)
      BY <1>2, <3>6
         DEF Approve, HasPending, StartApproved, PendingIsOpen, TypeOK
    <3>7. ASSUME HasPending(c), DenyPending(c) PROVE PendingIsOpen'
      <4>1. [sessions[c] EXCEPT !.pend = {}].pend = {}
        BY <3>0, <3>7 DEF HasPending, Ctx
      <4>2. QED
        BY <1>2, <3>7, <4>1 DEF DenyPending, SetSession, PendingIsOpen, TypeOK
    <3>8. QED
      BY <2>1, <3>1, <3>2, <3>3, <3>4, <3>5, <3>6, <3>7 DEF Command, Deny
  <2>2. ASSUME NEW c \in Chats, Text(c) PROVE PendingIsOpen'
    <3>1. CASE TextStartsSubagent(c)
      BY <2>1, <3>1 DEF TextStartsSubagent, Command
    <3>2. CASE TextDenies(c)
      <4>1. [sessions[c] EXCEPT !.pend = {}].pend = {}
        BY <1>2, <3>2, ContextTypes DEF TextDenies, HasPending, Ctx
      <4>2. QED
        BY <1>2, <3>2, <4>1
           DEF TextDenies, DenyPending, SetSession, PendingIsOpen, TypeOK
    <3>3. ASSUME NEW say \in Says, TextApproves(c, say) PROVE PendingIsOpen'
      BY <1>2, <3>3
         DEF TextApproves, HasPending, StartApproved, PendingIsOpen, TypeOK
    <3>4. ASSUME NEW say \in Says, TextForTurn(c, say) PROVE PendingIsOpen'
      BY <1>2, <3>4 DEF TextForTurn, PendingIsOpen
    <3>5. QED
      BY <2>2, <3>1, <3>2, <3>3, <3>4 DEF Text
  <2>3. ASSUME NEW c \in Chats, Handle(c) PROVE PendingIsOpen'
    <3>0. \A h \in Histories(c) :
            Restored(c, h).pend \subseteq Restored(c, h).open
      BY <1>2, RestoredPending DEF PendingIsOpen
    <3>1. CASE RequestSubagent(c)
      <4> PICK h \in Histories(c) : SetSession(c, Restored(c, h))
        BY <3>1 DEF RequestSubagent
      <4>1. QED
        BY <1>2, <3>0, <3>1
           DEF RequestSubagent, SetSession, PendingIsOpen, TypeOK
    <3>2. CASE TypingFails(c)
      BY <1>2, <3>2 DEF TypingFails, PendingIsOpen
    <3>3. CASE BeginTurn(c)
      <4> PICK h \in Histories(c) :
            tctx' = [tctx EXCEPT ![hturn[c]] = Restored(c, h)]
        BY <3>3 DEF BeginTurn
      <4>1. QED
        BY <1>2, <3>0, <3>3 DEF BeginTurn, PendingIsOpen, TypeOK
    <3>4. CASE ReceiveDone(c) \/ ReceiveClosed(c)
      BY <1>2, <3>4 DEF ReceiveDone, ReceiveClosed, PendingIsOpen
    <3>5. CASE ReceiveAsk(c)
      BY <1>2, <2>0, <3>5 DEF ReceiveAsk, SetSession, PendingIsOpen, TypeOK
    <3>6. CASE ReceiveAskAuto(c)
      BY <1>2, <3>6 DEF ReceiveAskAuto, StartApproved, PendingIsOpen, TypeOK
    <3>7. CASE RunApproved(c)
      <4>1. hctx'[c].pend = {} /\ hctx' = [hctx EXCEPT ![c] = hctx'[c]]
        BY <1>2, <3>7, RunFacts
      <4>2. QED
        BY <1>2, <3>7, <4>1 DEF RunApproved, PendingIsOpen, TypeOK
    <3>8. CASE StoreApproved(c)
      BY <1>2, <2>0, <3>8 DEF StoreApproved, SetSession, PendingIsOpen, TypeOK
    <3>9. QED
      BY <2>3, <3>1, <3>2, <3>3, <3>4, <3>5, <3>6, <3>7, <3>8 DEF Handle, HandleWithoutAgent
  <2>4. ASSUME NEW t \in Turns, Task(t) PROVE PendingIsOpen'
    <3>0. tctx[t] \in Ctx
      BY <1>2 DEF TypeOK
    <3>1. ASSUME NEW ctx, ctx.pend \subseteq ctx.open,
                 NEW event \in {"done", "asked", "closed"},
                 TaskSends(t, event, ctx)
          PROVE  PendingIsOpen'
      BY <1>2, <3>1 DEF TaskSends, PendingIsOpen, TypeOK
    <3>3. \A w \in WithTurn(t) : w \in Ctx /\ w.pend \subseteq w.open
      BY <1>2, WithTurnFacts DEF PendingIsOpen
    <3>4. CASE TaskAnswers(t)
      BY <3>1, <3>3, <3>4 DEF TaskAnswers
    <3>5. CASE TaskAsks(t)
      <4> PICK w \in WithTurn(t) :
            TaskSends(t, "asked", [w EXCEPT !.open = @ \union {t}, !.pend = {t}])
        BY <3>5 DEF TaskAsks
      <4> DEFINE x == [w EXCEPT !.open = @ \union {t}, !.pend = {t}]
      <4>1. x.pend \subseteq x.open
        BY <3>3 DEF Ctx
      <4>2. QED
        BY <3>1, <4>1
    <3>6. CASE TaskFails(t)
      <4> PICK w \in WithTurn(t), d \in {{}, {t}} :
            TaskSends(t, "closed", [w EXCEPT !.open = @ \union d])
        BY <3>6 DEF TaskFails
      <4> DEFINE x == [w EXCEPT !.open = @ \union d]
      <4>1. x.pend \subseteq x.open
        BY <3>3 DEF Ctx
      <4>2. QED
        BY <3>1, <4>1
    <3>7. CASE TaskStores(t)
      BY <1>2, <2>0, <3>7 DEF TaskStores, SetSession, PendingIsOpen, TypeOK
    <3>8. QED
      BY <2>4, <3>4, <3>5, <3>6, <3>7 DEF Task
  <2>5. CASE Restart
    BY <2>0, <2>5 DEF Restart, PendingIsOpen
  <2>6. CASE UNCHANGED vars
    BY <1>2, <2>6 DEF vars, PendingIsOpen
  <2>7. QED
    BY <1>2, <2>1, <2>2, <2>3, <2>4, <2>5, <2>6 DEF Next
<1>3. QED
  BY <1>1, <1>2, TypeCorrect, PTL DEF Spec

-----------------------------------------------------------------------------
(* A subagent that waits for confirmation has a session. *)

(* The session map and the pending subagents move together. *)
THEOREM WaitingSubagentHasSession == Spec => []SubagentHasSession
<1> USE DEF handler, task, store
<1>1. Init => SubagentHasSession
  BY DEF Init, SubagentHasSession
<1>2. ASSUME TypeOK, SubagentHasSession, [Next]_vars PROVE SubagentHasSession'
  <2>0. \A x \in Ctx : x # None
    BY ConstantsOK
  <2>1. ASSUME NEW c \in Chats, NEW x \in Ctx, SetSession(c, x)
        PROVE  \A d \in Chats : sessions[d] # None \/ d = c => sessions'[d] # None
    BY <1>2, <2>0, <2>1 DEF SetSession, TypeOK
  <2>2. ASSUME NEW c \in Chats, Command(c) PROVE SubagentHasSession'
    <3>0. NewCtx \in Ctx /\ (sessions[c] # None => sessions[c] \in Ctx)
      BY <1>2, ContextTypes
    <3>1. CASE Reset(c)
      BY <1>2, <3>1 DEF Reset, Forgotten, SetSession, SubagentHasSession, TypeOK
    <3>2. ASSUME NEW m \in Models, SetModel(c, m) PROVE SubagentHasSession'
      <4>1. sessions[c] # None => [sessions[c] EXCEPT !.model = m] \in Ctx
        BY <3>0 DEF Ctx
      <4>2. QED
        BY <1>2, <2>1, <3>2, <4>1 DEF SetModel, SubagentHasSession, TypeOK
    <3>3. ASSUME NEW mode \in {"auto", "manual"}, ApprovalMode(c, mode)
          PROVE  SubagentHasSession'
      BY <1>2, <3>3 DEF ApprovalMode, SubagentHasSession
    <3>4. CASE ApproveSubagent(c)
      BY <1>2, <2>1, <3>0, <3>4 DEF ApproveSubagent, SubagentHasSession, TypeOK
    <3>5. CASE DenySubagent(c)
      BY <1>2, <3>5 DEF DenySubagent, SubagentHasSession
    <3>6. CASE Approve(c)
      BY <1>2, <3>6 DEF Approve, StartApproved, SubagentHasSession
    <3>7. ASSUME HasPending(c), DenyPending(c) PROVE SubagentHasSession'
      <4>1. [sessions[c] EXCEPT !.pend = {}] \in Ctx
        BY <3>0, <3>7 DEF HasPending, Ctx
      <4>2. QED
        BY <1>2, <2>1, <3>7, <4>1 DEF DenyPending, SubagentHasSession, TypeOK
    <3>8. QED
      BY <2>2, <3>1, <3>2, <3>3, <3>4, <3>5, <3>6, <3>7 DEF Command, Deny
  <2>3. ASSUME NEW c \in Chats, Text(c) PROVE SubagentHasSession'
    <3>1. CASE TextStartsSubagent(c)
      BY <2>2, <3>1 DEF TextStartsSubagent, Command
    <3>2. CASE TextDenies(c)
      <4>1. [sessions[c] EXCEPT !.pend = {}] \in Ctx
        BY <1>2, <3>2, ContextTypes DEF TextDenies, HasPending, Ctx
      <4>2. QED
        BY <1>2, <2>1, <3>2, <4>1
           DEF TextDenies, DenyPending, SubagentHasSession, TypeOK
    <3>3. ASSUME NEW say \in Says, TextApproves(c, say) \/ TextForTurn(c, say)
          PROVE  SubagentHasSession'
      BY <1>2, <3>3
         DEF TextApproves, StartApproved, TextForTurn, SubagentHasSession
    <3>4. QED
      BY <2>3, <3>1, <3>2, <3>3 DEF Text
  <2>4. ASSUME NEW c \in Chats, Handle(c) PROVE SubagentHasSession'
    <3>1. CASE RequestSubagent(c)
      <4> PICK h \in Histories(c) : SetSession(c, Restored(c, h))
        BY <3>1 DEF RequestSubagent
      <4>1. Restored(c, h) \in Ctx
        BY <1>2, ContextTypes
      <4>2. QED
        BY <1>2, <2>1, <3>1, <4>1 DEF RequestSubagent, SubagentHasSession, TypeOK
    <3>2. CASE ReceiveAsk(c) \/ StoreApproved(c)
      <4>1. hctx[c] \in Ctx
        BY <1>2 DEF TypeOK
      <4>2. QED
        BY <1>2, <2>1, <3>2, <4>1
           DEF ReceiveAsk, StoreApproved, SubagentHasSession, TypeOK
    <3>3. CASE \/ TypingFails(c) \/ BeginTurn(c) \/ ReceiveDone(c)
               \/ ReceiveClosed(c) \/ ReceiveAskAuto(c) \/ RunApproved(c)
      BY <1>2, <3>3
         DEF TypingFails, BeginTurn, ReceiveDone, ReceiveClosed,
             ReceiveAskAuto, StartApproved, RunApproved, SubagentHasSession
    <3>4. QED
      BY <2>4, <3>1, <3>2, <3>3 DEF Handle, HandleWithoutAgent
  <2>5. ASSUME NEW t \in Turns, Task(t) PROVE SubagentHasSession'
    <3>1. ASSUME NEW x, NEW event, TaskSends(t, event, x)
          PROVE  SubagentHasSession'
      BY <1>2, <3>1 DEF TaskSends, SubagentHasSession
    <3>2. CASE TaskStores(t)
      BY <1>2, <2>0, <3>2 DEF TaskStores, SetSession, SubagentHasSession, TypeOK
    <3>3. QED
      BY <2>5, <3>1, <3>2 DEF Task, TaskAnswers, TaskAsks, TaskFails
  <2>6. CASE Restart
    BY <2>6 DEF Restart, SubagentHasSession
  <2>7. CASE UNCHANGED vars
    BY <1>2, <2>7 DEF vars, SubagentHasSession
  <2>8. QED
    BY <1>2, <2>2, <2>3, <2>4, <2>5, <2>6, <2>7 DEF Next
<1>3. QED
  BY <1>1, <1>2, TypeCorrect, PTL DEF Spec

-----------------------------------------------------------------------------
(* Only calls whose prompt was sent, or tried, or that the automatic mode   *)
(* covered, are run.  The invariant follows every place a pending approval  *)
(* can be: the stored session, a background task's clone and the handler's  *)
(* clone hold only such calls, except for the request that is in flight to  *)
(* the handler; and a handler with a request in flight has no running task, *)
(* so the request reaches it before the user can act.                       *)

Asked == ledger.seen \union ledger.unshown

(* What reading the history changes of the ledger. *)
LEMMA ReadKeeps ==
  ASSUME TypeOK, NEW c \in Chats, NEW h
  PROVE  LET x == Read(c, h)
             y == MarkUsed(c, Read(c, h))
             z == MarkUsed(c, ledger)
         IN  \A l \in {x, y, z} :
               /\ l \in Ledger
               /\ l.seen = ledger.seen /\ l.unshown = ledger.unshown
               /\ l.run = ledger.run /\ l.denied = ledger.denied
               /\ l.again = ledger.again /\ l.since = ledger.since
               /\ l.chosen = ledger.chosen
               /\ \A d \in Chats : d # c =>
                    l.back[d] = ledger.back[d] /\ l.lost[d] = ledger.lost[d]
<1>1. ledger \in Ledger
  BY DEF TypeOK
<1>2. \A l \in Ledger : LET m == MarkUsed(c, l) IN
        /\ m.seen = l.seen /\ m.unshown = l.unshown /\ m.run = l.run
        /\ m.denied = l.denied /\ m.again = l.again /\ m.since = l.since
        /\ m.chosen = l.chosen /\ m.lost = l.lost
        /\ \A d \in Chats : d # c => m.back[d] = l.back[d]
  BY DEF MarkUsed, Ledger
<1>3. LET m == Read(c, h) IN
        /\ m.seen = ledger.seen /\ m.unshown = ledger.unshown /\ m.run = ledger.run
        /\ m.denied = ledger.denied /\ m.again = ledger.again /\ m.since = ledger.since
        /\ m.chosen = ledger.chosen /\ m.back = ledger.back
        /\ \A d \in Chats : d # c => m.lost[d] = ledger.lost[d]
  BY <1>1 DEF Read, Ledger
<1>4. QED
  BY <1>1, <1>2, <1>3, ReadTypes

(* What the beginning of a turn leaves of the ledger. *)
LEMMA BeginKeeps ==
  ASSUME TypeOK, NEW c \in Chats, BeginTurn(c)
  PROVE  /\ ledger'.seen = ledger.seen /\ ledger'.unshown = ledger.unshown
         /\ ledger'.run = ledger.run /\ ledger'.denied = ledger.denied
         /\ ledger'.again = ledger.again /\ ledger'.chosen = ledger.chosen
         /\ ledger'.since = [ledger.since EXCEPT ![c] = @ \union {hturn[c]}]
<1>1. PICK h \in Histories(c) :
        ledger' = [Read(c, h) EXCEPT !.since[c] = @ \union {hturn[c]}]
  BY DEF BeginTurn
<1>2. /\ Read(c, h) \in Ledger /\ Read(c, h).since = ledger.since
      /\ Read(c, h).seen = ledger.seen /\ Read(c, h).unshown = ledger.unshown
      /\ Read(c, h).run = ledger.run /\ Read(c, h).denied = ledger.denied
      /\ Read(c, h).again = ledger.again /\ Read(c, h).chosen = ledger.chosen
  BY ReadKeeps
<1>3. QED
  BY <1>1, <1>2 DEF Ledger

InFlight(c) ==
  IF hpc[c] = "receiving" /\ chan[c] = "asked" THEN hctx[c].pend ELSE {}

SeenInv ==
  /\ \A c \in Chats : chan[c] # "open" => hpc[c] = "receiving"
  /\ \A t \in Turns : tpc[t] \in {"running", "storing"} => tchat[t] \in Chats
  /\ \A t \in Turns : tpc[t] = "running" =>
       hpc[tchat[t]] = "receiving" /\ chan[tchat[t]] = "open"
  /\ \A t \in Turns : tpc[t] = "running" => hturn[tchat[t]] = t
  /\ \A c \in Chats : sessions[c] # None =>
       sessions[c].pend \subseteq Asked \union InFlight(c)
  /\ \A t \in Turns : tpc[t] \in {"running", "storing"} =>
       tctx[t].pend \subseteq Asked \union InFlight(tchat[t])
  /\ \A c \in Chats : hpc[c] = "executing" => hctx[c].pend \subseteq Asked
  /\ \A c \in Chats : hpc[c] = "executed" => hctx[c].pend = {}
  /\ ledger.run \subseteq Asked

LEMMA InitSeen == Init => SeenInv
BY DEF Init, SeenInv, InFlight, Asked

LEMMA CommandSeen ==
  ASSUME TypeOK, SeenInv, NEW c \in Chats, Command(c)
  PROVE  SeenInv'
<1> USE DEF handler, task, store, Asked
<1>0. /\ sessions[c] # None => sessions[c] \in Ctx
      /\ NewCtx \in Ctx /\ NewCtx.pend = {}
  BY ContextTypes DEF NewCtx
<1>1. hpc[c] = "idle" => InFlight(c) = {}
  BY DEF InFlight
<1>2. CASE Reset(c)
  <2>1. Asked' = Asked /\ ledger'.run = ledger.run
    BY <1>2 DEF Reset, Forgotten, TypeOK, Ledger
  <2>2. QED
    BY <1>2, <2>1 DEF Reset, Forgotten, SetSession, SeenInv, InFlight, TypeOK
<1>3. ASSUME NEW m \in Models, SetModel(c, m) PROVE SeenInv'
  <2>1. Asked' = Asked /\ ledger'.run = ledger.run
    BY <1>3 DEF SetModel, TypeOK, Ledger
  <2>2. sessions[c] # None =>
          [sessions[c] EXCEPT !.model = m].pend = sessions[c].pend
    BY <1>0 DEF Ctx
  <2>3. UNCHANGED <<hpc, chan, hturn, hctx, tpc, tchat, tctx>>
    BY <1>3 DEF SetModel
  <2>4. \A d \in Chats : sessions'[d] # None =>
          sessions'[d].pend \subseteq Asked \union InFlight(d)
    <3>1. \A d \in Chats : d # c => sessions'[d] = sessions[d]
      BY <1>3 DEF SetModel, SetSession, TypeOK
    <3>2. \/ sessions'[c] = sessions[c]
          \/ sessions[c] # None /\ sessions'[c] = [sessions[c] EXCEPT !.model = m]
      BY <1>3 DEF SetModel, SetSession, TypeOK
    <3>3. sessions'[c] # None =>
            sessions'[c].pend \subseteq Asked \union InFlight(c)
      BY <2>2, <3>2 DEF SeenInv
    <3>4. QED
      BY <3>1, <3>3 DEF SeenInv
  <2>5. QED
    BY <2>1, <2>3, <2>4 DEF SeenInv, InFlight
<1>4. ASSUME NEW mode \in {"auto", "manual"}, ApprovalMode(c, mode)
      PROVE  SeenInv'
  BY <1>4 DEF ApprovalMode, SeenInv, InFlight
<1>5. CASE ApproveSubagent(c)
  <2>1. /\ \A d \in Chats : InFlight(d)' = InFlight(d)
        /\ UNCHANGED <<ledger, hpc, chan, hturn, hctx, tpc, tchat, tctx>>
    BY <1>5 DEF ApproveSubagent, InFlight
  <2>2. \A d \in Chats : sessions'[d] # None =>
          sessions'[d].pend \subseteq Asked \union InFlight(d)
    <3>1. \A d \in Chats : d # c => sessions'[d] = sessions[d]
      BY <1>5 DEF ApproveSubagent, SetSession, TypeOK
    <3>2. sessions'[c] = IF sessions[c] = None THEN NewCtx ELSE sessions[c]
      BY <1>5 DEF ApproveSubagent, SetSession, TypeOK
    <3>3. sessions'[c] # None =>
            sessions'[c].pend \subseteq Asked \union InFlight(c)
      BY <1>0, <3>2 DEF SeenInv
    <3>4. QED
      BY <3>1, <3>3 DEF SeenInv
  <2>3. QED
    BY <2>1, <2>2 DEF SeenInv, InFlight
<1>6. CASE DenySubagent(c)
  BY <1>6 DEF DenySubagent, SeenInv, InFlight
<1>7. CASE Approve(c)
  <2>1. Asked' = Asked /\ ledger'.run = ledger.run
    BY <1>7 DEF Approve, TypeOK, Ledger
  <2>2. sessions[c].pend \subseteq Asked
    BY <1>1, <1>7 DEF Approve, UserActs, HasPending, SeenInv
  <2>3. QED
    BY <1>7, <2>1, <2>2
       DEF Approve, UserActs, StartApproved, SeenInv, InFlight, TypeOK
<1>8. CASE Deny(c)
  <2>1. Asked' = Asked /\ ledger'.run = ledger.run
    BY <1>8 DEF Deny, TypeOK, Ledger
  <2>2. [sessions[c] EXCEPT !.pend = {}].pend = {}
    BY <1>0, <1>8 DEF Deny, HasPending, Ctx
  <2>3. QED
    BY <1>8, <2>1, <2>2
       DEF Deny, DenyPending, SetSession, SeenInv, InFlight, TypeOK
<1>9. QED
  BY <1>2, <1>3, <1>4, <1>5, <1>6, <1>7, <1>8 DEF Command

LEMMA TextSeen ==
  ASSUME TypeOK, SeenInv, NEW c \in Chats, Text(c)
  PROVE  SeenInv'
<1> USE DEF handler, task, store, Asked
<1>0. sessions[c] # None => sessions[c] \in Ctx
  BY ContextTypes
<1>1. hpc[c] = "idle" => InFlight(c) = {}
  BY DEF InFlight
<1>2. CASE TextStartsSubagent(c)
  BY <1>2, CommandSeen DEF TextStartsSubagent, Command
<1>3. CASE TextDenies(c)
  <2>1. Asked' = Asked /\ ledger'.run = ledger.run
    BY <1>3 DEF TextDenies, TypeOK, Ledger
  <2>2. [sessions[c] EXCEPT !.pend = {}].pend = {}
    BY <1>0, <1>3 DEF TextDenies, HasPending, Ctx
  <2>3. QED
    BY <1>3, <2>1, <2>2
       DEF TextDenies, DenyPending, SetSession, SeenInv, InFlight, TypeOK
<1>4. ASSUME NEW say \in Says, TextApproves(c, say) PROVE SeenInv'
  <2>1. Asked' \in {Asked, Asked \union sessions[c].pend}
        /\ ledger'.run = ledger.run
    BY <1>4 DEF TextApproves, TypeOK, Ledger
  <2>2. sessions[c].pend \subseteq Asked
    BY <1>1, <1>4 DEF TextApproves, UserActs, HasPending, SeenInv
  <2>3. Asked' = Asked
    BY <2>1, <2>2
  <2>4. QED
    BY <1>4, <2>1, <2>2, <2>3
       DEF TextApproves, UserActs, StartApproved, SeenInv, InFlight, TypeOK
<1>5. ASSUME NEW say \in Says, TextForTurn(c, say) PROVE SeenInv'
  <2>1. \A t \in Turns : tpc[t] = "running" => tchat[t] # c
    BY <1>5 DEF TextForTurn, UserActs, SeenInv
  <2>2. QED
    BY <1>5, <2>1 DEF TextForTurn, UserActs, SeenInv, InFlight, TypeOK
<1>6. QED
  BY <1>2, <1>3, <1>4, <1>5 DEF Text

LEMMA HandleSeen ==
  ASSUME TypeOK, SeenInv, NEW c \in Chats, Handle(c)
  PROVE  SeenInv'
<1> USE DEF handler, task, store, Asked
<1>0. hctx[c] \in Ctx /\ NewCtx.pend = {}
  BY DEF TypeOK, NewCtx
<1>1. hpc[c] # "receiving" => InFlight(c) = {}
  BY DEF InFlight
<1>2. \A h \in Histories(c) : hpc[c] # "receiving" =>
        Restored(c, h).pend \subseteq Asked
  BY <1>1, RestoredPending DEF SeenInv
<1>3. \A t \in Turns : tpc[t] = "running" /\ hpc[c] # "receiving" => tchat[t] # c
  BY DEF SeenInv
<1>4. CASE RequestSubagent(c)
  <2> PICK h \in Histories(c) : SetSession(c, Restored(c, h))
    BY <1>4 DEF RequestSubagent
  <2>0. Asked' = Asked /\ ledger'.run = ledger.run
    BY <1>4, ReadKeeps DEF RequestSubagent
  <2>1. QED
    BY <1>2, <1>3, <1>4, <2>0 DEF RequestSubagent, SetSession, SeenInv, InFlight, TypeOK
<1>5. CASE TypingFails(c)
  <2>0. Asked' = Asked /\ ledger'.run = ledger.run
    BY <1>5, ReadKeeps DEF TypingFails
  <2>1. QED
    BY <1>3, <1>5, <2>0 DEF TypingFails, SeenInv, InFlight, TypeOK
<1>6. CASE BeginTurn(c)
  <2> PICK h \in Histories(c) :
        tctx' = [tctx EXCEPT ![hturn[c]] = Restored(c, h)]
    BY <1>6 DEF BeginTurn
  <2>1. Asked' = Asked /\ ledger'.run = ledger.run
    BY <1>6, BeginKeeps
  <2>2. chan[c] = "open"
    BY <1>6 DEF BeginTurn, SeenInv
  <2>3. \A d \in Chats : InFlight(d)' = InFlight(d)
    BY <1>6, <2>2 DEF BeginTurn, InFlight, TypeOK
  <2>4. QED
    BY <1>2, <1>3, <1>6, <2>1, <2>2, <2>3 DEF BeginTurn, SeenInv, TypeOK
<1>7. CASE ReceiveDone(c) \/ ReceiveClosed(c)
  <2>1. \A t \in Turns : tpc[t] = "running" => tchat[t] # c
    BY <1>7 DEF ReceiveDone, ReceiveClosed, SeenInv
  <2>2. InFlight(c) = {}
    BY <1>7 DEF ReceiveDone, ReceiveClosed, InFlight
  <2>3. \A d \in Chats : InFlight(d)' = InFlight(d)
    BY <1>7, <2>2 DEF ReceiveDone, ReceiveClosed, InFlight, TypeOK
  <2>4. QED
    BY <1>7, <2>1, <2>3 DEF ReceiveDone, ReceiveClosed, SeenInv, TypeOK
<1>8. CASE ReceiveAsk(c) \/ ReceiveAskAuto(c)
  <2>1. Asked' = Asked \union hctx[c].pend /\ ledger'.run = ledger.run
    BY <1>8 DEF ReceiveAsk, ReceiveAskAuto, TypeOK, Ledger
  <2>2. \A t \in Turns : tpc[t] = "running" => tchat[t] # c
    BY <1>8 DEF ReceiveAsk, ReceiveAskAuto, SeenInv
  <2>3. InFlight(c) = hctx[c].pend
    BY <1>8 DEF ReceiveAsk, ReceiveAskAuto, InFlight
  <2>4. \A d \in Chats : d # c => InFlight(d)' = InFlight(d)
    BY <1>8 DEF ReceiveAsk, ReceiveAskAuto, StartApproved, InFlight, TypeOK
  <2>5. QED
    BY <1>8, <2>1, <2>2, <2>3, <2>4
       DEF ReceiveAsk, ReceiveAskAuto, StartApproved, SetSession, SeenInv, TypeOK
<1>9. CASE RunApproved(c)
  <2>1. /\ Asked' = Asked
        /\ ledger'.run = ledger.run \union hctx[c].pend
    BY <1>9 DEF RunApproved, TypeOK, Ledger
  <2>2. hctx'[c].pend = {} /\ hctx' = [hctx EXCEPT ![c] = hctx'[c]]
    BY <1>9, RunFacts
  <2>3. \A d \in Chats : InFlight(d)' = InFlight(d)
    BY <1>1, <1>9 DEF RunApproved, InFlight, TypeOK
  <2>4. QED
    BY <1>3, <1>9, <2>1, <2>2, <2>3 DEF RunApproved, SeenInv, TypeOK
<1>10. CASE StoreApproved(c)
  BY <1>0, <1>1, <1>3, <1>10
     DEF StoreApproved, SetSession, SeenInv, InFlight, TypeOK
<1>11. QED
  BY <1>4, <1>5, <1>6, <1>7, <1>8, <1>9, <1>10 DEF Handle, HandleWithoutAgent

LEMMA TaskSeen ==
  ASSUME TypeOK, SeenInv, NEW t \in Turns, Task(t)
  PROVE  SeenInv'
<1> USE DEF handler, task, store, Asked
<1>0. tctx[t] \in Ctx
  BY DEF TypeOK
<1>1. \A w \in WithTurn(t) : w \in Ctx /\ w.pend = tctx[t].pend
  BY WithTurnFacts
<1>2. ASSUME NEW x, NEW event \in {"done", "asked", "closed"},
             x.pend \subseteq tctx[t].pend \/ event = "asked",
             TaskSends(t, event, x)
      PROVE  SeenInv'
  <2> DEFINE c == tchat[t]
  <2>1. c \in Chats /\ hpc[c] = "receiving" /\ chan[c] = "open" /\ hturn[c] = t
    BY <1>2 DEF TaskSends, SeenInv
  <2>2. InFlight(c) = {} /\ \A d \in Chats : d # c => InFlight(d)' = InFlight(d)
    BY <1>2, <2>1 DEF TaskSends, InFlight, TypeOK
  <2>3. event = "asked" => InFlight(c)' = x.pend
    BY <1>2, <2>1 DEF TaskSends, InFlight, TypeOK
  <2>4. \A u \in Turns : u # t /\ tpc[u] = "running" => tchat[u] # c
    BY <2>1 DEF SeenInv
  <2>5. QED
    BY <1>2, <2>1, <2>2, <2>3, <2>4 DEF TaskSends, SeenInv, TypeOK
<1>3. CASE TaskAnswers(t)
  BY <1>1, <1>2, <1>3 DEF TaskAnswers
<1>4. CASE TaskAsks(t)
  BY <1>2, <1>4 DEF TaskAsks
<1>5. CASE TaskFails(t)
  <2> PICK w \in WithTurn(t), d \in {{}, {t}} :
        TaskSends(t, "closed", [w EXCEPT !.open = @ \union d])
    BY <1>5 DEF TaskFails
  <2>1. [w EXCEPT !.open = @ \union d].pend = tctx[t].pend
    BY <1>1 DEF Ctx
  <2>2. QED
    BY <1>2, <2>1
<1>6. CASE TaskStores(t)
  BY <1>6 DEF TaskStores, SetSession, SeenInv, InFlight, TypeOK
<1>7. QED
  BY <1>3, <1>4, <1>5, <1>6 DEF Task

LEMMA SeenInvariant == Spec => [](TypeOK /\ SeenInv)
<1>1. ASSUME TypeOK, SeenInv, [Next]_vars PROVE SeenInv'
  <2> USE DEF Asked
  <2>1. CASE Restart
    BY <1>1, <2>1 DEF Restart, SeenInv, InFlight, TypeOK, Ledger, NewCtx
  <2>2. CASE UNCHANGED vars
    BY <1>1, <2>2 DEF vars, store, handler, task, SeenInv, InFlight
  <2>3. QED
    BY <1>1, <2>1, <2>2, CommandSeen, TextSeen, HandleSeen, TaskSeen DEF Next
<1>2. QED
  BY <1>1, InitSeen, TypeCorrect, PTL DEF Spec

(* A tool call that waited for approval runs only after the handler sent its
   prompt to the chat, or tried to, or in automatic mode, however saves and
   commands interleave. *)
THEOREM OnlyAskedCallsRun == Spec => []NothingRunsUnasked
<1>1. SeenInv => NothingRunsUnasked
  BY DEF SeenInv, NothingRunsUnasked, Asked
<1>2. QED
  BY <1>1, SeenInvariant, PTL

-----------------------------------------------------------------------------
(* Chats are isolated.  A turn is named when its text arrives and belongs to a
   chat from the start of its task on; until then no copy holds it. *)
Own(c) == {t \in Turns : tchat[t] = c}

Names ==
  /\ \A t \in Turns : t >= next => tchat[t] = None /\ tpc[t] = "new"
  /\ \A c \in Chats : hturn[c] < next
  /\ \A c, d \in Chats : hturn[c] = hturn[d] /\ hturn[c] # 0 => c = d
  /\ \A c \in Chats : hpc[c] = "preparing" =>
       tchat[hturn[c]] = None /\ tpc[hturn[c]] = "new"

(* A turn that has a chat keeps it. *)
OwnersStay == \A t \in Turns : tchat[t] # None => tchat'[t] = tchat[t]

LEMMA NamesStep ==
  ASSUME TypeOK, Names, [Next]_vars
  PROVE  Names' /\ OwnersStay
<1> USE DEF handler, task, store, TypeOK, Names, OwnersStay
<1>1. ASSUME UNCHANGED <<next, hturn, tchat>>,
             \A c \in Chats : hpc'[c] = "preparing" => hpc[c] = "preparing",
             \A t \in Turns : tpc[t] = "new" => tpc'[t] = "new"
      PROVE  Names' /\ OwnersStay
  BY <1>1
<1>2. ASSUME NEW c \in Chats, Command(c) PROVE Names' /\ OwnersStay
  <2>1. UNCHANGED task /\ hturn' = hturn
        /\ \/ hpc' = hpc
           \/ hpc' = [hpc EXCEPT ![c] = "executing"]
    <3> HIDE DEF TypeOK, Names, OwnersStay
    <3>1. CASE Approve(c)
      BY <3>1 DEF Approve, StartApproved
    <3>2. CASE ~Approve(c)
      BY <1>2, <3>2 DEF Command, Reset, Forgotten, SetModel, ApprovalMode, ApproveSubagent,
                        DenySubagent, Deny, DenyPending
    <3>3. QED
      BY <3>1, <3>2
  <2>2. QED
    BY <1>1, <2>1
<1>3. ASSUME NEW c \in Chats, Text(c) PROVE Names' /\ OwnersStay
  <2>1. CASE TextStartsSubagent(c) \/ TextDenies(c) \/ \E say \in Says : TextApproves(c, say)
    BY <1>1, <2>1 DEF TextStartsSubagent, ApproveSubagent, TextDenies, TextApproves,
                      DenyPending, StartApproved
  <2>2. ASSUME NEW say \in Says, TextForTurn(c, say) PROVE Names' /\ OwnersStay
    <3>1. /\ next \in Turns /\ next' = next + 1 /\ hturn' = [hturn EXCEPT ![c] = next]
          /\ UNCHANGED <<tpc, tchat>> /\ \A d \in Chats : d # c => hpc'[d] = hpc[d]
      BY <2>2 DEF TextForTurn
    <3>2. \A d \in Chats : /\ hturn[d] \in Nat
                           /\ hturn'[d] = IF d = c THEN next ELSE hturn[d]
      BY <3>1 DEF Turns
    <3>3. tchat[next] = None /\ tpc[next] = "new"
      BY <3>1
    <3>4. \A t \in Turns : t \in Nat
      BY DEF Turns
    <3>5. QED
      BY <3>1, <3>2, <3>3, <3>4
  <2>3. QED
    BY <1>3, <2>1, <2>2 DEF Text
<1>4. ASSUME NEW c \in Chats, Handle(c) PROVE Names' /\ OwnersStay
  <2>1. CASE BeginTurn(c)
    <3> DEFINE t == hturn[c]
    <3>1. /\ t \in Turns /\ hpc[c] = "preparing" /\ hpc' = [hpc EXCEPT ![c] = "receiving"]
          /\ tchat' = [tchat EXCEPT ![t] = c] /\ tpc' = [tpc EXCEPT ![t] = "running"]
          /\ UNCHANGED <<hturn, next>>
      BY <2>1 DEF BeginTurn
    <3>2. tchat[t] = None /\ t < next /\ t \in Nat /\ t # 0
      BY <3>1 DEF Turns
    <3>3. \A d \in Chats : hpc'[d] = "preparing" => hturn[d] # t
      BY <3>1, <3>2
    <3>4. \A u \in Turns : u >= next => u # t
      BY <3>2 DEF Turns
    <3>5. \A u \in Turns : u # t => tchat'[u] = tchat[u] /\ tpc'[u] = tpc[u]
      BY <3>1
    <3> HIDE DEF t
    <3>6. Names'
      BY <3>1, <3>3, <3>4, <3>5
    <3>7. OwnersStay
      BY <3>1, <3>2
    <3>8. QED
      BY <3>6, <3>7
  <2>2. CASE ~BeginTurn(c)
    BY <1>1, <1>4, <2>2 DEF Handle, HandleWithoutAgent, RequestSubagent, TypingFails, ReceiveDone, ReceiveClosed,
      ReceiveAsk, ReceiveAskAuto, RunApproved, StoreApproved, StartApproved
  <2>3. QED
    BY <2>1, <2>2
<1>5. ASSUME NEW t \in Turns, Task(t) PROVE Names' /\ OwnersStay
  <2>0. ASSUME NEW event, NEW x, TaskSends(t, event, x)
        PROVE  tpc[t] # "new" /\ UNCHANGED <<next, hturn, tchat, hpc>>
               /\ \A u \in Turns : u # t => tpc'[u] = tpc[u]
    BY <2>0 DEF TaskSends
  <2>01. CASE TaskStores(t)
    BY <1>1, <2>01 DEF TaskStores
  <2>1. CASE ~TaskStores(t)
    <3>1. tpc[t] # "new" /\ UNCHANGED <<next, hturn, tchat, hpc>>
          /\ \A u \in Turns : u # t => tpc'[u] = tpc[u]
      <4> HIDE DEF TypeOK, Names, OwnersStay
      <4>1. QED
        BY <1>5, <2>0, <2>1 DEF Task, TaskAnswers, TaskAsks, TaskFails
    <3>2. QED
      BY <1>1, <3>1
  <2>2. QED
    BY <2>01, <2>1
<1>6. CASE Restart
  BY <1>1, <1>6 DEF Restart
<1>7. CASE UNCHANGED vars
  BY <1>1, <1>7 DEF vars
<1>8. QED
  BY <1>2, <1>3, <1>4, <1>5, <1>6, <1>7 DEF Next

Owned ==
  /\ \A c \in Chats : sessions[c] # None => \A t \in sessions[c].turns : tchat[t] = c
  /\ \A c \in Chats : \A t \in hctx[c].turns : tchat[t] = c
  /\ \A c \in Chats : \A t \in db[c] : tchat[t] = c
  /\ \A u \in Turns : \A t \in tctx[u].turns : tchat[u] # None /\ tchat[t] = tchat[u]

LEMMA RestoredTurns ==
  ASSUME TypeOK, NEW c \in Chats, NEW h \in Histories(c)
  PROVE  LET old == IF sessions[c] = None THEN NewCtx ELSE sessions[c] IN
         /\ Restored(c, h).turns = IF old.turns = {} /\ c \notin skip THEN h ELSE old.turns
         /\ Restored(c, h).model = old.model
         /\ h \subseteq db[c]
<1> DEFINE old == IF sessions[c] = None THEN NewCtx ELSE sessions[c]
<1>1. old \in Ctx
  BY ContextTypes
<1>2. [old EXCEPT !.turns = h].turns = h /\ [old EXCEPT !.turns = h].model = old.model
  BY <1>1 DEF Ctx
<1>3. h \subseteq db[c] /\ (c \in skip => h = {})
  <2>1. db[c] \in SUBSET Turns
    BY DEF TypeOK
  <2>2. QED
    BY <2>1, RemainsPart DEF Histories
<1> HIDE DEF old
<1>4. Restored(c, h) = IF old.turns = {} THEN [old EXCEPT !.turns = h] ELSE old
  BY DEF Restored, old
<1>5. QED
  BY <1>2, <1>3, <1>4 DEF old

LEMMA OwnedStep ==
  ASSUME TypeOK, SeenInv, Names, Owned, [Next]_vars
  PROVE  Owned'
<1> USE DEF handler, task, store
<1>0. OwnersStay
  BY NamesStep
<1>1. /\ None \notin Chats /\ NewCtx # None /\ NewCtx.turns = {}
      /\ \A c \in Chats : sessions[c] # None => sessions[c] \in Ctx
      /\ \A c \in Chats : hctx[c] \in Ctx
      /\ \A t \in Turns : tctx[t] \in Ctx
  <2>1. NewCtx \in Ctx
    BY ConstantsOK DEF NewCtx, Ctx
  <2>2. NewCtx.turns = {}
    BY DEF NewCtx
  <2>3. None \notin Chats /\ NewCtx # None
    BY <2>1, NoneIsNoCtx, ConstantsOK
  <2>4. QED
    BY <2>2, <2>3 DEF TypeOK
<1>2. ASSUME NEW c \in Chats, NEW ctx, \A t \in ctx.turns : t \in Turns /\ tchat[t] = c,
             sessions' = [sessions EXCEPT ![c] = ctx],
             \A d \in Chats : hctx'[d].turns \subseteq hctx[d].turns,
             \A t \in Turns : tctx'[t].turns \subseteq tctx[t].turns,
             UNCHANGED <<db, tchat>>
      PROVE  Owned'
  BY <1>2 DEF Owned, TypeOK
<1>3. ASSUME NEW c \in Chats, NEW ctx \in Ctx, \A t \in ctx.turns : tchat[t] = c,
             hctx' = [hctx EXCEPT ![c] = ctx], UNCHANGED <<sessions, tctx, db, tchat>>
      PROVE  Owned'
  BY <1>3 DEF Owned, TypeOK
<1>4. UNCHANGED <<sessions, hctx, tctx, db, tchat>> => Owned'
  BY DEF Owned
<1>5. ASSUME NEW c \in Chats, sessions[c] # None
      PROVE  /\ sessions[c].turns \subseteq Turns
             /\ \A m \in Models : [sessions[c] EXCEPT !.model = m].turns = sessions[c].turns
             /\ [sessions[c] EXCEPT !.pend = {}].turns = sessions[c].turns
  BY <1>1, <1>5 DEF Ctx
<1>6. ASSUME NEW c \in Chats, HasPending(c), DenyPending(c) PROVE Owned'
  <2>1. sessions[c] # None
    BY <1>6 DEF HasPending
  <2>2. QED
    BY <1>2, <1>5, <1>6, <2>1 DEF DenyPending, SetSession, Owned
<1>7. ASSUME NEW c \in Chats, HasPending(c), StartApproved(c, sessions[c]) PROVE Owned'
  <2>1. sessions[c] # None /\ sessions[c] \in Ctx
    BY <1>1, <1>7 DEF HasPending
  <2>2. QED
    BY <1>3, <1>7, <2>1 DEF StartApproved, Owned
<1>8. ASSUME NEW c \in Chats, ApproveSubagent(c) PROVE Owned'
  <2> DEFINE ctx == IF sessions[c] = None THEN NewCtx ELSE sessions[c]
  <2>1. \A t \in ctx.turns : t \in Turns /\ tchat[t] = c
    BY <1>1, <1>5 DEF Owned
  <2>2. QED
    BY <1>2, <1>8, <2>1 DEF ApproveSubagent, SetSession
<1>9. ASSUME NEW c \in Chats, Command(c) PROVE Owned'
  <2>1. CASE Reset(c)
    BY <1>0, <2>1 DEF Reset, Forgotten, SetSession, Owned, TypeOK
  <2>2. ASSUME NEW m \in Models, SetModel(c, m) PROVE Owned'
    <3>1. CASE UNCHANGED sessions
      BY <1>4, <2>2, <3>1 DEF SetModel
    <3>2. CASE sessions[c] # None /\ SetSession(c, [sessions[c] EXCEPT !.model = m])
      <4>1. \A t \in [sessions[c] EXCEPT !.model = m].turns : t \in Turns /\ tchat[t] = c
        BY <1>5, <3>2 DEF Owned
      <4>2. UNCHANGED <<hctx, tctx, db, tchat>>
        BY <2>2 DEF SetModel
      <4>3. QED
        BY <1>2, <3>2, <4>1, <4>2 DEF SetSession
    <3>3. QED
      BY <2>2, <3>1, <3>2 DEF SetModel
  <2>3. (\E mode \in {"auto", "manual"} : ApprovalMode(c, mode)) \/ DenySubagent(c) => Owned'
    BY <1>4 DEF ApprovalMode, DenySubagent
  <2>4. Approve(c) \/ Deny(c) => Owned'
    BY <1>6, <1>7 DEF Approve, Deny
  <2>5. QED
    BY <1>8, <1>9, <2>1, <2>2, <2>3, <2>4 DEF Command
<1>10. ASSUME NEW c \in Chats, Text(c) PROVE Owned'
  <2>1. TextStartsSubagent(c) \/ TextDenies(c) => Owned'
    BY <1>6, <1>8 DEF TextStartsSubagent, TextDenies
  <2>2. \A say \in Says : TextApproves(c, say) \/ TextForTurn(c, say) => Owned'
    BY <1>4, <1>7 DEF TextApproves, TextForTurn
  <2>3. QED
    BY <1>10, <2>1, <2>2 DEF Text
<1>11. ASSUME NEW c \in Chats, NEW h \in Histories(c)
       PROVE  \A t \in Restored(c, h).turns : t \in Turns /\ tchat[t] = c
  BY <1>1, <1>5, RestoredTurns DEF Owned, TypeOK
<1>12. ASSUME NEW c \in Chats, BeginTurn(c) PROVE Owned'
  <2> DEFINE t == hturn[c]
  <2>1. PICK h \in Histories(c) : tctx' = [tctx EXCEPT ![t] = Restored(c, h)]
    BY <1>12 DEF BeginTurn
  <2>2. /\ hpc[c] = "preparing" /\ t \in Turns /\ tchat' = [tchat EXCEPT ![t] = c]
        /\ UNCHANGED <<sessions, hctx>>
        /\ \/ db' = [db EXCEPT ![c] = @ \union {t}]
           \/ UNCHANGED db
    BY <1>12 DEF BeginTurn, TypeOK
  <2>3. tchat[t] = None /\ tchat'[t] = c
    BY <2>2 DEF Names, TypeOK
  <2> HIDE DEF t
  <2>4. \A d \in Chats : \A u \in Turns : tchat[u] = d => tchat'[u] = d
    BY <1>1, <2>2, <2>3 DEF TypeOK
  <2>5. /\ \A d \in Chats : sessions'[d] # None => \A u \in sessions'[d].turns : tchat'[u] = d
        /\ \A d \in Chats : \A u \in hctx'[d].turns : tchat'[u] = d
    BY <1>1, <1>5, <2>2, <2>4 DEF Owned, Ctx
  <2>6. \A d \in Chats : \A u \in db'[d] : tchat'[u] = d
    BY <2>2, <2>3, <2>4 DEF Owned, TypeOK
  <2>7. ASSUME NEW v \in Turns, NEW u \in tctx'[v].turns
        PROVE  tchat'[v] # None /\ tchat'[u] = tchat'[v]
    <3>1. CASE v = t
      BY <1>1, <1>11, <2>1, <2>2, <2>3, <2>4, <3>1 DEF TypeOK
    <3>2. CASE v # t
      <4>1. u \in tctx[v].turns /\ u \in Turns
        BY <1>1, <2>1, <2>7, <3>2 DEF Ctx, TypeOK
      <4>2. tchat[v] \in Chats /\ tchat[u] = tchat[v]
        BY <4>1 DEF Owned, TypeOK
      <4>3. QED
        BY <1>1, <2>4, <4>1, <4>2
    <3>3. QED
      BY <3>1, <3>2
  <2>8. QED
    BY <2>5, <2>6, <2>7 DEF Owned
<1>13. ASSUME NEW c \in Chats, Handle(c), ~BeginTurn(c) PROVE Owned'
  <2>1. CASE RequestSubagent(c)
    BY <1>2, <1>11, <2>1 DEF RequestSubagent, SetSession
  <2>2. TypingFails(c) \/ ReceiveDone(c) \/ ReceiveClosed(c) => Owned'
    BY <1>4 DEF TypingFails, ReceiveDone, ReceiveClosed
  <2>3. CASE ReceiveAsk(c) \/ StoreApproved(c)
    <3>1. /\ sessions' = [sessions EXCEPT ![c] = hctx[c]]
          /\ hctx' = [hctx EXCEPT ![c] = NewCtx] /\ UNCHANGED <<tctx, db, tchat>>
      BY <2>3 DEF ReceiveAsk, StoreApproved, SetSession
    <3>2. \A t \in hctx[c].turns : t \in Turns /\ tchat[t] = c
      BY <1>1 DEF Owned, Ctx
    <3>3. \A d \in Chats : hctx'[d].turns \subseteq hctx[d].turns
      BY <1>1, <3>1 DEF TypeOK
    <3>4. QED
      BY <1>2, <3>1, <3>2, <3>3
  <2>4. CASE ReceiveAskAuto(c)
    BY <1>1, <1>3, <2>4 DEF ReceiveAskAuto, StartApproved, Owned
  <2>5. CASE RunApproved(c)
    <3>1. hctx'[c].turns \subseteq hctx[c].turns /\ \A d \in Chats : d # c => hctx'[d] = hctx[d]
      BY <2>5, RunFacts DEF TypeOK
    <3>2. UNCHANGED <<sessions, tctx, db, tchat>>
      BY <2>5 DEF RunApproved
    <3>3. QED
      BY <3>1, <3>2 DEF Owned
  <2>6. QED
    BY <1>13, <2>1, <2>2, <2>3, <2>4, <2>5 DEF Handle, HandleWithoutAgent
<1>14. ASSUME NEW t \in Turns, Task(t) PROVE Owned'
  <2>1. tchat[t] \in Chats
    BY <1>14 DEF Task, TaskAnswers, TaskAsks, TaskFails, TaskSends, TaskStores, SeenInv
  <2>2. ASSUME NEW ctx, ctx.turns \subseteq tctx[t].turns \union {t},
               NEW event \in {"done", "asked", "closed"}, TaskSends(t, event, ctx)
        PROVE  Owned'
    <3>1. \A u \in ctx.turns : tchat[u] = tchat[t]
      BY <2>2 DEF Owned
    <3>2. /\ tctx' = [tctx EXCEPT ![t] = ctx] /\ UNCHANGED <<sessions, db, tchat>>
          /\ hctx' = hctx \/ hctx' = [hctx EXCEPT ![tchat[t]] = ctx]
      BY <2>2 DEF TaskSends
    <3>3. \A d \in Chats : \A u \in hctx'[d].turns : tchat[u] = d
      <4>1. CASE hctx' = hctx
        BY <4>1 DEF Owned
      <4>2. CASE hctx' = [hctx EXCEPT ![tchat[t]] = ctx]
        BY <2>1, <3>1, <4>2 DEF Owned, TypeOK
      <4>3. QED
        BY <3>2, <4>1, <4>2
    <3>4. \A u \in Turns : \A v \in tctx'[u].turns : tchat[u] # None /\ tchat[v] = tchat[u]
      <4>1. /\ tctx'[t] = ctx /\ tchat[t] # None
            /\ \A u \in Turns : u # t => tctx'[u] = tctx[u]
        BY <1>1, <2>1, <3>2 DEF TypeOK
      <4>2. QED
        BY <3>1, <4>1 DEF Owned
    <3>5. QED
      BY <1>1, <3>2, <3>3, <3>4 DEF Owned
  <2>3. \A w \in WithTurn(t) :
          /\ w.turns \subseteq tctx[t].turns \union {t}
          /\ [w EXCEPT !.open = @ \union {t}, !.pend = {t}].turns = w.turns
          /\ \A d : [w EXCEPT !.open = @ \union d].turns = w.turns
    BY WithTurnFacts DEF Ctx
  <2>5. TaskAnswers(t) \/ TaskAsks(t) \/ TaskFails(t) => Owned'
    BY <2>2, <2>3 DEF TaskAnswers, TaskAsks, TaskFails
  <2>6. CASE TaskStores(t)
    <3>1. /\ sessions' = [sessions EXCEPT ![tchat[t]] = tctx[t]]
          /\ tctx' = [tctx EXCEPT ![t] = NewCtx] /\ UNCHANGED <<hctx, db, tchat>>
      BY <2>6 DEF TaskStores, SetSession
    <3>2. \A u \in tctx[t].turns : u \in Turns /\ tchat[u] = tchat[t]
      BY <1>1 DEF Owned, Ctx
    <3>3. \A u \in Turns : tctx'[u].turns \subseteq tctx[u].turns
      BY <1>1, <3>1 DEF TypeOK
    <3>4. QED
      BY <1>2, <2>1, <3>1, <3>2, <3>3
  <2>7. QED
    BY <1>14, <2>5, <2>6 DEF Task
<1>15. CASE Restart
  BY <1>1, <1>15 DEF Restart, Owned
<1>16. CASE UNCHANGED vars
  BY <1>4, <1>16 DEF vars
<1>17. QED
  BY <1>9, <1>10, <1>12, <1>13, <1>14, <1>15, <1>16 DEF Next

LEMMA OwnedInvariant == Spec => [](TypeOK /\ SeenInv /\ Names /\ Owned)
<1>1. Init => Names /\ Owned
  BY DEF Init, Names, Owned, NewCtx, Turns
<1>2. TypeOK /\ SeenInv /\ Names /\ Owned /\ [Next]_vars => Names' /\ Owned'
  BY NamesStep, OwnedStep
<1>3. QED
  BY <1>1, <1>2, SeenInvariant, PTL DEF Spec

(* ChatsAreIsolated whatever users do and whatever fails: no task, handler,
   restore or late save ever puts a turn of one chat into a copy of the context
   of another. *)
THEOREM ChatsStayApart == Spec => []ChatsAreIsolated
<1>1. Owned => ChatsAreIsolated
  BY DEF Owned, ChatsAreIsolated
<1>2. QED
  BY <1>1, OwnedInvariant, PTL

-----------------------------------------------------------------------------
(* A user who waits for the reply and for the save behind it.  Then a chat has
   one background task at a time, and the handler prepares a turn only when
   there is none. *)
Active(t) == tpc[t] \in {"running", "storing"}

Flow ==
  /\ \A t, u \in Turns : Active(t) /\ Active(u) /\ tchat[t] = tchat[u] => t = u
  /\ \A c \in Chats : hpc[c] \in {"preparing", "requesting"} => Quiet(c)

LEMMA NotQuiet ==
  ASSUME TypeOK, NEW c \in Chats
  PROVE  Quiet(c) <=> \A t \in Turns : tchat[t] = c => ~Active(t)
BY DEF Quiet, Active, TypeOK

(* What an update of the user leaves alone. *)
LEMMA UserStep ==
  ASSUME NEW c \in Chats, Command(c) \/ Text(c)
  PROVE  /\ UserActs(c) /\ UNCHANGED <<db, tpc, tchat, tctx, tauto>>
         /\ \/ UNCHANGED hpc
            \/ \E pc \in {"executing", "requesting", "preparing"} :
                 hpc' = [hpc EXCEPT ![c] = pc]
<1> USE DEF task, handler, store
<1>1. Approve(c) =>
        /\ UserActs(c) /\ UNCHANGED <<db, tpc, tchat, tctx, tauto>>
        /\ hpc' = [hpc EXCEPT ![c] = "executing"]
  BY DEF Approve, StartApproved
<1>2. ASSUME Reset(c) \/ (\E m \in Models : SetModel(c, m))
             \/ (\E mode \in {"auto", "manual"} : ApprovalMode(c, mode))
             \/ ApproveSubagent(c) \/ DenySubagent(c)
      PROVE  UserActs(c) /\ UNCHANGED <<db, tpc, tchat, tctx, tauto, hpc>>
  BY <1>2 DEF Reset, Forgotten, SetModel, ApprovalMode, ApproveSubagent, DenySubagent
<1>3. Deny(c) \/ TextDenies(c) =>
        UserActs(c) /\ UNCHANGED <<db, tpc, tchat, tctx, tauto, hpc>>
  BY DEF Deny, TextDenies, DenyPending
<1>4. TextStartsSubagent(c) => ApproveSubagent(c)
  BY DEF TextStartsSubagent
<1>5. ASSUME NEW say, TextApproves(c, say)
      PROVE  /\ UserActs(c) /\ UNCHANGED <<db, tpc, tchat, tctx, tauto>>
             /\ hpc' = [hpc EXCEPT ![c] = "executing"]
  BY <1>5 DEF TextApproves, StartApproved
<1>6. ASSUME NEW say, TextForTurn(c, say)
      PROVE  /\ UserActs(c) /\ UNCHANGED <<db, tpc, tchat, tctx, tauto>>
             /\ \E pc \in {"requesting", "preparing"} : hpc' = [hpc EXCEPT ![c] = pc]
  BY <1>6 DEF TextForTurn
<1>7. QED
  BY <1>1, <1>2, <1>3, <1>4, <1>5, <1>6 DEF Command, Text

LEMMA FlowStep ==
  ASSUME PatientUser, TypeOK, TypeOK', Names, Flow, [Next]_vars
  PROVE  Flow'
<1> USE DEF task, handler, store
<1>1. None \notin Chats
  BY ConstantsOK
<1>2. ASSUME UNCHANGED tchat, \A t \in Turns : Active(t)' => Active(t),
             \A c \in Chats : hpc'[c] \in {"preparing", "requesting"} =>
               hpc[c] \in {"preparing", "requesting"} \/ Quiet(c)
      PROVE  Flow'
  <2>1. ASSUME NEW c \in Chats, Quiet(c), NEW t \in Turns, tchat'[t] = c
        PROVE  tpc'[t] \in {"new", "ended"}
    BY <1>2, <2>1 DEF Quiet, Active, TypeOK
  <2>2. \A c \in Chats : Quiet(c) => Quiet(c)'
    BY <2>1 DEF Quiet
  <2>3. QED
    BY <1>2, <2>2 DEF Flow
<1>3. ASSUME NEW c \in Chats, Command(c) \/ Text(c) PROVE Flow'
  BY <1>2, <1>3, UserStep DEF UserActs, Active, TypeOK
<1>4. ASSUME NEW c \in Chats, BeginTurn(c) PROVE Flow'
  <2> DEFINE t == hturn[c]
  <2>1. /\ hpc[c] = "preparing" /\ t \in Turns /\ tchat' = [tchat EXCEPT ![t] = c]
        /\ tpc' = [tpc EXCEPT ![t] = "running"] /\ hpc' = [hpc EXCEPT ![c] = "receiving"]
    BY <1>4 DEF BeginTurn, TypeOK
  <2>2. tchat[t] = None /\ tpc[t] = "new" /\ Quiet(c)
    BY <2>1 DEF Names, Flow
  <2> HIDE DEF t
  <2>3. /\ tchat'[t] = c /\ tpc'[t] = "running"
        /\ \A u \in Turns : u # t => tchat'[u] = tchat[u] /\ tpc'[u] = tpc[u]
    BY <2>1 DEF TypeOK
  <2>4. \A u \in Turns : u # t /\ Active(u)' => tchat'[u] # c
    BY <2>2, <2>3 DEF Quiet, Active
  <2>5. \A u, v \in Turns : Active(u)' /\ Active(v)' /\ tchat'[u] = tchat'[v] => u = v
    BY <2>3, <2>4 DEF Flow, Active
  <2>6. \A d \in Chats : hpc'[d] \in {"preparing", "requesting"} => Quiet(d)'
    <3>1. SUFFICES ASSUME NEW d \in Chats, hpc'[d] \in {"preparing", "requesting"},
                          NEW u \in Turns, tchat'[u] = d
                   PROVE  tpc'[u] \in {"new", "ended"}
      BY DEF Quiet
    <3>2. d # c /\ hpc[d] \in {"preparing", "requesting"}
      BY <2>1, <3>1 DEF TypeOK
    <3>3. u # t
      BY <2>3, <3>1, <3>2
    <3>4. QED
      BY <2>3, <3>1, <3>2, <3>3 DEF Flow, Quiet
  <2>7. QED
    BY <2>5, <2>6 DEF Flow
<1>5. ASSUME NEW c \in Chats, Handle(c), ~BeginTurn(c) PROVE Flow'
  <2>1. /\ UNCHANGED <<tchat, tpc>>
        /\ \E pc \in {"idle", "executing", "executed"} : hpc' = [hpc EXCEPT ![c] = pc]
    BY <1>5 DEF Handle, HandleWithoutAgent, RequestSubagent, TypingFails, ReceiveDone, ReceiveClosed,
      ReceiveAsk, ReceiveAskAuto, RunApproved, StoreApproved, StartApproved
  <2>2. QED
    BY <1>2, <2>1 DEF Active, TypeOK
<1>6. ASSUME NEW t \in Turns, Task(t) PROVE Flow'
  <2>1. /\ Active(t) /\ UNCHANGED <<tchat, hpc>>
        /\ \E pc \in {"storing", "ended"} : tpc' = [tpc EXCEPT ![t] = pc]
    BY <1>6 DEF Task, TaskAnswers, TaskAsks, TaskFails, TaskSends, TaskStores, Active
  <2>2. QED
    BY <1>2, <2>1 DEF Active, TypeOK
<1>7. CASE Restart
  BY <1>2, <1>7 DEF Restart, Active
<1>8. CASE UNCHANGED vars
  BY <1>2, <1>8 DEF vars, Active
<1>9. QED
  BY <1>3, <1>4, <1>5, <1>6, <1>7, <1>8 DEF Next

(* Enough turns of the chat came after u for the limits to cut u away. *)
Later(c, u) == {v \in Turns : tchat[v] = c /\ v > u}

Cut(c, u) == Cardinality(Later(c, u)) >= Held

LEMMA FiniteTurns ==
  ASSUME NEW S, S \subseteq Turns
  PROVE  IsFiniteSet(S)
<1>0. MaxTurns \in Nat
  BY ConstantsOK
<1>1. MaxTurns \in Int /\ 1 \in Int
  BY <1>0
<1>2. IsFiniteSet(1..MaxTurns)
  BY <1>1, FS_Interval
<1>3. IsFiniteSet(Turns) /\ S \in SUBSET Turns
  BY <1>2 DEF Turns
<1>4. QED
  BY <1>3, FS_Subset

(* What the limits do not leave has enough turns after it. *)
LEMMA CutAway ==
  ASSUME NEW c, NEW S \in SUBSET Turns, \A v \in S : tchat[v] = c,
         NEW kept \in Remains(S), NEW u \in S, u \notin kept
  PROVE  Cut(c, u)
<1> DEFINE after == {v \in S : v > u}
<1>1. Cardinality(after) >= Held
  BY DEF Remains
<1>2. after \in SUBSET Later(c, u)
  BY DEF Later
<1>3. IsFiniteSet(Later(c, u)) /\ IsFiniteSet(after)
  BY FiniteTurns DEF Later
<1> HIDE DEF after
<1>4. Cardinality(after) <= Cardinality(Later(c, u))
  BY <1>2, <1>3, FS_Subset
<1>5. Cardinality(after) \in Nat /\ Cardinality(Later(c, u)) \in Nat /\ Held \in Nat
  BY <1>3, FS_CardinalityType, ConstantsOK
<1>6. QED
  BY <1>1, <1>4, <1>5 DEF Cut

(* The limits leave something of a list that holds something: nothing comes
   after its last turn. *)
LEMMA SomethingRemains ==
  ASSUME NEW S \in SUBSET Turns, S # {}, NEW kept \in Remains(S)
  PROVE  kept # {}
<1> SUFFICES ASSUME kept = {} PROVE FALSE
  OBVIOUS
<1>0. MaxTurns \in Nat
  BY ConstantsOK
<1>1. MaxTurns \in Nat /\ \A u \in S : u \in Nat /\ u <= MaxTurns
  BY <1>0 DEF Turns
<1> DEFINE Place == {MaxTurns - u : u \in S}
<1>2. Place \subseteq Nat /\ Place # {}
  BY <1>1
<1>3. IsWellFoundedOn(OpToRel(<, Nat), Nat)
  BY NatLessThanWellFounded
<1>4. PICK x \in Place : \A y \in Place : <<y, x>> \notin OpToRel(<, Nat)
  <2> HIDE DEF Place
  <2>1. QED
    BY <1>2, <1>3, WFMin
<1>5. \A y \in Place : ~(y < x)
  <2> HIDE DEF Place
  <2>1. QED
    BY <1>2, <1>4 DEF OpToRel
<1>6. PICK u \in S : x = MaxTurns - u
  BY <1>4
<1>60. u \in Nat /\ MaxTurns \in Nat
  BY <1>1
<1>7. ASSUME NEW t \in S, t > u PROVE FALSE
  <2>1. t \in Nat
    BY <1>1
  <2>2. MaxTurns - t \in Place
    OBVIOUS
  <2>3. ~(MaxTurns - t < x)
    BY <1>5, <2>2
  <2> HIDE DEF Place
  <2>4. QED
    BY <1>6, <1>60, <1>7, <2>1, <2>3
<1>8. {t \in S : t > u} = {}
  BY <1>7
<1>9. Cardinality({t \in S : t > u}) >= Held
  BY DEF Remains
<1>10. Cardinality({t \in S : t > u}) = 0
  BY <1>8, FS_EmptySet
<1>11. Held \in Nat /\ Held # 0
  BY ConstantsOK
<1> HIDE DEF Place
<1>12. QED
  BY <1>9, <1>10, <1>11

(* What a turn, an approval or a reset starts from.  The model needs that none
   is set before there is a session to keep it. *)
ModelKept == "early model" \notin UserDoes

Old(c) == IF sessions[c] = None THEN NewCtx ELSE sessions[c]

(* The turns are the conversation: all of it but what was cut or lost, and
   nothing else but what came back. *)
Tells(c, turns) ==
  /\ \A u \in ledger.since[c] \ ledger.lost[c] : u \in turns \/ Cut(c, u)
  /\ turns \subseteq ledger.since[c] \union ledger.back[c]

(* A turn that starts from ctx sees the conversation: it is in ctx, or ctx is
   empty and the conversation is what the database holds. *)
Good(c, ctx) ==
  /\ Tells(c, IF ctx.turns = {} /\ c \notin skip THEN db[c] ELSE ctx.turns)
  /\ ModelKept => ctx.model = ledger.chosen[c]

(* ctx is the context of a turn that has been taken. *)
Full(c, ctx) ==
  /\ Tells(c, ctx.turns) /\ ctx.turns # {}
  /\ ModelKept => ctx.model = ledger.chosen[c]

(* The turn t has begun, and is not in its own context yet. *)
Begun(c, t) ==
  /\ \A u \in ledger.since[c] \ ({t} \union ledger.lost[c]) :
       u \in tctx[t].turns \/ Aged(c, u, t)
  /\ tctx[t].turns \subseteq ledger.since[c] \union ledger.back[c]
  /\ t \in ledger.since[c]
  /\ ModelKept => tctx[t].model = ledger.chosen[c]

Fresh(c) ==
  /\ Quiet(c) => Good(c, Old(c))
  /\ hpc[c] \in {"executing", "executed"} => Good(c, hctx[c])
  /\ chan[c] = "asked" => Full(c, hctx[c])
  /\ \A t \in Turns : tchat[t] = c /\ tpc[t] = "running" => Begun(c, t)
  /\ \A t \in Turns : tchat[t] = c /\ tpc[t] = "storing" => Full(c, tctx[t])

(* The turns of a chat nothing begins in stay the same. *)
LEMMA SameLater ==
  ASSUME NEW c, \A t \in Turns : tchat'[t] = c <=> tchat[t] = c
  PROVE  /\ \A u : Later(c, u)' = Later(c, u) /\ Cut(c, u)' = Cut(c, u)
         /\ \A u, t : Aged(c, u, t)' = Aged(c, u, t)
<1>1. \A u : Later(c, u)' = Later(c, u)
  BY DEF Later
<1>2. ASSUME NEW u, NEW t PROVE Aged(c, u, t)' = Aged(c, u, t)
  <2>1. {v \in Turns \ {t} : tchat[v] = c /\ v > u}'
        = {v \in Turns \ {t} : tchat[v] = c /\ v > u}
    OBVIOUS
  <2>2. QED
    BY <2>1 DEF Aged
<1>3. QED
  BY <1>1, <1>2 DEF Cut

(* A chat nothing happens to. *)
LEMMA FreshFrame ==
  ASSUME NEW c \in Chats, Fresh(c),
         sessions'[c] = sessions[c], hctx'[c] = hctx[c], db'[c] = db[c],
         c \in skip' <=> c \in skip,
         ledger'.since[c] = ledger.since[c], ledger'.chosen[c] = ledger.chosen[c],
         ledger'.back[c] = ledger.back[c], ledger'.lost[c] = ledger.lost[c],
         hpc'[c] \in {"executing", "executed"} => hpc'[c] = hpc[c],
         chan'[c] = "asked" => chan[c] = "asked",
         \A t \in Turns :
           /\ tchat'[t] = c <=> tchat[t] = c
           /\ tchat[t] = c => tpc'[t] = tpc[t] /\ tctx'[t] = tctx[t]
  PROVE  Fresh(c)'
<1>1. Quiet(c)' => Quiet(c)
  BY DEF Quiet
<1>2. /\ \A u : Cut(c, u)' = Cut(c, u)
      /\ \A u, t : Aged(c, u, t)' = Aged(c, u, t)
  BY SameLater
<1>3. \A turns : Tells(c, turns) => Tells(c, turns)'
  BY <1>2 DEF Tells
<1>4. (Quiet(c) => Good(c, Old(c)))'
  BY <1>1, <1>3 DEF Fresh, Good, Old
<1>5. (hpc[c] \in {"executing", "executed"} => Good(c, hctx[c]))'
  BY <1>3 DEF Fresh, Good
<1>6. (chan[c] = "asked" => Full(c, hctx[c]))'
  BY <1>3 DEF Fresh, Full
<1>7. \A t \in Turns : (tchat[t] = c /\ tpc[t] = "running" => Begun(c, t))'
  BY <1>2 DEF Fresh, Begun
<1>8. \A t \in Turns : (tchat[t] = c /\ tpc[t] = "storing" => Full(c, tctx[t]))'
  BY <1>3 DEF Fresh, Full
<1>9. QED
  BY <1>4, <1>5, <1>6, <1>7, <1>8 DEF Fresh

(* A chat with no task that has a context to store. *)
LEMMA FreshQuiet ==
  ASSUME NEW c \in Chats, Quiet(c)', Good(c, Old(c))', chan'[c] # "asked",
         hpc'[c] \in {"executing", "executed"} => Good(c, hctx[c])'
  PROVE  Fresh(c)'
BY DEF Fresh, Quiet

LEMMA FullIsGood ==
  ASSUME NEW c, NEW ctx, Full(c, ctx)
  PROVE  Good(c, ctx)
BY DEF Full, Good

Patient ==
  PatientUser /\ TypeOK /\ SeenInv /\ Names /\ Owned /\ Flow /\ \A c \in Chats : Fresh(c)

(* An update of the user: the chat is quiet and stays so. *)
LEMMA FreshUser ==
  ASSUME Patient, NEW c \in Chats, Command(c) \/ Text(c)
  PROVE  \A d \in Chats : Fresh(d)'
<1> USE DEF task, handler, store
<1>1. TypeOK /\ SeenInv /\ Fresh(c) /\ PatientUser /\ ledger \in Ledger
  BY DEF Patient, TypeOK
<1>2. /\ hpc[c] = "idle" /\ Quiet(c) /\ chan[c] = "open" /\ Good(c, Old(c))
      /\ UNCHANGED <<db, tpc, tchat, tctx, tauto>>
  BY <1>1, UserStep DEF UserActs, SeenInv, Fresh
<1>3. Quiet(c)'
  BY <1>2 DEF Quiet
<1>4. NewCtx \in Ctx /\ NewCtx.turns = {} /\ NewCtx.model = DefaultModel /\ None \notin Ctx
      /\ (sessions[c] # None => sessions[c] \in Ctx)
  BY <1>1, ContextTypes, NoneIsNoCtx DEF NewCtx
<1>5. ASSUME NEW d \in Chats, d # c PROVE Fresh(d)'
  <2>1. Fresh(d)
    BY DEF Patient
  <2>2. sessions'[d] = sessions[d] /\ (d \in skip' <=> d \in skip)
    BY <1>1, <1>5 DEF Command, Text, Reset, Forgotten, SetModel, ApprovalMode, ApproveSubagent,
      DenySubagent, Approve, Deny, TextStartsSubagent, TextDenies, TextApproves, TextForTurn,
      StartApproved, DenyPending, SetSession, TypeOK
  <2>3. hctx'[d] = hctx[d] /\ hpc'[d] = hpc[d] /\ chan'[d] = chan[d]
    BY <1>1, <1>5 DEF Command, Text, Reset, Forgotten, SetModel, ApprovalMode, ApproveSubagent,
      DenySubagent, Approve, Deny, TextStartsSubagent, TextDenies, TextApproves, TextForTurn,
      StartApproved, DenyPending, TypeOK
  <2>4. /\ ledger'.since[d] = ledger.since[d] /\ ledger'.chosen[d] = ledger.chosen[d]
        /\ ledger'.back[d] = ledger.back[d] /\ ledger'.lost[d] = ledger.lost[d]
    <3>1. CASE Reset(c)
      BY <1>1, <1>5, <3>1 DEF Reset, Forgotten, Ledger
    <3>2. ASSUME NEW m \in Models, SetModel(c, m)
          PROVE  /\ ledger'.since = ledger.since /\ ledger'.back = ledger.back
                 /\ ledger'.lost = ledger.lost /\ ledger'.chosen[d] = ledger.chosen[d]
      BY <1>1, <1>5, <3>2 DEF SetModel, Ledger
    <3>3. CASE Approve(c) \/ Deny(c) \/ TextDenies(c)
               \/ \E say \in UserDoes \intersect Says : TextApproves(c, say)
      BY <1>1, <3>3 DEF Approve, Deny, TextDenies, TextApproves, Ledger
    <3>4. ASSUME UNCHANGED ledger
          PROVE  /\ ledger'.since = ledger.since /\ ledger'.back = ledger.back
                 /\ ledger'.lost = ledger.lost /\ ledger'.chosen[d] = ledger.chosen[d]
      BY <3>4
    <3>5. QED
      BY <3>1, <3>2, <3>3, <3>4 DEF Command, Text, ApprovalMode, ApproveSubagent,
        DenySubagent, TextStartsSubagent, TextForTurn
  <2>5. QED
    BY <1>2, <2>1, <2>2, <2>3, <2>4, FreshFrame
<1>51. (\A u : Cut(c, u)' = Cut(c, u))
  BY <1>2, SameLater
<1>52. ledger'.since[c] = ledger.since[c] /\ ledger'.back[c] = ledger.back[c]
       /\ ledger'.lost[c] = ledger.lost[c] =>
         \A turns : Tells(c, turns) => Tells(c, turns)'
  BY <1>51 DEF Tells
<1>6. ASSUME hpc' = hpc, chan' = chan, Good(c, Old(c))' PROVE Fresh(c)'
  BY <1>2, <1>3, <1>6, FreshQuiet
<1>7. CASE Reset(c)
  <2>1. /\ sessions'[c] = None /\ c \in skip' /\ ledger'.since[c] = {}
        /\ ledger'.chosen[c] = DefaultModel /\ hpc' = hpc /\ chan' = chan
    BY <1>1, <1>7 DEF Reset, Forgotten, SetSession, TypeOK, Ledger
  <2>2. Tells(c, {})'
    BY <2>1 DEF Tells
  <2>3. QED
    BY <1>4, <1>5, <1>6, <2>1, <2>2 DEF Good, Old
<1>8. ASSUME NEW m \in Models, SetModel(c, m) PROVE Fresh(c)'
  <2>1. /\ ledger'.since[c] = ledger.since[c] /\ ledger'.chosen[c] = m
        /\ ledger'.back[c] = ledger.back[c] /\ ledger'.lost[c] = ledger.lost[c]
        /\ hpc' = hpc /\ chan' = chan /\ skip' = skip
    BY <1>1, <1>8 DEF SetModel, Ledger
  <2>2. CASE sessions[c] = None
    <3>1. ~ModelKept /\ sessions'[c] = None
      BY <1>8, <2>2 DEF SetModel, ModelKept
    <3>2. QED
      BY <1>2, <1>6, <2>1, <2>2, <3>1, <1>52 DEF Good, Old
  <2>3. CASE sessions[c] # None
    <3>1. sessions'[c] = [sessions[c] EXCEPT !.model = m]
      BY <1>1, <1>8, <2>3 DEF SetModel, SetSession, TypeOK
    <3>2. sessions'[c] # None /\ sessions'[c].model = m /\ sessions'[c].turns = sessions[c].turns
      BY <1>4, <2>3, <3>1 DEF Ctx
    <3>3. QED
      BY <1>2, <1>6, <2>1, <2>3, <3>2, <1>52 DEF Good, Old
  <2>4. QED
    BY <2>2, <2>3
<1>9. ASSUME UNCHANGED <<sessions, skip, ledger, hpc, chan>> PROVE Fresh(c)'
  BY <1>2, <1>6, <1>9, <1>52 DEF Good, Old
<1>10. ASSUME ApproveSubagent(c) PROVE Fresh(c)'
  <2>1. sessions'[c] = Old(c) /\ UNCHANGED <<skip, ledger, hpc, chan>>
    BY <1>1, <1>10 DEF ApproveSubagent, SetSession, TypeOK, Old
  <2>2. Old(c)' = Old(c)
    BY <1>4, <2>1 DEF Old
  <2>3. QED
    BY <1>2, <1>6, <1>52, <2>1, <2>2 DEF Good
<1>11. ASSUME HasPending(c), StartApproved(c, sessions[c]),
              ledger'.since = ledger.since, ledger'.chosen = ledger.chosen,
              ledger'.back = ledger.back, ledger'.lost = ledger.lost
       PROVE  Fresh(c)'
  <2>1. /\ hpc'[c] = "executing" /\ chan'[c] = "open" /\ hctx'[c] = sessions[c]
        /\ UNCHANGED <<sessions, skip>>
    BY <1>1, <1>11 DEF StartApproved, TypeOK
  <2>2. sessions[c] = Old(c)
    BY <1>11 DEF HasPending, Old
  <2>3. Good(c, Old(c))' /\ Good(c, hctx[c])'
    BY <1>2, <1>11, <2>1, <2>2, <1>52 DEF Good, Old
  <2>4. QED
    BY <1>3, <2>1, <2>3, FreshQuiet
<1>12. ASSUME HasPending(c), DenyPending(c),
              ledger'.since = ledger.since, ledger'.chosen = ledger.chosen,
              ledger'.back = ledger.back, ledger'.lost = ledger.lost
       PROVE  Fresh(c)'
  <2>1. sessions'[c] = [sessions[c] EXCEPT !.pend = {}] /\ UNCHANGED <<skip, hpc, chan>>
    BY <1>1, <1>12 DEF DenyPending, SetSession, TypeOK
  <2>2. /\ sessions[c] # None /\ sessions'[c] # None
        /\ sessions'[c].turns = sessions[c].turns /\ sessions'[c].model = sessions[c].model
    BY <1>4, <1>12, <2>1 DEF HasPending, Ctx
  <2>3. Good(c, Old(c))'
    BY <1>2, <1>12, <2>1, <2>2, <1>52 DEF Good, Old
  <2>4. QED
    BY <1>6, <2>1, <2>3
<1>13. ASSUME NEW say \in UserDoes \intersect Says, TextForTurn(c, say) PROVE Fresh(c)'
  <2>1. /\ hpc'[c] = IF say = "spawn" THEN "requesting" ELSE "preparing"
        /\ UNCHANGED <<sessions, skip, ledger, chan>>
    BY <1>1, <1>13 DEF TextForTurn, TypeOK
  <2>3. Good(c, Old(c))'
    BY <1>2, <2>1, <1>52 DEF Good, Old
  <2>4. QED
    BY <1>2, <1>3, <2>1, <2>3, FreshQuiet
<1>14. CASE \/ \E mode \in {"auto", "manual"} : ApprovalMode(c, mode)
            \/ DenySubagent(c)
  BY <1>5, <1>9, <1>14 DEF ApprovalMode, DenySubagent
<1>15. CASE Approve(c) \/ Deny(c) \/ TextDenies(c)
            \/ \E say \in UserDoes \intersect Says : TextApproves(c, say)
  <2>1. /\ ledger'.since = ledger.since /\ ledger'.chosen = ledger.chosen
        /\ ledger'.back = ledger.back /\ ledger'.lost = ledger.lost
    BY <1>1, <1>15 DEF Approve, Deny, TextDenies, TextApproves, Ledger
  <2>2. HasPending(c) /\ (StartApproved(c, sessions[c]) \/ DenyPending(c))
    BY <1>15 DEF Approve, Deny, TextDenies, TextApproves
  <2>3. QED
    BY <1>5, <1>11, <1>12, <2>1, <2>2
<1>16. QED
  BY <1>5, <1>7, <1>8, <1>10, <1>13, <1>14, <1>15 DEF Command, Text, TextStartsSubagent

(* What reading the history gives a turn or a request. *)
LEMMA ReadTells ==
  ASSUME TypeOK, Owned, NEW c \in Chats, Good(c, Old(c)), NEW h \in Histories(c)
  PROVE  /\ Restored(c, h) \in Ctx
         /\ ModelKept => Restored(c, h).model = ledger.chosen[c]
         /\ \A u \in ledger.since[c] \ Read(c, h).lost[c] :
              u \in Restored(c, h).turns \/ Cut(c, u)
         /\ Restored(c, h).turns \subseteq ledger.since[c] \union ledger.back[c]
<1> DEFINE turns == Restored(c, h).turns
<1>1. /\ Restored(c, h) \in Ctx /\ ledger \in Ledger /\ db[c] \in SUBSET Turns
      /\ turns = IF Old(c).turns = {} /\ c \notin skip THEN h ELSE Old(c).turns
      /\ Restored(c, h).model = Old(c).model /\ h \subseteq db[c]
  BY ContextTypes, RestoredTurns DEF Old, TypeOK
<1>2. ledger.lost[c] \subseteq Read(c, h).lost[c]
  BY <1>1 DEF Read, Ledger
<1> HIDE DEF turns
<1>3. CASE Old(c).turns = {} /\ c \notin skip
  <2>1. turns = h /\ Tells(c, db[c])
    BY <1>1, <1>3 DEF Good
  <2>2. Empty(c)
    BY <1>3 DEF Empty, Old
  <2>3. ASSUME NEW u \in ledger.since[c] \ Read(c, h).lost[c] PROVE u \in h \/ Cut(c, u)
    <3>1. u \in db[c] \/ Cut(c, u)
      BY <1>2, <2>1, <2>3 DEF Tells
    <3>2. CASE h = {}
      <4>1. db[c] \subseteq Read(c, h).lost[c]
        BY <1>1, <2>2, <3>2 DEF Read, Ledger
      <4>2. QED
        BY <2>3, <3>1, <4>1
    <3>3. CASE h # {} /\ u \in db[c]
      <4>1. h \in Remains(db[c])
        BY <3>3 DEF Histories
      <4>2. \A v \in db[c] : tchat[v] = c
        BY DEF Owned
      <4>3. QED
        BY <1>1, <3>3, <4>1, <4>2, CutAway
    <3>4. QED
      BY <3>1, <3>2, <3>3
  <2>4. h \subseteq ledger.since[c] \union ledger.back[c]
    BY <1>1, <2>1 DEF Tells
  <2>5. QED
    BY <1>1, <2>1, <2>3, <2>4 DEF Good, turns
<1>4. CASE ~(Old(c).turns = {} /\ c \notin skip)
  <2>1. turns = Old(c).turns /\ Tells(c, turns)
    BY <1>1, <1>4 DEF Good
  <2>2. QED
    BY <1>1, <1>2, <2>1 DEF Tells, Good, turns
<1>5. QED
  BY <1>3, <1>4

(* The mark of a reset is used up: the database may come back. *)
LEMMA MarkTells ==
  ASSUME TypeOK, NEW c \in Chats, NEW l \in Ledger
  PROVE  /\ MarkUsed(c, l).since = l.since /\ MarkUsed(c, l).lost = l.lost
         /\ MarkUsed(c, l).chosen = l.chosen
         /\ l.back[c] \subseteq MarkUsed(c, l).back[c]
         /\ c \in skip => db[c] \subseteq MarkUsed(c, l).back[c]
BY DEF MarkUsed, Ledger, TypeOK

(* The handler prepares a turn, a request, or gives up. *)
LEMMA FreshBegins ==
  ASSUME Patient, TypeOK', NEW c \in Chats, RequestSubagent(c) \/ TypingFails(c) \/ BeginTurn(c)
  PROVE  \A d \in Chats : Fresh(d)'
<1> USE DEF task, handler, store
<1>1. TypeOK /\ SeenInv /\ Names /\ Owned /\ Flow /\ Fresh(c) /\ ledger \in Ledger
  BY DEF Patient, TypeOK
<1>2. Quiet(c) /\ Good(c, Old(c)) /\ chan[c] = "open"
  BY <1>1 DEF RequestSubagent, TypingFails, BeginTurn, Flow, Fresh, SeenInv
<1>3. CASE RequestSubagent(c)
  <2> PICK h \in Histories(c) : /\ SetSession(c, Restored(c, h))
                               /\ ledger' = MarkUsed(c, Read(c, h))
    BY <1>3 DEF RequestSubagent
  <2>1. /\ sessions'[c] = Restored(c, h) /\ hpc'[c] = "idle" /\ c \notin skip'
        /\ UNCHANGED <<chan, hctx, db, tpc, tchat, tctx>>
    BY <1>1, <1>3 DEF RequestSubagent, SetSession, TypeOK
  <2>2. /\ Restored(c, h) \in Ctx
        /\ ModelKept => Restored(c, h).model = ledger.chosen[c]
        /\ \A u \in ledger.since[c] \ Read(c, h).lost[c] :
             u \in Restored(c, h).turns \/ Cut(c, u)
        /\ Restored(c, h).turns \subseteq ledger.since[c] \union ledger.back[c]
    BY <1>1, <1>2, ReadTells
  <2>3. Read(c, h) \in Ledger /\ Read(c, h).since = ledger.since
        /\ Read(c, h).chosen = ledger.chosen /\ Read(c, h).back[c] = ledger.back[c]
        /\ ledger.lost[c] \subseteq Read(c, h).lost[c]
    BY <1>1, ReadTypes DEF Read, Ledger
  <2>4. /\ ledger'.since = ledger.since /\ ledger'.lost[c] = Read(c, h).lost[c]
        /\ ledger'.chosen = ledger.chosen /\ ledger.back[c] \subseteq ledger'.back[c]
        /\ c \in skip => db[c] \subseteq ledger'.back[c]
    BY <1>1, <2>3, MarkTells
  <2>5. \A u : Cut(c, u)' = Cut(c, u)
    BY <2>1, SameLater
  <2>60. PICK w : w = Restored(c, h)
    OBVIOUS
  <2>61. PICK turns : turns = w.turns
    OBVIOUS
  <2>62. \A u \in ledger'.since[c] \ ledger'.lost[c] : u \in turns \/ Cut(c, u)'
    BY <2>2, <2>4, <2>5, <2>60, <2>61
  <2>63. turns \subseteq ledger'.since[c] \union ledger'.back[c]
    BY <2>2, <2>4, <2>60, <2>61
  <2>6. Tells(c, turns)'
    BY <2>62, <2>63 DEF Tells
  <2>7. turns = {} => Tells(c, db[c])'
    <3>1. SUFFICES ASSUME turns = {} PROVE Tells(c, db[c])'
      OBVIOUS
    <3>2. \A u \in ledger'.since[c] \ ledger'.lost[c] : Cut(c, u)'
      BY <2>62, <3>1
    <3>3. Restored(c, h).turns = {}
      BY <2>60, <2>61, <3>1
    <3>4. c \notin skip => Old(c).turns = {}
      BY <1>1, <3>3, RestoredTurns DEF Old
    <3>5. db[c] \subseteq ledger'.since[c] \union ledger'.back[c]
      <4>1. CASE c \in skip
        BY <2>4, <4>1
      <4>2. CASE c \notin skip
        <5>1. Tells(c, db[c])
          BY <1>2, <3>4, <4>2 DEF Good
        <5>2. QED
          BY <2>4, <5>1 DEF Tells
      <4>3. QED
        BY <4>1, <4>2
    <3>6. QED
      BY <2>1, <3>2, <3>5 DEF Tells
  <2>8. Old(c)' = w /\ (Old(c)').turns = turns /\ (ModelKept => w.model = ledger'.chosen[c])
    BY <2>1, <2>2, <2>4, <2>60, <2>61, NoneIsNoCtx DEF Old
  <2>9. Good(c, Old(c))'
    BY <2>1, <2>6, <2>7, <2>8 DEF Good
  <2>10. Fresh(c)'
    BY <1>2, <2>1, <2>9, FreshQuiet DEF Quiet
  <2>11. ASSUME NEW d \in Chats, d # c PROVE Fresh(d)'
    <3>1. sessions'[d] = sessions[d] /\ hpc'[d] = hpc[d] /\ (d \in skip' <=> d \in skip)
      BY <1>1, <1>3, <2>11 DEF RequestSubagent, SetSession, TypeOK
    <3>2. ledger'.back[d] = ledger.back[d] /\ ledger'.lost[d] = ledger.lost[d]
      BY <1>1, <2>11, ReadKeeps
    <3>3. QED
      BY <2>1, <2>4, <3>1, <3>2, FreshFrame DEF Patient
  <2>12. QED
    BY <2>10, <2>11
<1>4. CASE TypingFails(c)
  <2>1. /\ hpc'[c] = "idle" /\ c \notin skip' /\ ledger' = MarkUsed(c, ledger)
        /\ UNCHANGED <<sessions, chan, hctx, db, tpc, tchat, tctx>>
    BY <1>1, <1>4 DEF TypingFails, TypeOK
  <2>2. /\ ledger'.since = ledger.since /\ ledger'.lost = ledger.lost
        /\ ledger'.chosen = ledger.chosen /\ ledger.back[c] \subseteq ledger'.back[c]
        /\ c \in skip => db[c] \subseteq ledger'.back[c]
    BY <1>1, <2>1, MarkTells
  <2>3. \A u : Cut(c, u)' = Cut(c, u)
    BY <2>1, SameLater
  <2>4. \A turns : Tells(c, turns) => Tells(c, turns)'
    BY <2>2, <2>3 DEF Tells
  <2>5. Old(c).turns = {} /\ c \in skip => Tells(c, db[c])'
    BY <1>2, <2>1, <2>2, <2>3 DEF Good, Tells
  <2>6. Good(c, Old(c))'
    BY <1>2, <2>1, <2>2, <2>4, <2>5 DEF Good, Old
  <2>7. Fresh(c)'
    BY <1>2, <2>1, <2>6, FreshQuiet DEF Quiet
  <2>8. ASSUME NEW d \in Chats, d # c PROVE Fresh(d)'
    <3>1. hpc'[d] = hpc[d] /\ (d \in skip' <=> d \in skip)
      BY <1>1, <1>4, <2>8 DEF TypingFails, TypeOK
    <3>2. ledger'.back[d] = ledger.back[d] /\ ledger'.lost[d] = ledger.lost[d]
      BY <1>1, <2>1, <2>8, ReadKeeps
    <3>3. QED
      BY <2>1, <2>2, <3>1, <3>2, FreshFrame DEF Patient
  <2>9. QED
    BY <2>7, <2>8
<1>5. CASE BeginTurn(c)
  <2>0. PICK t \in Turns : t = hturn[c]
    BY <1>1, <1>5 DEF BeginTurn, TypeOK
  <2>1. t \in Turns /\ tchat[t] = None /\ tpc[t] = "new" /\ c # None
    <3>1. c # None
      BY ConstantsOK
    <3>2. hpc[c] = "preparing"
      BY <1>5 DEF BeginTurn
    <3>3. QED
      BY <1>1, <2>0, <3>1, <3>2 DEF Names
  <2> PICK h \in Histories(c) :
        /\ tctx' = [tctx EXCEPT ![t] = Restored(c, h)]
        /\ ledger' = [Read(c, h) EXCEPT !.since[c] = @ \union {t}]
    BY <1>5, <2>0 DEF BeginTurn
  <2>2. /\ hpc'[c] = "receiving" /\ \A d \in Chats : d # c => hpc'[d] = hpc[d]
        /\ UNCHANGED <<sessions, chan, hctx>>
        /\ \A d \in Chats : d # c => (d \in skip' <=> d \in skip) /\ db'[d] = db[d]
    BY <1>1, <1>5 DEF BeginTurn, TypeOK
  <2>3. /\ tchat'[t] = c /\ tpc'[t] = "running" /\ tctx'[t] = Restored(c, h)
        /\ \A u \in Turns : u # t =>
             tchat'[u] = tchat[u] /\ tpc'[u] = tpc[u] /\ tctx'[u] = tctx[u]
    BY <1>1, <1>5, <2>0, <2>1 DEF BeginTurn, TypeOK
  <2>4. /\ ledger'.since[c] = ledger.since[c] \union {t} /\ ledger'.chosen = ledger.chosen
        /\ ledger'.back[c] = ledger.back[c] /\ ledger'.lost[c] = Read(c, h).lost[c]
        /\ \A d \in Chats : d # c =>
             /\ ledger'.since[d] = ledger.since[d]
             /\ ledger'.back[d] = ledger.back[d] /\ ledger'.lost[d] = ledger.lost[d]
    <3>1. /\ Read(c, h) \in Ledger /\ Read(c, h).since = ledger.since
          /\ Read(c, h).chosen = ledger.chosen /\ Read(c, h).back = ledger.back
          /\ \A d \in Chats : d # c => Read(c, h).lost[d] = ledger.lost[d]
      BY <1>1, ReadTypes DEF Read, Ledger
    <3>2. QED
      BY <3>1 DEF Ledger
  <2>5. ASSUME NEW d \in Chats, d # c PROVE Fresh(d)'
    <3>1. \A u \in Turns :
            /\ tchat'[u] = d <=> tchat[u] = d
            /\ tchat[u] = d => tpc'[u] = tpc[u] /\ tctx'[u] = tctx[u]
      BY <2>1, <2>3, <2>5, ConstantsOK
    <3>2. QED
      BY <2>2, <2>4, <2>5, <3>1, FreshFrame DEF Patient
  <2>6. \A u \in Turns : tchat'[u] = c /\ u # t => tpc'[u] \in {"new", "ended"}
    BY <1>2, <2>3 DEF Quiet
  <2>7. /\ ModelKept => Restored(c, h).model = ledger.chosen[c]
        /\ \A u \in ledger.since[c] \ Read(c, h).lost[c] :
             u \in Restored(c, h).turns \/ Cut(c, u)
        /\ Restored(c, h).turns \subseteq ledger.since[c] \union ledger.back[c]
    BY <1>1, <1>2, ReadTells
  <2>8. \A u : Cut(c, u) => Aged(c, u, t)'
    <3>1. SUFFICES ASSUME NEW u, Cut(c, u) PROVE Aged(c, u, t)'
      OBVIOUS
    <3>2. {v \in Turns \ {t} : tchat[v] = c /\ v > u}' = Later(c, u)
      BY <2>1, <2>3 DEF Later
    <3>3. QED
      BY <3>1, <3>2 DEF Aged, Cut
  <2>9. Begun(c, t)'
    BY <2>3, <2>4, <2>7, <2>8 DEF Begun
  <2>10. ~Quiet(c)'
    BY <2>1, <2>3 DEF Quiet
  <2>11. \A u \in Turns : (tchat[u] = c /\ tpc[u] = "running" => Begun(c, u))'
    BY <2>6, <2>9
  <2>12. \A u \in Turns : (tchat[u] = c => tpc[u] # "storing")'
    BY <2>3, <2>6
  <2>13. Fresh(c)'
    BY <1>2, <2>2, <2>10, <2>11, <2>12 DEF Fresh
  <2>14. QED
    BY <2>5, <2>13
<1>6. QED
  BY <1>3, <1>4, <1>5

(* The handler receives an event or runs and stores approved calls. *)
LEMMA FreshHandles ==
  ASSUME Patient, TypeOK', NEW c \in Chats,
         \/ ReceiveDone(c) \/ ReceiveClosed(c) \/ ReceiveAsk(c)
         \/ ReceiveAskAuto(c) \/ RunApproved(c) \/ StoreApproved(c)
  PROVE  \A d \in Chats : Fresh(d)'
<1> USE DEF task, handler, store
<1>1. TypeOK /\ SeenInv /\ Owned /\ Fresh(c) /\ ledger \in Ledger
  BY DEF Patient, TypeOK
<1>2. /\ UNCHANGED <<skip, db, tpc, tchat, tctx>>
      /\ ledger'.since = ledger.since /\ ledger'.chosen = ledger.chosen
      /\ ledger'.back = ledger.back /\ ledger'.lost = ledger.lost
  BY <1>1 DEF ReceiveDone, ReceiveClosed, ReceiveAsk, ReceiveAskAuto, RunApproved,
    StoreApproved, StartApproved, Ledger
<1>3. ASSUME NEW d \in Chats, d # c PROVE Fresh(d)'
  <2>1. /\ sessions'[d] = sessions[d] /\ hctx'[d] = hctx[d]
        /\ hpc'[d] = hpc[d] /\ chan'[d] = chan[d]
    BY <1>1, <1>3 DEF ReceiveDone, ReceiveClosed, ReceiveAsk, ReceiveAskAuto, RunApproved,
      StoreApproved, StartApproved, SetSession, TypeOK
  <2>2. QED
    BY <1>2, <2>1, FreshFrame DEF Patient
<1>40. /\ \A u : Cut(c, u)' = Cut(c, u)
       /\ \A u, t : Aged(c, u, t)' = Aged(c, u, t)
       /\ \A turns : Tells(c, turns) => Tells(c, turns)'
  <2>1. /\ \A u : Cut(c, u)' = Cut(c, u)
        /\ \A u, t : Aged(c, u, t)' = Aged(c, u, t)
    BY <1>2, SameLater
  <2>2. QED
    BY <1>2, <2>1 DEF Tells
<1>4. \A t \in Turns : /\ tchat'[t] = c /\ tpc'[t] = "running" => Begun(c, t)'
                       /\ tchat'[t] = c /\ tpc'[t] = "storing" => Full(c, tctx[t])'
  BY <1>1, <1>2, <1>40 DEF Fresh, Full, Begun
<1>5. Quiet(c)' => Quiet(c)
  BY <1>2 DEF Quiet
<1>6. hctx[c] \in Ctx /\ None \notin Ctx
  BY <1>1, NoneIsNoCtx DEF TypeOK
<1>7. CASE ReceiveDone(c) \/ ReceiveClosed(c)
  <2>1. hpc'[c] = "idle" /\ chan'[c] = "open" /\ UNCHANGED <<sessions, hctx>>
    BY <1>1, <1>7 DEF ReceiveDone, ReceiveClosed, TypeOK
  <2>2. (Quiet(c) => Good(c, Old(c)))'
    BY <1>1, <1>2, <1>5, <1>40, <2>1 DEF Fresh, Good, Old
  <2>3. QED
    BY <1>3, <1>4, <2>1, <2>2 DEF Fresh
<1>8. CASE ReceiveAsk(c) \/ StoreApproved(c)
  <2>1. hpc'[c] = "idle" /\ chan'[c] = "open" /\ sessions'[c] = hctx[c]
    BY <1>1, <1>8 DEF ReceiveAsk, StoreApproved, SetSession, TypeOK, SeenInv
  <2>2. Good(c, hctx[c])
    BY <1>1, <1>8, FullIsGood DEF ReceiveAsk, StoreApproved, Fresh
  <2>3. Good(c, Old(c))'
    BY <1>2, <1>6, <1>40, <2>1, <2>2 DEF Good, Old
  <2>4. QED
    BY <1>3, <1>4, <2>1, <2>3 DEF Fresh
<1>9. CASE ReceiveAskAuto(c) \/ RunApproved(c)
  <2>1. /\ hpc'[c] \in {"executing", "executed"} /\ chan'[c] = "open" /\ sessions' = sessions
        /\ hctx'[c].model = hctx[c].model
        /\ hctx'[c].turns \in Remains(hctx[c].turns) \union {hctx[c].turns}
    <3>1. CASE ReceiveAskAuto(c)
      BY <1>1, <3>1 DEF ReceiveAskAuto, StartApproved, TypeOK
    <3>2. CASE RunApproved(c)
      <4>1. /\ hpc'[c] = "executed" /\ chan' = chan /\ sessions' = sessions
            /\ hpc[c] = "executing"
        BY <1>1, <3>2 DEF RunApproved, TypeOK
      <4>2. chan[c] = "open"
        BY <1>1, <4>1 DEF SeenInv
      <4>3. QED
        BY <1>1, <3>2, <4>1, <4>2, RunFacts
    <3>3. QED
      BY <1>9, <3>1, <3>2
  <2>2. Good(c, hctx[c])
    BY <1>1, <1>9, FullIsGood DEF ReceiveAskAuto, RunApproved, Fresh
  <2>3. hctx[c].turns \in SUBSET Turns /\ \A v \in hctx[c].turns : tchat[v] = c
    BY <1>1, <1>6 DEF Owned, Ctx
  <2>4. hctx'[c].turns = {} <=> hctx[c].turns = {}
    BY <2>1, <2>3, SomethingRemains, RemainsPart
  <2>5. Tells(c, hctx[c].turns) => Tells(c, hctx'[c].turns)
    <3>1. hctx'[c].turns \subseteq hctx[c].turns
      BY <2>1, <2>3, RemainsPart
    <3>2. \A u \in hctx[c].turns : u \in hctx'[c].turns \/ Cut(c, u)
      BY <2>1, <2>3, CutAway
    <3>3. QED
      BY <3>1, <3>2 DEF Tells
  <2>6. Good(c, hctx[c])'
    BY <1>2, <1>40, <2>1, <2>2, <2>4, <2>5 DEF Good
  <2>7. (Quiet(c) => Good(c, Old(c)))'
    BY <1>1, <1>2, <1>5, <1>40, <2>1 DEF Fresh, Good, Old
  <2>8. QED
    BY <1>3, <1>4, <2>1, <2>6, <2>7 DEF Fresh
<1>10. QED
  BY <1>7, <1>8, <1>9

(* A background task reports its turn, or stores its context. *)
LEMMA FreshTask ==
  ASSUME Patient, TypeOK', NEW t \in Turns, Task(t)
  PROVE  \A d \in Chats : Fresh(d)'
<1> USE DEF task, handler, store
<1>1. TypeOK /\ SeenInv /\ Owned /\ Flow /\ Active(t)
  BY DEF Patient, Task, TaskAnswers, TaskAsks, TaskFails, TaskSends, TaskStores, Active
<1>2. PICK c \in Chats : c = tchat[t]
  BY <1>1 DEF SeenInv, Active
<1>3. Fresh(c)
  BY DEF Patient
<1>4. \A u \in Turns : u # t /\ tchat[u] = c => tpc[u] \in {"new", "ended"}
  BY <1>1, <1>2 DEF Flow, Active, TypeOK
<1>5. UNCHANGED <<skip, db, tchat, hpc, ledger>>
  BY DEF Task, TaskAnswers, TaskAsks, TaskFails, TaskSends, TaskStores
<1>6. tchat'[t] = c /\ tctx[t] \in Ctx
  BY <1>1, <1>2, <1>5 DEF TypeOK
<1>60. /\ \A d \in Chats : \A u : Cut(d, u)' = Cut(d, u)
       /\ \A d \in Chats : \A turns : Tells(d, turns) => Tells(d, turns)'
  <2>1. \A d \in Chats : \A u : Cut(d, u)' = Cut(d, u)
    BY <1>5, SameLater
  <2>2. QED
    BY <1>5, <2>1 DEF Tells
<1>61. \A u : Aged(c, u, t) => Cut(c, u)
  <2>1. SUFFICES ASSUME NEW u, Aged(c, u, t) PROVE Cut(c, u)
    OBVIOUS
  <2> DEFINE others == {v \in Turns \ {t} : tchat[v] = c /\ v > u}
  <2>2. others \in SUBSET Later(c, u) /\ Cardinality(others) >= Held
    BY <2>1 DEF Later, Aged
  <2>3. IsFiniteSet(Later(c, u)) /\ IsFiniteSet(others)
    BY FiniteTurns DEF Later
  <2> HIDE DEF others
  <2>4. Cardinality(others) <= Cardinality(Later(c, u))
    BY <2>2, <2>3, FS_Subset
  <2>5. Cardinality(others) \in Nat /\ Cardinality(Later(c, u)) \in Nat /\ Held \in Nat
    BY <2>3, FS_CardinalityType, ConstantsOK
  <2>6. QED
    BY <2>2, <2>4, <2>5 DEF Cut
<1>7. ASSUME NEW event \in {"done", "asked", "closed"}, NEW ctx \in Ctx, TaskSends(t, event, ctx),
             ctx.turns \in Remains(tctx[t].turns \union {t}), ctx.model = tctx[t].model
      PROVE  \A d \in Chats : Fresh(d)'
  <2>1. /\ tpc[t] = "running" /\ tpc'[t] = "storing" /\ tctx'[t] = ctx
        /\ \A u \in Turns : u # t => tpc'[u] = tpc[u] /\ tctx'[u] = tctx[u]
        /\ \A d \in Chats : d # c => chan'[d] = chan[d] /\ hctx'[d] = hctx[d]
        /\ sessions' = sessions
    BY <1>1, <1>2, <1>7 DEF TaskSends, TypeOK
  <2>2. chan'[c] = "asked" => hctx'[c] = ctx
    BY <1>1, <1>2, <1>7 DEF TaskSends, TypeOK
  <2>3. hpc[c] = "receiving"
    BY <1>1, <1>2, <2>1 DEF SeenInv
  <2>4. Begun(c, t)
    BY <1>2, <1>3, <2>1 DEF Fresh
  <2>5. Full(c, ctx)
    <3> DEFINE S == tctx[t].turns \union {t}
    <3>1. S \in SUBSET Turns /\ S # {} /\ \A v \in S : tchat[v] = c
      BY <1>1, <1>2, <1>6 DEF Owned, Ctx
    <3>2. \A u \in ledger.since[c] \ ledger.lost[c] : u \in S \/ Cut(c, u)
      BY <1>61, <2>4 DEF Begun
    <3>3. S \subseteq ledger.since[c] \union ledger.back[c]
      BY <2>4 DEF Begun
    <3>4. ctx.turns \in Remains(S)
      BY <1>7
    <3>5. ModelKept => ctx.model = ledger.chosen[c]
      BY <1>7, <2>4 DEF Begun
    <3> HIDE DEF S
    <3>6. ctx.turns \subseteq S /\ ctx.turns # {}
      BY <3>1, <3>4, RemainsPart, SomethingRemains
    <3>7. \A u \in S : u \in ctx.turns \/ Cut(c, u)
      BY <3>1, <3>4, CutAway
    <3>8. QED
      BY <3>2, <3>3, <3>5, <3>6, <3>7 DEF Full, Tells
  <2>6. ASSUME NEW d \in Chats, d # c PROVE Fresh(d)'
    BY <1>5, <1>6, <2>1, <2>6, FreshFrame DEF Patient
  <2>7. ~Quiet(c)'
    BY <1>6, <2>1 DEF Quiet
  <2>8. (chan[c] = "asked" => Full(c, hctx[c]))'
    BY <1>5, <1>60, <2>2, <2>5 DEF Full
  <2>9. \A u \in Turns : (tchat[u] = c /\ tpc[u] = "storing" => Full(c, tctx[u]))'
    BY <1>4, <1>5, <1>60, <2>1, <2>5 DEF Full
  <2>10. \A u \in Turns : tchat'[u] = c => tpc'[u] # "running"
    BY <1>4, <1>5, <2>1
  <2>11. (Fresh(c))'
    BY <1>5, <2>3, <2>7, <2>8, <2>9, <2>10 DEF Fresh
  <2>12. QED
    BY <2>6, <2>11
<1>9. CASE TaskAnswers(t)
  BY <1>1, <1>7, <1>9, WithTurnFacts DEF TaskAnswers
<1>10. CASE TaskAsks(t)
  <2> PICK w \in WithTurn(t) :
        TaskSends(t, "asked", [w EXCEPT !.open = @ \union {t}, !.pend = {t}])
    BY <1>10 DEF TaskAsks
  <2> DEFINE ctx == [w EXCEPT !.open = @ \union {t}, !.pend = {t}]
  <2>0. w \in Ctx /\ w.open \union {t} \in SUBSET Turns /\ {t} \in SUBSET Turns
    BY <1>1, WithTurnFacts DEF Ctx
  <2>1. ctx \in Ctx /\ ctx.turns = w.turns /\ ctx.model = w.model
    BY <2>0 DEF Ctx
  <2>2. TaskSends(t, "asked", ctx)
    OBVIOUS
  <2> HIDE DEF ctx
  <2>3. QED
    BY <1>1, <1>7, <2>1, <2>2, WithTurnFacts
<1>11. CASE TaskFails(t)
  <2> PICK w \in WithTurn(t), dangling \in {{}, {t}} :
        TaskSends(t, "closed", [w EXCEPT !.open = @ \union dangling])
    BY <1>11 DEF TaskFails
  <2> DEFINE ctx == [w EXCEPT !.open = @ \union dangling]
  <2>0. w \in Ctx /\ w.open \union dangling \in SUBSET Turns
    BY <1>1, WithTurnFacts DEF Ctx
  <2>1. ctx \in Ctx /\ ctx.turns = w.turns /\ ctx.model = w.model
    BY <2>0, OtherCalls
  <2>2. TaskSends(t, "closed", ctx)
    OBVIOUS
  <2> HIDE DEF ctx
  <2>3. QED
    BY <1>1, <1>7, <2>1, <2>2, WithTurnFacts
<1>12. CASE TaskStores(t)
  <2>1. /\ tpc[t] = "storing" /\ tpc'[t] = "ended" /\ sessions'[c] = tctx[t]
        /\ \A u \in Turns : u # t => tpc'[u] = tpc[u] /\ tctx'[u] = tctx[u]
        /\ \A d \in Chats : d # c => sessions'[d] = sessions[d]
        /\ UNCHANGED <<chan, hctx>>
    BY <1>1, <1>2, <1>12 DEF TaskStores, SetSession, TypeOK
  <2>2. ASSUME NEW d \in Chats, d # c PROVE Fresh(d)'
    BY <1>5, <1>6, <2>1, <2>2, FreshFrame DEF Patient
  <2>3. Good(c, tctx[t])
    BY <1>3, <2>1, <1>2, FullIsGood DEF Fresh
  <2>4. Good(c, Old(c))'
    <3>1. tctx[t] # None /\ Old(c)' = tctx[t]
      BY <1>6, <2>1, NoneIsNoCtx DEF Old
    <3>2. QED
      BY <1>5, <1>60, <2>1, <2>3, <3>1 DEF Good
  <2>5. \A u \in Turns : tchat'[u] = c => tpc'[u] \in {"new", "ended"}
    BY <1>4, <1>5, <2>1
  <2>6. (hpc[c] \in {"executing", "executed"} => Good(c, hctx[c]))'
        /\ (chan[c] = "asked" => Full(c, hctx[c]))'
    BY <1>3, <1>5, <1>60, <2>1 DEF Fresh, Good, Full
  <2>7. Fresh(c)'
    BY <2>4, <2>5, <2>6 DEF Fresh
  <2>8. QED
    BY <2>2, <2>7
<1>13. QED
  BY <1>9, <1>10, <1>11, <1>12 DEF Task

LEMMA FreshRestart ==
  ASSUME Patient, TypeOK', Restart
  PROVE  \A d \in Chats : Fresh(d)'
<1> SUFFICES ASSUME NEW c \in Chats PROVE Fresh(c)'
  OBVIOUS
<1>1. TypeOK /\ ledger \in Ledger
  BY DEF Patient, TypeOK
<1>2. /\ sessions'[c] = None /\ skip' = {} /\ hpc'[c] = "idle" /\ chan'[c] = "open"
      /\ db' = db /\ tchat' = tchat /\ ledger'.since[c] = ledger.since[c]
      /\ ledger'.chosen[c] = DefaultModel /\ ledger'.back[c] = ledger.back[c] \union db[c]
      /\ ledger'.lost[c] = ledger.lost[c] \union (ledger.since[c] \ db[c])
  BY <1>1 DEF Restart, Ledger
<1>3. Quiet(c)'
  BY DEF Restart, Quiet
<1>4. Tells(c, db[c])'
  BY <1>2 DEF Tells
<1>5. Good(c, Old(c))'
  BY <1>2, <1>4 DEF Good, Old, NewCtx
<1>6. QED
  BY <1>2, <1>3, <1>5, FreshQuiet

(* With a user who waits, every turn starts from the conversation and from the
   model the user chose.  The invariant holds wherever the conversation is: in
   the stored session while the chat is quiet, in the handler's clone while it
   runs approved calls or has a request in flight, and in the task's clone while
   a turn runs or waits to be stored. *)
LEMMA PatientInvariant ==
  ASSUME PatientUser
  PROVE  Spec => [](TypeOK /\ SeenInv /\ Patient)
<1>1. Init => Flow /\ \A c \in Chats : Fresh(c)
  BY DEF Init, Flow, Active, Fresh, Quiet, Good, Tells, Old, NewCtx
<1>2. TypeOK /\ TypeOK' /\ Patient /\ [Next]_vars => Flow' /\ \A c \in Chats : Fresh(c)'
  <2> SUFFICES ASSUME TypeOK, TypeOK', Patient, [Next]_vars
               PROVE  Flow' /\ \A c \in Chats : Fresh(c)'
    OBVIOUS
  <2>1. Flow'
    BY FlowStep DEF Patient
  <2>2. CASE UNCHANGED vars
    <3>1. \A c \in Chats : Fresh(c) => Fresh(c)'
      BY <2>2, FreshFrame DEF vars, store, handler, task
    <3>2. QED
      BY <2>1, <3>1 DEF Patient
  <2>3. QED
    BY <2>1, <2>2, FreshUser, FreshBegins, FreshHandles, FreshTask, FreshRestart DEF Next, Handle, HandleWithoutAgent
<1>3. TypeOK /\ SeenInv /\ Names /\ Owned /\ Flow /\ (\A c \in Chats : Fresh(c)) => Patient
  BY DEF Patient
<1>4. Patient => Flow /\ \A c \in Chats : Fresh(c)
  BY DEF Patient
<1> DEFINE AllFresh == \A c \in Chats : Fresh(c)
<1>5. (Init => Flow /\ AllFresh)
      /\ (TypeOK /\ TypeOK' /\ Patient /\ [Next]_vars => Flow' /\ AllFresh')
      /\ (TypeOK /\ SeenInv /\ Names /\ Owned /\ Flow /\ AllFresh => Patient)
  BY <1>1, <1>2, <1>3
<1> HIDE DEF AllFresh
<1>6. QED
  BY <1>5, OwnedInvariant, PTL DEF Spec

(* TurnsAreSeen with users who wait, whatever fails: wherever a turn's context
   comes from, it tells the conversation within the limits. *)
THEOREM TurnsSeeTheConversation ==
  ASSUME PatientUser
  PROVE  Spec => []TurnsAreSeen
<1>1. TypeOK /\ SeenInv /\ Patient => TurnsAreSeen
  <2> SUFFICES ASSUME TypeOK, SeenInv, Patient, NEW t \in Turns, tpc[t] = "running"
               PROVE  Begun(tchat[t], t)
    BY DEF TurnsAreSeen, NoLostTurn, NoForgottenTurn, Begun
  <2>1. tchat[t] \in Chats
    BY DEF SeenInv
  <2>2. QED
    BY <2>1 DEF Patient, Fresh
<1>2. QED
  BY <1>1, PatientInvariant, PTL

(* ModelSticks, whatever fails and whether or not subagents are asked for, as
   long as the model is set in a chat that has a session. *)
THEOREM TheChosenModelRuns ==
  ASSUME PatientUser, ModelKept
  PROVE  Spec => []ModelSticks
<1>1. TypeOK /\ SeenInv /\ Patient => ModelSticks
  <2> SUFFICES ASSUME TypeOK, SeenInv, Patient, NEW t \in Turns, tpc[t] = "running"
               PROVE  tctx[t].model = ledger.chosen[tchat[t]]
    BY DEF ModelSticks
  <2>1. tchat[t] \in Chats /\ tctx[t] \in Ctx
    BY DEF SeenInv, TypeOK
  <2>2. QED
    BY <2>1 DEF Patient, Fresh, Begun
<1>2. QED
  BY <1>1, PatientInvariant, PTL

-----------------------------------------------------------------------------
(* Approvals are settled once.  Beside the patience of the users this needs that
   the approval mode does not change under a request that is on its way: no
   other chat may switch it, or nobody does. *)
ModeKept == "mode" \notin UserDoes \/ \A c, d \in Chats : c = d

Settled == ledger.run \union ledger.denied

Over(t) == tpc[t] \in {"storing", "ended"}

Unsettled(c) == {t \in Turns : tchat[t] = c /\ Over(t) /\ t \notin Settled}

(* Every copy of a chat's context that an approval can still be taken from. *)
Live(c) ==
  /\ sessions[c] # None /\ hpc[c] \notin {"executing", "executed"} =>
       sessions[c].pend \subseteq Unsettled(c)
  /\ hpc[c] = "executing" => hctx[c].pend \subseteq Unsettled(c)
  /\ chan[c] = "asked" => hctx[c].pend \subseteq Unsettled(c)
  /\ \A t \in Turns : tchat[t] = c /\ Active(t) => tctx[t].pend \subseteq Unsettled(c)
  /\ hpc[c] \in {"executing", "executed"} => Quiet(c)

Settling ==
  /\ \A t \in Settled : Over(t)
  /\ \A c \in Chats : chan[c] = "asked" => ~AutoMode
  /\ \A t \in Turns : tpc[t] = "running" /\ t \notin tauto => ~AutoMode
  /\ ~ledger.again

Waiting == Patient /\ Settling /\ \A c \in Chats : Live(c)

(* A turn that is over stays over. *)
LEMMA OverStep ==
  ASSUME TypeOK, Names, [Next]_vars, NEW t \in Turns, Over(t)
  PROVE  Over(t)'
<1> USE DEF task, handler, store, Over
<1>1. ASSUME NEW c \in Chats, Command(c) \/ Text(c) PROVE Over(t)'
  BY <1>1, UserStep
<1>2. ASSUME NEW c \in Chats, BeginTurn(c) PROVE Over(t)'
  <2>1. hpc[c] = "preparing" /\ tpc' = [tpc EXCEPT ![hturn[c]] = "running"]
    BY <1>2 DEF BeginTurn
  <2>2. hturn[c] # t
    BY <2>1 DEF Names
  <2>3. QED
    BY <2>1, <2>2 DEF TypeOK
<1>3. ASSUME NEW c \in Chats, Handle(c), ~BeginTurn(c) PROVE Over(t)'
  BY <1>3 DEF Handle, HandleWithoutAgent, RequestSubagent, TypingFails, ReceiveDone, ReceiveClosed,
    ReceiveAsk, ReceiveAskAuto, RunApproved, StoreApproved, StartApproved
<1>4. ASSUME NEW u \in Turns, Task(u) PROVE Over(t)'
  BY <1>4 DEF Task, TaskAnswers, TaskAsks, TaskFails, TaskSends, TaskStores, TypeOK
<1>5. CASE Restart
  BY <1>5 DEF Restart
<1>6. CASE UNCHANGED vars
  BY <1>6 DEF vars
<1>7. QED
  BY <1>1, <1>2, <1>3, <1>4, <1>5, <1>6 DEF Next

(* A step that settles nothing of a chat. *)
LEMMA UnsettledStay ==
  ASSUME TypeOK, Names, [Next]_vars, NEW c \in Chats,
         \A t \in Turns : tchat[t] = c /\ t \in Settled' => t \in Settled
  PROVE  Unsettled(c) \subseteq Unsettled(c)'
<1>1. OwnersStay /\ c # None
  BY NamesStep, ConstantsOK
<1>2. QED
  BY <1>1, OverStep DEF Unsettled, OwnersStay

(* A chat nothing happens to. *)
LEMMA LiveFrame ==
  ASSUME NEW c \in Chats, Live(c), Unsettled(c) \subseteq Unsettled(c)',
         sessions'[c] = sessions[c], hctx'[c] = hctx[c],
         hpc'[c] \in {"executing", "executed"} <=> hpc[c] \in {"executing", "executed"},
         hpc'[c] = "executing" => hpc[c] = "executing",
         chan'[c] = "asked" => chan[c] = "asked",
         \A t \in Turns :
           /\ tchat'[t] = c <=> tchat[t] = c
           /\ tchat[t] = c => tpc'[t] = tpc[t] /\ tctx'[t] = tctx[t]
  PROVE  Live(c)'
<1>1. Quiet(c) => Quiet(c)'
  BY DEF Quiet
<1>2. \A t \in Turns : (tchat[t] = c /\ Active(t) => tctx[t].pend \subseteq Unsettled(c))'
  BY DEF Live, Active
<1>3. QED
  BY <1>1, <1>2 DEF Live

(* A chat with no task that has a context to store. *)
LEMMA LiveQuiet ==
  ASSUME NEW c \in Chats, Quiet(c)', chan'[c] # "asked",
         sessions'[c] # None /\ hpc'[c] \notin {"executing", "executed"} =>
           sessions'[c].pend \subseteq Unsettled(c)',
         hpc'[c] = "executing" => hctx'[c].pend \subseteq Unsettled(c)'
  PROVE  Live(c)'
BY DEF Live, Quiet, Active

LEMMA LiveUser ==
  ASSUME Waiting, NEW c \in Chats, Command(c) \/ Text(c)
  PROVE  \A d \in Chats : Live(d)'
<1> USE DEF task, handler, store
<1>1. TypeOK /\ SeenInv /\ Names /\ Live(c) /\ PatientUser /\ ledger \in Ledger /\ [Next]_vars
  BY DEF Waiting, Patient, TypeOK, Next
<1>2. /\ hpc[c] = "idle" /\ Quiet(c) /\ chan[c] = "open"
      /\ UNCHANGED <<db, tpc, tchat, tctx, tauto>>
  BY <1>1, UserStep DEF UserActs, SeenInv
<1>3. Quiet(c)' /\ (sessions[c] # None => sessions[c].pend \subseteq Unsettled(c))
  BY <1>1, <1>2 DEF Quiet, Live
<1>4. NewCtx.pend = {} /\ (sessions[c] # None => sessions[c] \in Ctx)
  BY <1>1, ContextTypes DEF NewCtx
<1>5. \/ ledger'.run = ledger.run /\ ledger'.denied = ledger.denied
      \/ /\ ledger'.run = ledger.run /\ ledger'.denied = ledger.denied \union sessions[c].pend
         /\ HasPending(c) /\ DenyPending(c)
  BY <1>1 DEF Command, Text, Reset, Forgotten, SetModel, ApprovalMode, ApproveSubagent,
    DenySubagent, Approve, Deny, TextStartsSubagent, TextDenies, TextApproves, TextForTurn,
    Ledger
<1>6. ASSUME NEW d \in Chats, d # c PROVE Live(d)'
  <2>1. Live(d)
    BY DEF Waiting
  <2>2. sessions'[d] = sessions[d]
    BY <1>1, <1>6 DEF Command, Text, Reset, Forgotten, SetModel, ApprovalMode, ApproveSubagent,
      DenySubagent, Approve, Deny, TextStartsSubagent, TextDenies, TextApproves, TextForTurn,
      StartApproved, DenyPending, SetSession, TypeOK
  <2>3. hctx'[d] = hctx[d] /\ hpc'[d] = hpc[d] /\ chan'[d] = chan[d]
    BY <1>1, <1>6 DEF Command, Text, Reset, Forgotten, SetModel, ApprovalMode, ApproveSubagent,
      DenySubagent, Approve, Deny, TextStartsSubagent, TextDenies, TextApproves, TextForTurn,
      StartApproved, DenyPending, TypeOK
  <2>4. \A t \in Turns : tchat[t] = d /\ t \in Settled' => t \in Settled
    BY <1>3, <1>5, <1>6 DEF Settled, Unsettled, HasPending
  <2>5. QED
    BY <1>1, <1>2, <2>1, <2>2, <2>3, <2>4, UnsettledStay, LiveFrame
<1>7. ASSUME Settled' = Settled, chan'[c] = "open",
             sessions'[c] # None => sessions'[c].pend = {} \/ sessions'[c].pend = sessions[c].pend,
             sessions'[c] # None /\ sessions'[c].pend # {} => sessions[c] # None,
             hpc'[c] = "executing" => hctx'[c].pend \subseteq Unsettled(c)
      PROVE  Live(c)'
  BY <1>1, <1>3, <1>7, UnsettledStay, LiveQuiet
<1>8. CASE Reset(c)
  <2>1. sessions'[c] = None /\ hpc' = hpc /\ chan' = chan /\ Settled' = Settled
    BY <1>1, <1>8 DEF Reset, Forgotten, SetSession, TypeOK, Ledger, Settled
  <2>2. QED
    BY <1>2, <1>6, <1>7, <2>1
<1>9. ASSUME NEW m \in Models, SetModel(c, m) PROVE Live(c)'
  <2>1. hpc' = hpc /\ chan' = chan /\ Settled' = Settled
    BY <1>1, <1>9 DEF SetModel, Ledger, Settled
  <2>2. \/ sessions' = sessions
        \/ sessions[c] # None /\ sessions'[c] = [sessions[c] EXCEPT !.model = m]
    BY <1>1, <1>9 DEF SetModel, SetSession, TypeOK
  <2>3. sessions'[c] # None => sessions[c] # None /\ sessions'[c].pend = sessions[c].pend
    BY <1>4, <2>2 DEF Ctx
  <2>4. QED
    BY <1>2, <1>7, <2>1, <2>3
<1>10. CASE \/ \E mode \in {"auto", "manual"} : ApprovalMode(c, mode)
            \/ DenySubagent(c) \/ ApproveSubagent(c)
            \/ \E say \in UserDoes \intersect Says : TextForTurn(c, say)
  <2>1. chan' = chan /\ Settled' = Settled /\ hpc'[c] # "executing"
    BY <1>1, <1>2, <1>10 DEF ApprovalMode, DenySubagent, ApproveSubagent, TextForTurn, Settled, TypeOK
  <2>2. sessions'[c] = sessions[c] \/ (sessions[c] = None /\ sessions'[c] = NewCtx)
    BY <1>1, <1>10 DEF ApprovalMode, DenySubagent, ApproveSubagent, TextForTurn, SetSession, TypeOK
  <2>3. QED
    BY <1>2, <1>4, <1>6, <1>7, <2>1, <2>2
<1>11. ASSUME HasPending(c), StartApproved(c, sessions[c]), Settled' = Settled
       PROVE  Live(c)'
  <2>1. /\ hpc'[c] = "executing" /\ chan'[c] = "open" /\ hctx'[c] = sessions[c]
        /\ sessions' = sessions
    BY <1>1, <1>11 DEF StartApproved, TypeOK
  <2>2. QED
    BY <1>3, <1>7, <1>11, <2>1 DEF HasPending
<1>12. ASSUME HasPending(c), DenyPending(c) PROVE Live(c)'
  <2>1. sessions'[c] = [sessions[c] EXCEPT !.pend = {}] /\ UNCHANGED <<hpc, chan>>
    BY <1>1, <1>12 DEF DenyPending, SetSession, TypeOK
  <2>2. sessions'[c].pend = {}
    BY <1>4, <1>12, <2>1 DEF HasPending, Ctx
  <2>3. QED
    BY <1>2, <1>3, <2>1, <2>2, LiveQuiet
<1>13. CASE Approve(c) \/ \E say \in UserDoes \intersect Says : TextApproves(c, say)
  <2>1. Settled' = Settled
    BY <1>1, <1>13 DEF Approve, TextApproves, Ledger, Settled
  <2>2. HasPending(c) /\ StartApproved(c, sessions[c])
    BY <1>13 DEF Approve, TextApproves
  <2>3. QED
    BY <1>6, <1>11, <2>1, <2>2
<1>14. QED
  BY <1>6, <1>8, <1>9, <1>10, <1>12, <1>13
     DEF Command, Text, TextStartsSubagent, Deny, TextDenies

(* Only running the approved calls settles any of them. *)
LEMMA HandlerKeeps ==
  ASSUME TypeOK, NEW c \in Chats, Handle(c), ~RunApproved(c)
  PROVE  ledger'.run = ledger.run /\ ledger'.denied = ledger.denied
         /\ ledger'.again = ledger.again
<1>1. CASE RequestSubagent(c)
  BY <1>1, ReadKeeps DEF RequestSubagent
<1>2. CASE TypingFails(c)
  BY <1>2, ReadKeeps DEF TypingFails
<1>3. CASE BeginTurn(c)
  BY <1>3, BeginKeeps
<1>4. CASE ReceiveAsk(c) \/ ReceiveAskAuto(c)
  BY <1>4 DEF ReceiveAsk, ReceiveAskAuto, TypeOK, Ledger
<1>5. CASE UNCHANGED ledger
  BY <1>5
<1>6. QED
  BY <1>1, <1>2, <1>3, <1>4, <1>5
     DEF Handle, HandleWithoutAgent, ReceiveDone, ReceiveClosed, StoreApproved

LEMMA LiveHandler ==
  ASSUME Waiting, TypeOK', NEW c \in Chats, Handle(c)
  PROVE  \A d \in Chats : Live(d)'
<1> USE DEF task, handler, store
<1>1. /\ TypeOK /\ SeenInv /\ Names /\ Flow /\ Live(c) /\ ledger \in Ledger
      /\ [Next]_vars /\ None \notin Chats
  BY ConstantsOK DEF Waiting, Patient, TypeOK, Next
<1>2. hctx[c] \in Ctx /\ None \notin Ctx
  BY <1>1, NoneIsNoCtx DEF TypeOK
<1>3. /\ \A d \in Chats : d # c =>
           sessions'[d] = sessions[d] /\ hctx'[d] = hctx[d] /\ hpc'[d] = hpc[d] /\ chan'[d] = chan[d]
  BY <1>1 DEF Handle, HandleWithoutAgent, RequestSubagent, TypingFails, BeginTurn, ReceiveDone, ReceiveClosed,
    ReceiveAsk, ReceiveAskAuto, RunApproved, StoreApproved, StartApproved, SetSession, TypeOK
<1>4. Settled' = Settled \/ (RunApproved(c) /\ Settled' = Settled \union hctx[c].pend)
  <2>1. CASE RunApproved(c)
    <3>1. ledger'.run = ledger.run \union hctx[c].pend /\ ledger'.denied = ledger.denied
      BY <1>1, <2>1 DEF RunApproved, Ledger
    <3>2. QED
      BY <2>1, <3>1 DEF Settled
  <2>2. CASE ~RunApproved(c)
    BY <1>1, <2>2, HandlerKeeps DEF Settled
  <2>3. QED
    BY <2>1, <2>2
<1>5. RunApproved(c) => hctx[c].pend \subseteq Unsettled(c) /\ Quiet(c)
  BY <1>1 DEF RunApproved, Live
<1>6. \A d \in Chats : d # c => Unsettled(d) \subseteq Unsettled(d)'
  <2>1. \A d \in Chats : d # c => \A t \in Turns : tchat[t] = d /\ t \in Settled' => t \in Settled
    BY <1>4, <1>5 DEF Unsettled
  <2>2. QED
    BY <1>1, <2>1, UnsettledStay
<1>7. ~RunApproved(c) => Unsettled(c) \subseteq Unsettled(c)'
  BY <1>1, <1>4, UnsettledStay
<1>8. ASSUME UNCHANGED <<tpc, tchat, tctx>>, Live(c)' PROVE \A d \in Chats : Live(d)'
  <2>1. \A d \in Chats : d # c => Live(d)'
    BY <1>3, <1>6, <1>8, LiveFrame DEF Waiting
  <2>2. QED
    BY <1>8, <2>1
<1>9. CASE RequestSubagent(c) \/ TypingFails(c)
  <2>1. /\ UNCHANGED <<chan, hctx, tpc, tchat, tctx>> /\ hpc'[c] = "idle"
        /\ chan[c] = "open" /\ Quiet(c) /\ hpc[c] \in {"preparing", "requesting"}
    BY <1>1, <1>9 DEF RequestSubagent, TypingFails, Flow, SeenInv, TypeOK
  <2>2. \/ sessions'[c] = sessions[c]
        \/ \E h \in Histories(c) : sessions'[c] = Restored(c, h)
    BY <1>1, <1>9 DEF RequestSubagent, TypingFails, SetSession, TypeOK
  <2>3. sessions'[c] # None /\ sessions'[c].pend # {} =>
          sessions[c] # None /\ sessions'[c].pend = sessions[c].pend
    BY <1>1, <2>2, RestoredPending
  <2>4. sessions'[c] # None => sessions'[c].pend \subseteq Unsettled(c)'
    BY <1>1, <1>7, <1>9, <2>1, <2>3 DEF Live, RunApproved
  <2>5. Quiet(c)'
    BY <2>1 DEF Quiet
  <2>6. QED
    BY <1>8, <2>1, <2>4, <2>5, LiveQuiet
<1>10. CASE BeginTurn(c)
  <2>0. PICK t \in Turns : t = hturn[c]
    BY <1>1, <1>10 DEF BeginTurn, TypeOK
  <2>1. hpc[c] = "preparing" /\ tchat[t] = None /\ Quiet(c) /\ chan[c] = "open"
    BY <1>1, <1>10, <2>0 DEF BeginTurn, Names, Flow, SeenInv
  <2> PICK h \in Histories(c) : tctx' = [tctx EXCEPT ![t] = Restored(c, h)]
    BY <1>10, <2>0 DEF BeginTurn
  <2>2. hpc'[c] = "receiving" /\ UNCHANGED <<sessions, chan, hctx>>
    BY <1>1, <1>10 DEF BeginTurn, TypeOK
  <2>3. /\ tchat'[t] = c /\ tpc'[t] = "running" /\ tctx'[t] = Restored(c, h)
        /\ \A u \in Turns : u # t =>
             tchat'[u] = tchat[u] /\ tpc'[u] = tpc[u] /\ tctx'[u] = tctx[u]
    BY <1>1, <1>10, <2>0, <2>1 DEF BeginTurn, TypeOK
  <2>4. ASSUME NEW d \in Chats, d # c PROVE Live(d)'
    <3>1. \A u \in Turns :
            /\ tchat'[u] = d <=> tchat[u] = d
            /\ tchat[u] = d => tpc'[u] = tpc[u] /\ tctx'[u] = tctx[u]
      BY <1>1, <2>1, <2>3, <2>4
    <3>2. Live(d)
      BY DEF Waiting
    <3>3. QED
      BY <1>3, <1>6, <2>4, <3>1, <3>2, LiveFrame
  <2>5. Unsettled(c) \subseteq Unsettled(c)'
    BY <1>7, <2>1 DEF RunApproved
  <2>6. sessions[c] # None => sessions[c].pend \subseteq Unsettled(c)'
    BY <1>1, <2>1, <2>5 DEF Live
  <2>7. tctx'[t].pend \subseteq Unsettled(c)'
    BY <1>1, <2>3, <2>6, RestoredPending
  <2>8. \A u \in Turns : (tchat[u] = c /\ Active(u) => tctx[u].pend \subseteq Unsettled(c))'
    BY <2>1, <2>3, <2>7 DEF Quiet, Active
  <2>9. Live(c)'
    BY <2>1, <2>2, <2>6, <2>8 DEF Live
  <2>10. QED
    BY <2>4, <2>9
<1>11. \A t \in Turns : ~RunApproved(c) /\ UNCHANGED <<tpc, tchat, tctx>> =>
         (tchat[t] = c /\ Active(t) => tctx[t].pend \subseteq Unsettled(c))'
  BY <1>1, <1>7 DEF Live, Active
<1>12. CASE ReceiveDone(c) \/ ReceiveClosed(c)
  <2>1. /\ hpc[c] = "receiving" /\ hpc'[c] = "idle" /\ chan'[c] = "open"
        /\ UNCHANGED <<sessions, hctx, tpc, tchat, tctx>>
    BY <1>1, <1>12 DEF ReceiveDone, ReceiveClosed, TypeOK
  <2>2. ~RunApproved(c)
    BY <2>1 DEF RunApproved
  <2>3. sessions'[c] # None => sessions'[c].pend \subseteq Unsettled(c)'
    BY <1>1, <1>7, <2>1, <2>2 DEF Live
  <2>4. Live(c)'
    BY <1>11, <2>1, <2>2, <2>3 DEF Live
  <2>5. QED
    BY <1>8, <2>1, <2>4
<1>13. CASE ReceiveAsk(c) \/ StoreApproved(c)
  <2>1. /\ hpc[c] # "executing" /\ hpc'[c] = "idle" /\ chan'[c] = "open" /\ sessions'[c] = hctx[c]
        /\ UNCHANGED <<tpc, tchat, tctx>>
    BY <1>1, <1>13 DEF ReceiveAsk, StoreApproved, SetSession, TypeOK, SeenInv
  <2>2. ~RunApproved(c)
    BY <2>1 DEF RunApproved
  <2>3. hctx[c].pend \subseteq Unsettled(c)
    BY <1>1, <1>13 DEF ReceiveAsk, StoreApproved, Live, SeenInv
  <2>4. sessions'[c].pend \subseteq Unsettled(c)'
    BY <1>7, <2>1, <2>2, <2>3
  <2>5. Live(c)'
    BY <1>11, <2>1, <2>2, <2>4 DEF Live
  <2>6. QED
    BY <1>8, <2>1, <2>5
<1>14. CASE ReceiveAskAuto(c)
  BY <1>14 DEF ReceiveAskAuto, Waiting, Settling
<1>15. CASE RunApproved(c)
  <2>1. /\ hpc'[c] = "executed" /\ chan'[c] = "open" /\ UNCHANGED <<tpc, tchat, tctx>>
    BY <1>1, <1>15 DEF RunApproved, TypeOK, SeenInv
  <2>2. Quiet(c)'
    BY <1>5, <1>15, <2>1 DEF Quiet
  <2>3. QED
    BY <1>8, <2>1, <2>2, LiveQuiet
<1>16. QED
  BY <1>9, <1>10, <1>12, <1>13, <1>14, <1>15 DEF Handle, HandleWithoutAgent

LEMMA LiveTask ==
  ASSUME Waiting, TypeOK', NEW t \in Turns, Task(t)
  PROVE  \A d \in Chats : Live(d)'
<1> USE DEF task, handler, store
<1>1. TypeOK /\ SeenInv /\ Names /\ Flow /\ Active(t) /\ [Next]_vars
  BY DEF Waiting, Patient, Task, TaskAnswers, TaskAsks, TaskFails, TaskSends, TaskStores,
         Active, Next
<1>2. PICK c \in Chats : c = tchat[t]
  BY <1>1 DEF SeenInv, Active
<1>3. Live(c)
  BY DEF Waiting
<1>4. \A u \in Turns : u # t /\ tchat[u] = c => tpc[u] \in {"new", "ended"}
  BY <1>1, <1>2 DEF Flow, Active, TypeOK
<1>5. UNCHANGED <<tchat, hpc, ledger>>
  BY DEF Task, TaskAnswers, TaskAsks, TaskFails, TaskSends, TaskStores
<1>6. tchat'[t] = c /\ tctx[t] \in Ctx
  BY <1>1, <1>2, <1>5 DEF TypeOK
<1>7. \A d \in Chats : Unsettled(d) \subseteq Unsettled(d)'
  BY <1>1, <1>5, UnsettledStay DEF Settled
<1>8. ~Quiet(c) /\ tctx[t].pend \subseteq Unsettled(c)
  BY <1>1, <1>2, <1>3 DEF Quiet, Active, Live
<1>9. hpc[c] \notin {"executing", "executed"}
  BY <1>3, <1>8 DEF Live
<1>10. ASSUME NEW event \in {"done", "asked", "closed"}, NEW ctx \in Ctx, TaskSends(t, event, ctx),
              ctx.pend = tctx[t].pend \/ ctx.pend = {t}
       PROVE  \A d \in Chats : Live(d)'
  <2>1. /\ tpc[t] = "running" /\ tpc'[t] = "storing" /\ tctx'[t] = ctx
        /\ \A u \in Turns : u # t => tpc'[u] = tpc[u] /\ tctx'[u] = tctx[u]
        /\ \A d \in Chats : d # c => chan'[d] = chan[d] /\ hctx'[d] = hctx[d]
        /\ sessions' = sessions
    BY <1>1, <1>2, <1>10 DEF TaskSends, TypeOK
  <2>2. chan'[c] = "asked" => hctx'[c] = ctx
    BY <1>1, <1>2, <1>10 DEF TaskSends, TypeOK
  <2>3. t \notin Settled
    BY <2>1 DEF Waiting, Settling, Over
  <2>4. t \in Unsettled(c)'
    BY <1>5, <1>6, <2>1, <2>3 DEF Unsettled, Over, Settled
  <2>5. ctx.pend \subseteq Unsettled(c)'
    BY <1>7, <1>8, <1>10, <2>4
  <2>6. ASSUME NEW d \in Chats, d # c PROVE Live(d)'
    BY <1>5, <1>6, <1>7, <2>1, <2>6, LiveFrame DEF Waiting
  <2>7. \A u \in Turns : (tchat[u] = c /\ Active(u) => tctx[u].pend \subseteq Unsettled(c))'
    BY <1>4, <1>5, <2>1, <2>5 DEF Active
  <2>8. Live(c)'
    BY <1>3, <1>5, <1>7, <1>9, <2>1, <2>2, <2>5, <2>7 DEF Live
  <2>9. QED
    BY <2>6, <2>8
<1>11. \A w \in WithTurn(t) : w \in Ctx /\ w.pend = tctx[t].pend
  BY <1>1, WithTurnFacts
<1>12. CASE TaskAnswers(t)
  BY <1>10, <1>11, <1>12 DEF TaskAnswers
<1>13. CASE TaskAsks(t)
  <2> PICK w \in WithTurn(t) :
        TaskSends(t, "asked", [w EXCEPT !.open = @ \union {t}, !.pend = {t}])
    BY <1>13 DEF TaskAsks
  <2> DEFINE ctx == [w EXCEPT !.open = @ \union {t}, !.pend = {t}]
  <2>1. ctx \in Ctx /\ ctx.pend = {t}
    BY <1>11 DEF Ctx
  <2>2. TaskSends(t, "asked", ctx)
    OBVIOUS
  <2> HIDE DEF ctx
  <2>3. QED
    BY <1>10, <2>1, <2>2
<1>14. CASE TaskFails(t)
  <2> PICK w \in WithTurn(t), dangling \in {{}, {t}} :
        TaskSends(t, "closed", [w EXCEPT !.open = @ \union dangling])
    BY <1>14 DEF TaskFails
  <2> DEFINE ctx == [w EXCEPT !.open = @ \union dangling]
  <2>1. ctx \in Ctx /\ ctx.pend = tctx[t].pend
    BY <1>11 DEF Ctx
  <2>2. TaskSends(t, "closed", ctx)
    OBVIOUS
  <2> HIDE DEF ctx
  <2>3. QED
    BY <1>10, <2>1, <2>2
<1>15. CASE TaskStores(t)
  <2>1. /\ tpc'[t] = "ended" /\ sessions'[c] = tctx[t]
        /\ \A u \in Turns : u # t => tpc'[u] = tpc[u] /\ tctx'[u] = tctx[u]
        /\ \A d \in Chats : d # c => sessions'[d] = sessions[d]
        /\ UNCHANGED <<chan, hctx>>
    BY <1>1, <1>2, <1>15 DEF TaskStores, SetSession, TypeOK
  <2>2. ASSUME NEW d \in Chats, d # c PROVE Live(d)'
    BY <1>5, <1>6, <1>7, <2>1, <2>2, LiveFrame DEF Waiting
  <2>3. \A u \in Turns : tchat'[u] = c => ~Active(u)'
    BY <1>4, <1>5, <2>1 DEF Active
  <2>4. Live(c)'
    BY <1>3, <1>5, <1>7, <1>8, <1>9, <2>1, <2>3 DEF Live
  <2>5. QED
    BY <2>2, <2>4
<1>16. QED
  BY <1>12, <1>13, <1>14, <1>15 DEF Task

LEMMA LiveRestart ==
  ASSUME Waiting, TypeOK', Restart
  PROVE  \A d \in Chats : Live(d)'
<1> SUFFICES ASSUME NEW c \in Chats PROVE Live(c)'
  OBVIOUS
<1>1. Quiet(c)' /\ sessions'[c] = None /\ hpc'[c] = "idle" /\ chan'[c] = "open"
  BY DEF Restart, Quiet
<1>2. QED
  BY <1>1, LiveQuiet

LEMMA SettlingStep ==
  ASSUME ModeKept, Waiting, TypeOK', [Next]_vars
  PROVE  Settling'
<1> USE DEF task, handler, store
<1>1. TypeOK /\ SeenInv /\ Names /\ Flow /\ PatientUser /\ ledger \in Ledger /\ Settling
  BY DEF Waiting, Patient, TypeOK
<1>2. \A t \in Turns : t \in Settled => Over(t)'
  BY <1>1, OverStep DEF Settling
<1>3. Settled' \subseteq Turns
  BY DEF Settled, TypeOK, Ledger
<1>4. ASSUME \A t \in Settled' : t \in Settled \/ Over(t)',
             \A c \in Chats : chan'[c] = "asked" => ~AutoMode',
             \A t \in Turns : tpc'[t] = "running" /\ t \notin tauto' => ~AutoMode',
             ~ledger'.again
      PROVE  Settling'
  BY <1>2, <1>3, <1>4 DEF Settling
<1>5. ASSUME NEW c \in Chats, Command(c) \/ Text(c) PROVE Settling'
  <2>1. /\ hpc[c] = "idle" /\ Quiet(c) /\ UNCHANGED <<tpc, tauto>>
    BY <1>1, <1>5, UserStep DEF UserActs
  <2>2. \A d \in Chats : chan'[d] = "asked" => chan[d] = "asked"
    <3>1. chan' = chan \/ chan' = [chan EXCEPT ![c] = "open"]
      BY <1>5 DEF Command, Text, Reset, Forgotten, SetModel, ApprovalMode, ApproveSubagent,
        DenySubagent, Approve, Deny, TextStartsSubagent, TextDenies, TextApproves, TextForTurn,
        StartApproved, DenyPending
    <3>2. QED
      BY <1>1, <3>1 DEF TypeOK
  <2>3. /\ ledger'.run = ledger.run /\ ledger'.again = ledger.again
        /\ \/ ledger'.denied = ledger.denied
           \/ HasPending(c) /\ ledger'.denied = ledger.denied \union sessions[c].pend
    BY <1>1, <1>5 DEF Command, Text, Reset, Forgotten, SetModel, ApprovalMode, ApproveSubagent,
      DenySubagent, Approve, Deny, TextStartsSubagent, TextDenies, TextApproves, TextForTurn,
      Ledger
  <2>4. HasPending(c) => sessions[c].pend \subseteq Unsettled(c)
    BY <2>1 DEF Waiting, Live, HasPending
  <2>5. \A t \in Settled' : t \in Settled \/ Over(t)'
    BY <2>1, <2>3, <2>4 DEF Settled, Unsettled, Over
  <2>6. CASE \E mode \in {"auto", "manual"} : ApprovalMode(c, mode)
    <3>1. \A d \in Chats : d = c
      BY <2>6 DEF ModeKept, ApprovalMode
    <3>2. \A d \in Chats : chan'[d] # "asked"
      BY <1>1, <2>1, <2>2, <3>1 DEF SeenInv
    <3>3. \A t \in Turns : tpc'[t] # "running"
      BY <1>1, <2>1, <3>1 DEF SeenInv
    <3>4. QED
      BY <1>1, <1>4, <2>3, <2>5, <3>2, <3>3 DEF Settling
  <2>7. CASE ~\E mode \in {"auto", "manual"} : ApprovalMode(c, mode)
    <3>1. globalAuto' = globalAuto
      BY <1>5, <2>7 DEF Command, Text, Reset, Forgotten, SetModel, ApproveSubagent,
        DenySubagent, Approve, Deny, TextStartsSubagent, TextDenies, TextApproves, TextForTurn,
        StartApproved, DenyPending
    <3>2. AutoMode' = AutoMode
      BY <3>1 DEF AutoMode
    <3>3. QED
      BY <1>1, <1>4, <2>1, <2>2, <2>3, <2>5, <3>2 DEF Settling
  <2>8. QED
    BY <2>6, <2>7
<1>6. ASSUME NEW c \in Chats, Handle(c) PROVE Settling'
  <2>1. globalAuto' = globalAuto /\ \A d \in Chats : chan'[d] = "asked" => chan[d] = "asked"
    BY <1>1, <1>6 DEF Handle, HandleWithoutAgent, RequestSubagent, TypingFails, BeginTurn, ReceiveDone, ReceiveClosed,
      ReceiveAsk, ReceiveAskAuto, RunApproved, StoreApproved, StartApproved, TypeOK
  <2>2. AutoMode' = AutoMode
    BY <2>1 DEF AutoMode
  <2>3. \A t \in Turns : tpc'[t] = "running" /\ t \notin tauto' => ~AutoMode
    <3>1. CASE BeginTurn(c)
      <4>1. /\ hturn[c] \in Turns
            /\ tpc' = [tpc EXCEPT ![hturn[c]] = "running"]
            /\ tauto' = IF AutoMode THEN tauto \union {hturn[c]} ELSE tauto
        BY <1>1, <3>1 DEF BeginTurn, TypeOK
      <4>2. QED
        BY <1>1, <4>1 DEF Settling, TypeOK
    <3>2. CASE ~BeginTurn(c)
      <4>1. UNCHANGED <<tpc, tauto>>
        BY <1>6, <3>2 DEF Handle, HandleWithoutAgent, RequestSubagent, TypingFails, ReceiveDone, ReceiveClosed,
          ReceiveAsk, ReceiveAskAuto, RunApproved, StoreApproved, StartApproved
      <4>2. QED
        BY <1>1, <4>1 DEF Settling
    <3>3. QED
      BY <3>1, <3>2
  <2>4. CASE RunApproved(c)
    <3>1. /\ ledger'.run = ledger.run \union hctx[c].pend /\ ledger'.denied = ledger.denied
          /\ ledger'.again = (ledger.again \/ hctx[c].pend \intersect Settled # {})
          /\ tpc' = tpc
      BY <1>1, <2>4 DEF RunApproved, Ledger, Settled
    <3>2. hctx[c].pend \subseteq Unsettled(c)
      BY <2>4 DEF RunApproved, Waiting, Live
    <3>3. \A t \in Settled' : t \in Settled \/ Over(t)'
      BY <3>1, <3>2 DEF Settled, Unsettled, Over
    <3>4. ~ledger'.again
      BY <1>1, <3>1, <3>2 DEF Settling, Unsettled
    <3>5. QED
      BY <1>1, <1>4, <2>1, <2>2, <2>3, <3>3, <3>4 DEF Settling
  <2>5. CASE ~RunApproved(c)
    <3>1. ledger'.run = ledger.run /\ ledger'.denied = ledger.denied /\ ledger'.again = ledger.again
      BY <1>1, <1>6, <2>5, HandlerKeeps
    <3>2. QED
      BY <1>1, <1>4, <2>1, <2>2, <2>3, <3>1 DEF Settling, Settled
  <2>6. QED
    BY <2>4, <2>5
<1>7. ASSUME NEW t \in Turns, Task(t) PROVE Settling'
  <2>0. ASSUME NEW event, NEW x, TaskSends(t, event, x)
        PROVE  /\ UNCHANGED <<globalAuto, ledger>>
               /\ \A u \in Turns : tpc'[u] = "running" => tpc[u] = "running" /\ u # t
               /\ tauto' = tauto \ {t}
    BY <1>1, <2>0 DEF TaskSends, TypeOK
  <2>1. /\ UNCHANGED <<globalAuto, ledger>>
        /\ \A u \in Turns : tpc'[u] = "running" => tpc[u] = "running" /\ u # t
        /\ tauto' = tauto \/ tauto' = tauto \ {t}
    <3>1. CASE TaskStores(t)
      BY <1>1, <3>1 DEF TaskStores, TypeOK
    <3>2. CASE ~TaskStores(t)
      BY <1>7, <2>0, <3>2 DEF Task, TaskAnswers, TaskAsks, TaskFails
    <3>3. QED
      BY <3>1, <3>2
  <2>2. AutoMode' = AutoMode /\ Settled' = Settled
    BY <2>1 DEF AutoMode, Settled
  <2>3. \A c \in Chats : chan'[c] = "asked" => chan[c] = "asked" \/ ~AutoMode
    <3>1. ASSUME NEW event, NEW x, TaskSends(t, event, x)
          PROVE  \A c \in Chats : chan'[c] = "asked" => chan[c] = "asked" \/ event = "asked"
      BY <1>1, <3>1 DEF TaskSends, TypeOK
    <3>2. TaskAsks(t) => ~AutoMode
      BY <1>1 DEF TaskAsks, TaskSends, Settling
    <3>3. TaskStores(t) => chan' = chan
      BY DEF TaskStores
    <3>4. CASE TaskAnswers(t)
      <4> PICK w \in WithTurn(t) : TaskSends(t, "done", w)
        BY <3>4 DEF TaskAnswers
      <4>1. QED
        BY <3>1
    <3>5. CASE TaskFails(t)
      <4> PICK w \in WithTurn(t), d \in {{}, {t}} :
            TaskSends(t, "closed", [w EXCEPT !.open = @ \union d])
        BY <3>5 DEF TaskFails
      <4>1. QED
        BY <3>1
    <3>6. QED
      BY <1>7, <3>2, <3>3, <3>4, <3>5 DEF Task
  <2>4. QED
    BY <1>1, <1>4, <2>1, <2>2, <2>3 DEF Settling
<1>8. CASE Restart
  <2>1. /\ ledger'.run = ledger.run /\ ledger'.denied = ledger.denied
        /\ ledger'.again = ledger.again
        /\ \A c \in Chats : chan'[c] = "open"
        /\ \A t \in Turns : tpc'[t] # "running"
    BY <1>1, <1>8 DEF Restart, Ledger
  <2>2. QED
    BY <1>1, <1>4, <2>1 DEF Settled, Settling
<1>9. CASE UNCHANGED vars
  BY <1>1, <1>4, <1>9 DEF vars, Settling, Settled, AutoMode
<1>10. QED
  BY <1>5, <1>6, <1>7, <1>8, <1>9 DEF Next

(* ApprovalsSettleOnce with users who wait, whatever fails: a call that was run
   or denied is in no copy of the context it could be taken from again. *)
THEOREM ApprovalsAreSettledOnce ==
  ASSUME PatientUser, ModeKept
  PROVE  Spec => []ApprovalsSettleOnce
<1> DEFINE AllLive == \A c \in Chats : Live(c)
<1>1. Init => Settling /\ AllLive
  BY DEF Init, Settling, Settled, Live, Active
<1>2. TypeOK' /\ Waiting /\ [Next]_vars => Settling' /\ AllLive'
  <2> SUFFICES ASSUME TypeOK', Waiting, [Next]_vars PROVE Settling' /\ AllLive'
    OBVIOUS
  <2>1. Settling'
    BY SettlingStep
  <2>2. CASE UNCHANGED vars
    <3>1. \A c \in Chats : Live(c) => Live(c)'
      BY <2>2, LiveFrame DEF vars, store, handler, task, Unsettled, Over, Settled
    <3>2. QED
      BY <2>1, <3>1 DEF Waiting
  <2>3. QED
    BY <2>1, <2>2, LiveUser, LiveHandler, LiveTask, LiveRestart DEF Next
<1>3. Patient /\ Settling /\ AllLive => Waiting
  BY DEF Waiting
<1>4. Settling => ApprovalsSettleOnce
  BY DEF Settling, ApprovalsSettleOnce
<1> HIDE DEF AllLive
<1>5. QED
  BY <1>1, <1>2, <1>3, <1>4, PatientInvariant, PTL DEF Spec

=============================================================================
