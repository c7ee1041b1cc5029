---------------------------- MODULE ChatSession ----------------------------
(***************************************************************************)
(* The Telegram front end's per-chat session store and everything that     *)
(* writes it: the message handler, the slash commands, the inline buttons  *)
(* and the background task each message starts to run the agent            *)
(* (crates/unly-telegram/src/bot.rs and session.rs).                       *)
(*                                                                         *)
(* Updates of one chat are handled one after the other, so a chat has one  *)
(* handler.  The agent runs in a task of its own that works on a clone of  *)
(* the session, reports to the handler over a channel, and stores its      *)
(* clone with sessions.set() when it ends; nobody waits for that task.     *)
(*                                                                         *)
(* A session's message list is abstracted to the set of turns it holds and *)
(* the set of turns whose tool calls have no tool message yet.  One turn   *)
(* asks approval for one batch of tool calls, named by the turn.           *)
(***************************************************************************)
EXTENDS Naturals, FiniteSets

CONSTANTS
  Chats,         (* Telegram chats                                         *)
  Models,        (* model ids a user may select                            *)
  DefaultModel,  (* provider_registry.default_model()                      *)
  None,          (* no entry in a map                                      *)
  MaxTurns,      (* bound: agent turns started over the whole run          *)
  DefaultAuto,   (* default_auto_approve(): the policy asks no approval    *)
  UserDoes,      (* the kinds of updates the users send                    *)
  Faults,        (* what may fail: "typing", "prompt", "db" and "restart"  *)
  Held,          (* latest turns of which the limits surely keep something *)
  PatientUser    (* users act only once the chat's last task has stored    *)

Turns == 1..MaxTurns

Ctx == [turns : SUBSET Turns, open : SUBSET Turns,
        pend : SUBSET Turns, model : Models]

NewCtx == [turns |-> {}, open |-> {}, pend |-> {}, model |-> DefaultModel]

(* What a text message may say: spawn is /spawn_subagent. *)
Says == {"yes", "no", "text", "spawn"}

ASSUME ConstantsOK ==
  /\ MaxTurns \in Nat /\ Held \in Nat \ {0}
  /\ DefaultModel \in Models
  /\ None \notin Ctx /\ None \notin Chats /\ None \notin Models
  /\ DefaultAuto \in BOOLEAN /\ PatientUser \in BOOLEAN
  /\ UserDoes \subseteq Says \union {"reset", "model", "early model", "mode",
                                   "approve", "deny"}
  /\ Faults \subseteq {"typing", "prompt", "db", "restart"}

VARIABLES
  sessions,     (* chat -> context or None: SessionStore.sessions          *)
  globalAuto,   (* "unset", "auto" or "manual": global_auto_approve        *)
  pendingSub,   (* chats with an entry in pending_subagents                *)
  skip,         (* chats marked in skip_history_restore_once               *)
  db,           (* chat -> turns whose messages are persisted              *)
  hpc,          (* chat -> where its handler is                            *)
  hctx,         (* chat -> the context its handler was sent or works on    *)
  hturn,        (* chat -> the turn whose events the handler receives      *)
  chan,         (* chat -> the event of that turn it can receive           *)
  next,         (* the next turn's name                                    *)
  tpc,          (* turn -> where its background task is                    *)
  tchat,        (* turn -> the chat it belongs to                          *)
  tctx,         (* turn -> the background task's clone of the context      *)
  tauto,        (* turns whose tool calls run without asking               *)
  ledger        (* history for the properties; no action reads it          *)

store == <<sessions, globalAuto, pendingSub, skip>>
handler == <<hpc, hctx, hturn, chan>>
task == <<next, tpc, tchat, tctx, tauto>>
vars == <<store, db, handler, task, ledger>>

AutoMode == IF globalAuto = "unset" THEN DefaultAuto ELSE globalAuto = "auto"

(* No background task of the chat still has a context to store. *)
Quiet(c) == \A t \in Turns : tchat[t] = c => tpc[t] \in {"new", "ended"}

(* Mutant: two updates of one chat are handled at once. *)
UserActs_Overlap(c) ==
  hpc[c] \in {"idle", "receiving"} /\ (PatientUser => Quiet(c))

UserActs(c) == hpc[c] = "idle" /\ (PatientUser => Quiet(c))

HasPending(c) == sessions[c] # None /\ sessions[c].pend # {}

(* What the limits on messages (the context window, the compressed prompt, the
   40 rows read from the database) may leave of a list: they cut the oldest
   turns away, and a turn has many messages or few. *)
Remains(turns) ==
  {kept \in SUBSET turns : \A u \in turns \ kept :
     /\ \A t \in kept : u < t
     /\ Cardinality({t \in turns : t > u}) >= Held}

Init ==
  /\ sessions = [c \in Chats |-> None]
  /\ globalAuto = "unset"
  /\ pendingSub = {} /\ skip = {}
  /\ db = [c \in Chats |-> {}]
  /\ hpc = [c \in Chats |-> "idle"]
  /\ hctx = [c \in Chats |-> NewCtx]
  /\ hturn = [c \in Chats |-> 0]
  /\ chan = [c \in Chats |-> "open"]
  /\ next = 1
  /\ tpc = [t \in Turns |-> "new"]
  /\ tchat = [t \in Turns |-> None]
  /\ tctx = [t \in Turns |-> NewCtx]
  /\ tauto = {}
  /\ ledger = [seen |-> {}, unshown |-> {}, run |-> {}, denied |-> {},
               again |-> FALSE,
               since |-> [c \in Chats |-> {}],
               back |-> [c \in Chats |-> {}],
               lost |-> [c \in Chats |-> {}],
               chosen |-> [c \in Chats |-> DefaultModel]]

-----------------------------------------------------------------------------
(* The SessionStore operations. *)

SetSession(c, ctx) == sessions' = [sessions EXCEPT ![c] = ctx]

(* A handler takes a clone of the context to run its pending approvals. *)
StartApproved(c, ctx) ==
  /\ hpc' = [hpc EXCEPT ![c] = "executing"]
  /\ hctx' = [hctx EXCEPT ![c] = ctx]
  /\ chan' = [chan EXCEPT ![c] = "open"]
  /\ UNCHANGED <<store, db, hturn, task>>

(* Mutant: the denied calls stay pending. *)
DenyPending_Kept(c) == UNCHANGED <<store, db, handler, task>>

DenyPending(c) ==
  /\ SetSession(c, [sessions[c] EXCEPT !.pend = {}])
  /\ UNCHANGED <<globalAuto, pendingSub, skip, db, handler, task>>

-----------------------------------------------------------------------------
(* Slash commands and inline buttons. *)

(* The conversation the user begins here. *)
Forgotten(c) ==
  [ledger EXCEPT !.since[c] = {}, !.back[c] = {}, !.lost[c] = {},
                 !.chosen[c] = DefaultModel]

(* Mutant: a waiting subagent survives the reset. *)
Reset_KeepsSubagent(c) ==
  /\ UserActs(c) /\ "reset" \in UserDoes
  /\ SetSession(c, None)
  /\ skip' = skip \union {c}
  /\ ledger' = Forgotten(c)
  /\ UNCHANGED <<globalAuto, pendingSub, db, handler, task>>

(* Mutant: the reset does not forbid restoring the history. *)
Reset_NoSkip(c) ==
  /\ UserActs(c) /\ "reset" \in UserDoes
  /\ SetSession(c, None)
  /\ pendingSub' = pendingSub \ {c}
  /\ ledger' = Forgotten(c)
  /\ UNCHANGED <<globalAuto, skip, db, handler, task>>

(* /start, /new and /reset. *)
Reset(c) ==
  /\ UserActs(c) /\ "reset" \in UserDoes
  /\ SetSession(c, None)
  /\ pendingSub' = pendingSub \ {c}
  /\ skip' = skip \union {c}
  /\ ledger' = Forgotten(c)
  /\ UNCHANGED <<globalAuto, db, handler, task>>

(* /model (and, with the same shape, /provider). *)
SetModel(c, m) ==
  /\ UserActs(c)
  /\ \/ /\ sessions[c] # None /\ "model" \in UserDoes
        /\ SetSession(c, [sessions[c] EXCEPT !.model = m])
     \/ /\ sessions[c] = None /\ "early model" \in UserDoes
        /\ UNCHANGED sessions
  /\ ledger' = [ledger EXCEPT !.chosen[c] = m]
  /\ UNCHANGED <<globalAuto, pendingSub, skip, db, handler, task>>

(* /approval auto and /approval manual.  The override stored in the session
   is replaced at the start of every turn, so it is not kept here. *)
ApprovalMode(c, mode) ==
  /\ UserActs(c) /\ "mode" \in UserDoes
  /\ globalAuto' = mode
  /\ UNCHANGED <<sessions, pendingSub, skip, db, handler, task, ledger>>

(* /approve or the Approve button, with a subagent waiting: it is started
   (see Subagents) and the session is left as it is. *)
ApproveSubagent(c) ==
  /\ UserActs(c)
  /\ c \in pendingSub
  /\ pendingSub' = pendingSub \ {c}
  /\ SetSession(c, IF sessions[c] = None THEN NewCtx ELSE sessions[c])
  /\ UNCHANGED <<globalAuto, skip, db, handler, task, ledger>>

DenySubagent(c) ==
  /\ UserActs(c)
  /\ c \in pendingSub
  /\ pendingSub' = pendingSub \ {c}
  /\ UNCHANGED <<sessions, globalAuto, skip, db, handler, task, ledger>>

(* /approve or the Approve button. *)
Approve(c) ==
  /\ UserActs(c) /\ "approve" \in UserDoes
  /\ c \notin pendingSub
  /\ HasPending(c)
  /\ StartApproved(c, sessions[c])
  /\ UNCHANGED ledger

(* /deny or the Deny button. *)
Deny(c) ==
  /\ UserActs(c) /\ "deny" \in UserDoes
  /\ c \notin pendingSub
  /\ HasPending(c)
  /\ DenyPending(c)
  /\ ledger' = [ledger EXCEPT !.denied = @ \union sessions[c].pend]

-----------------------------------------------------------------------------
(* The message handler. *)

(* "yes" starts the waiting subagent. *)
TextStartsSubagent(c) ==
  /\ "yes" \in UserDoes
  /\ ApproveSubagent(c)

(* Any text while the mode is automatic, or "yes", approves. *)
TextApproves(c, say) ==
  /\ UserActs(c)
  /\ ~(c \in pendingSub /\ say = "yes")
  /\ HasPending(c)
  /\ AutoMode \/ say = "yes"
  /\ StartApproved(c, sessions[c])
  /\ ledger' = IF AutoMode
               THEN [ledger EXCEPT !.seen = @ \union sessions[c].pend]
               ELSE ledger

TextDenies(c) ==
  /\ UserActs(c)
  /\ "no" \in UserDoes
  /\ HasPending(c)
  /\ ~AutoMode
  /\ DenyPending(c)
  /\ ledger' = [ledger EXCEPT !.denied = @ \union sessions[c].pend]

(* Every other text becomes a turn.  The handler lets go of the session it
   looked at: BOOT mode and the chat row are looked up before it reads the
   session again. *)
TextForTurn(c, say) ==
  /\ UserActs(c)
  /\ ~(c \in pendingSub /\ say = "yes")
  /\ HasPending(c) => ~AutoMode /\ say \notin {"yes", "no"}
  /\ next \in Turns
  /\ hpc' = [hpc EXCEPT ![c] = IF say = "spawn" THEN "requesting" ELSE "preparing"]
  /\ hturn' = [hturn EXCEPT ![c] = next]
  /\ next' = next + 1
  /\ UNCHANGED <<store, db, hctx, chan, tpc, tchat, tctx, tauto, ledger>>

(* Mutants: no context is made for a chat without one; a stored session loses
   its model. *)
Restored_NoNew(c, history) ==
  IF sessions[c] = None THEN None ELSE sessions[c]

Restored_NoModel(c, history) ==
  LET ctx == IF sessions[c] = None THEN NewCtx ELSE sessions[c]
  IN  [ctx EXCEPT !.turns = IF @ = {} THEN history ELSE @,
                  !.model = DefaultModel]

(* The context a turn starts from: the session, or a new one, with the history
   read when it is empty. *)
Restored(c, history) ==
  LET ctx == IF sessions[c] = None THEN NewCtx ELSE sessions[c]
  IN  IF ctx.turns = {} THEN [ctx EXCEPT !.turns = history] ELSE ctx

Empty(c) == sessions[c] = None \/ sessions[c].turns = {}

(* The latest rows are read for an empty context unless a reset forbids it; a
   failed query gives none. *)
Histories(c) ==
  IF Empty(c) /\ c \notin skip
  THEN Remains(db[c]) \union (IF "db" \in Faults THEN {{}} ELSE {})
  ELSE {{}}

(* A failed query loses what only the database held. *)
Read(c, history) ==
  IF Empty(c) /\ history = {} THEN [ledger EXCEPT !.lost[c] = @ \union db[c]]
  ELSE ledger

(* The mark of a reset is used up by a message that starts no turn: what the
   database holds from before the reset may come back with a later one. *)
MarkUsed(c, known) ==
  IF c \in skip THEN [known EXCEPT !.back[c] = @ \union db[c]] ELSE known

(* /spawn_subagent: the request is kept until the user confirms it. *)
RequestSubagent(c) ==
  /\ hpc[c] = "requesting"
  /\ \E history \in Histories(c) :
       /\ SetSession(c, Restored(c, history))
       /\ ledger' = MarkUsed(c, Read(c, history))
  /\ pendingSub' = pendingSub \union {c}
  /\ skip' = skip \ {c}
  /\ hpc' = [hpc EXCEPT ![c] = "idle"]
  /\ UNCHANGED <<globalAuto, db, hctx, hturn, chan, task>>

(* The typing indicator cannot be sent: the handler returns. *)
TypingFails(c) ==
  /\ "typing" \in Faults
  /\ hpc[c] = "preparing"
  /\ skip' = skip \ {c}
  /\ hpc' = [hpc EXCEPT ![c] = "idle"]
  /\ ledger' = MarkUsed(c, ledger)
  /\ UNCHANGED <<sessions, globalAuto, pendingSub, db, hctx, hturn,
                 chan, task>>

(* The message is persisted and the background task started. *)
BeginTurn(c) ==
  LET t == hturn[c] IN
  /\ hpc[c] = "preparing"
  /\ \E history \in Histories(c) :
       /\ tctx' = [tctx EXCEPT ![t] = Restored(c, history)]
       /\ ledger' = [Read(c, history) EXCEPT !.since[c] = @ \union {t}]
  /\ skip' = skip \ {c}
  /\ \/ db' = [db EXCEPT ![c] = @ \union {t}]
     \/ "db" \in Faults /\ UNCHANGED db
  /\ tpc' = [tpc EXCEPT ![t] = "running"]
  /\ tchat' = [tchat EXCEPT ![t] = c]
  /\ tauto' = IF AutoMode THEN tauto \union {t} ELSE tauto
  /\ hpc' = [hpc EXCEPT ![c] = "receiving"]
  /\ UNCHANGED <<sessions, globalAuto, pendingSub, hctx, hturn, chan, next>>

(* Done: the reply is sent and the handler returns.  It does not wait for
   the task, which still has its context to store. *)
ReceiveDone(c) ==
  /\ hpc[c] = "receiving" /\ chan[c] = "done"
  /\ hpc' = [hpc EXCEPT ![c] = "idle"]
  /\ chan' = [chan EXCEPT ![c] = "open"]
  /\ UNCHANGED <<store, db, hctx, hturn, task, ledger>>

(* The channel closes without Done: an error message. *)
ReceiveClosed(c) ==
  /\ hpc[c] = "receiving" /\ chan[c] = "closed"
  /\ hpc' = [hpc EXCEPT ![c] = "idle"]
  /\ chan' = [chan EXCEPT ![c] = "open"]
  /\ UNCHANGED <<store, db, hctx, hturn, task, ledger>>

(* ApprovalRequired in manual mode: the event's snapshot is stored and the
   prompt is sent.  If it cannot be sent the handler only logs so. *)
ReceiveAsk(c) ==
  /\ hpc[c] = "receiving" /\ chan[c] = "asked"
  /\ ~AutoMode
  /\ SetSession(c, hctx[c])
  /\ hctx' = [hctx EXCEPT ![c] = NewCtx]
  /\ hpc' = [hpc EXCEPT ![c] = "idle"]
  /\ chan' = [chan EXCEPT ![c] = "open"]
  /\ \/ ledger' = [ledger EXCEPT !.seen = @ \union hctx[c].pend]
     \/ /\ "prompt" \in Faults
        /\ ledger' = [ledger EXCEPT !.unshown = @ \union hctx[c].pend]
  /\ UNCHANGED <<globalAuto, pendingSub, skip, db, hturn, task>>

(* ApprovalRequired after another chat switched to automatic mode: the
   snapshot's approvals are run at once. *)
ReceiveAskAuto(c) ==
  /\ hpc[c] = "receiving" /\ chan[c] = "asked"
  /\ AutoMode
  /\ StartApproved(c, hctx[c])
  /\ ledger' = [ledger EXCEPT !.seen = @ \union hctx[c].pend]

(* Mutant: the calls are run but not taken off the pending list. *)
RunApproved_Kept(c) ==
  /\ hpc[c] = "executing"
  /\ hctx' = [hctx EXCEPT ![c].open = @ \ hctx[c].pend]
  /\ hpc' = [hpc EXCEPT ![c] = "executed"]
  /\ ledger' = [ledger EXCEPT !.run = @ \union hctx[c].pend]
  /\ UNCHANGED <<store, db, hturn, chan, task>>

(* process_approved: the pending calls are taken and run, a tool message
   answers each, and the agent goes on with a trimmed list. *)
RunApproved(c) ==
  /\ hpc[c] = "executing"
  /\ \E kept \in Remains(hctx[c].turns) :
       hctx' = [hctx EXCEPT ![c].pend = {}, ![c].open = @ \ hctx[c].pend,
                            ![c].turns = kept]
  /\ hpc' = [hpc EXCEPT ![c] = "executed"]
  /\ ledger' = [ledger EXCEPT
       !.run = @ \union hctx[c].pend,
       !.again = @ \/ hctx[c].pend \intersect (ledger.run \union ledger.denied) # {}]
  /\ UNCHANGED <<store, db, hturn, chan, task>>

(* process_approved returns, with a text or an error; either way the handler
   stores its clone. *)
StoreApproved(c) ==
  /\ hpc[c] = "executed"
  /\ SetSession(c, hctx[c])
  /\ hctx' = [hctx EXCEPT ![c] = NewCtx]
  /\ hpc' = [hpc EXCEPT ![c] = "idle"]
  /\ UNCHANGED <<globalAuto, pendingSub, skip, db, hturn, chan, task,
                 ledger>>

-----------------------------------------------------------------------------
(* The background task of a turn (see AgentTurn for what happens inside). *)

(* The event carries a snapshot of the context only when it asks. *)
TaskSends(t, event, ctx) ==
  /\ tpc[t] = "running"
  /\ tctx' = [tctx EXCEPT ![t] = ctx]
  /\ chan' = [chan EXCEPT ![tchat[t]] = event]
  /\ hctx' = IF event = "asked" THEN [hctx EXCEPT ![tchat[t]] = ctx] ELSE hctx
  /\ tpc' = [tpc EXCEPT ![t] = "storing"]
  /\ tauto' = tauto \ {t}
  /\ UNCHANGED <<store, db, hpc, hturn, next, tchat, ledger>>

(* The contexts the task may have worked on: the list is trimmed before each
   request to the provider. *)
WithTurn(t) ==
  {[tctx[t] EXCEPT !.turns = kept] : kept \in Remains(tctx[t].turns \union {t})}

(* Final answer: Done is sent, then the memory entry is written. *)
TaskAnswers(t) == \E ctx \in WithTurn(t) : TaskSends(t, "done", ctx)

(* Tool calls that need approval replace the pending approvals. *)
TaskAsks(t) ==
  /\ t \notin tauto
  /\ \E ctx \in WithTurn(t) :
       TaskSends(t, "asked", [ctx EXCEPT !.open = @ \union {t}, !.pend = {t}])

(* Mutant: the error path keeps the sender alive. *)
TaskFails_KeepsSender(t) == \E ctx \in WithTurn(t) : TaskSends(t, "open", ctx)

(* process_stream_input returns an error and drops the sender; calls it had
   no turn left to run stay without a tool message. *)
TaskFails(t) ==
  \E ctx \in WithTurn(t), dangling \in {{}, {t}} :
    TaskSends(t, "closed", [ctx EXCEPT !.open = @ \union dangling])

(* Mutant: the context is stored under every chat. *)
TaskStores_EveryChat(t) ==
  /\ tpc[t] = "storing"
  /\ sessions' = [c \in Chats |-> tctx[t]]
  /\ tpc' = [tpc EXCEPT ![t] = "ended"]
  /\ tctx' = [tctx EXCEPT ![t] = NewCtx]
  /\ UNCHANGED <<globalAuto, pendingSub, skip, db, handler, next, tchat, tauto,
                 ledger>>

(* sessions.set(): whatever the store holds by now is replaced. *)
TaskStores(t) ==
  /\ tpc[t] = "storing"
  /\ SetSession(tchat[t], tctx[t])
  /\ tpc' = [tpc EXCEPT ![t] = "ended"]
  /\ tctx' = [tctx EXCEPT ![t] = NewCtx]
  /\ UNCHANGED <<globalAuto, pendingSub, skip, db, handler, next, tchat, tauto,
                 ledger>>

-----------------------------------------------------------------------------
(* The process restarts: everything but the database is lost, the mark of a
   reset too, so what the database holds from before it comes back. *)
Restart ==
  /\ "restart" \in Faults
  /\ sessions' = [c \in Chats |-> None]
  /\ globalAuto' = "unset"
  /\ pendingSub' = {} /\ skip' = {}
  /\ hpc' = [c \in Chats |-> "idle"]
  /\ hctx' = [c \in Chats |-> NewCtx]
  /\ tpc' = [t \in Turns |-> IF tpc[t] = "new" THEN "new" ELSE "ended"]
  /\ tctx' = [t \in Turns |-> NewCtx]
  /\ ledger' = [ledger EXCEPT
       !.chosen = [c \in Chats |-> DefaultModel],
       !.back = [c \in Chats |-> ledger.back[c] \union db[c]],
       !.lost = [c \in Chats |->
                   ledger.lost[c] \union (ledger.since[c] \ db[c])]]
  /\ chan' = [c \in Chats |-> "open"]
  /\ tauto' = {}
  /\ UNCHANGED <<db, hturn, next, tchat>>

Command(c) ==
  \/ Reset(c)
  \/ \E m \in Models : SetModel(c, m)
  \/ \E mode \in {"auto", "manual"} : ApprovalMode(c, mode)
  \/ ApproveSubagent(c)
  \/ DenySubagent(c)
  \/ Approve(c)
  \/ Deny(c)

Text(c) ==
  \/ TextStartsSubagent(c)
  \/ TextDenies(c)
  \/ \E say \in UserDoes \intersect Says : TextApproves(c, say) \/ TextForTurn(c, say)

HandleWithoutAgent(c) ==
  \/ RequestSubagent(c)
  \/ TypingFails(c)
  \/ BeginTurn(c)
  \/ ReceiveDone(c)
  \/ ReceiveClosed(c)
  \/ ReceiveAsk(c)
  \/ ReceiveAskAuto(c)
  \/ StoreApproved(c)

Handle(c) == HandleWithoutAgent(c) \/ RunApproved(c)

Task(t) == TaskAnswers(t) \/ TaskAsks(t) \/ TaskFails(t) \/ TaskStores(t)

Next ==
  \/ \E c \in Chats : Command(c) \/ Text(c) \/ Handle(c)
  \/ \E t \in Turns : Task(t)
  \/ Restart

Spec == Init /\ [][Next]_vars

(* Tokio runs every ready task, and the handler's own requests and statements
   end.  Nothing is assumed of the agent's work on a turn: it has no time limit
   of its own. *)
Fairness ==
  /\ \A c \in Chats : WF_vars(HandleWithoutAgent(c))
  /\ \A t \in Turns : WF_vars(TaskStores(t))

FairSpec == Spec /\ Fairness

-----------------------------------------------------------------------------
(* Properties. *)

Ledger == [seen : SUBSET Turns, unshown : SUBSET Turns, run : SUBSET Turns,
           denied : SUBSET Turns, again : BOOLEAN,
           since : [Chats -> SUBSET Turns], back : [Chats -> SUBSET Turns],
           lost : [Chats -> SUBSET Turns], chosen : [Chats -> Models]]

(* The type of every variable of the store, the handlers and the tasks. *)
TypeOK ==
  /\ sessions \in [Chats -> Ctx \union {None}]
  /\ globalAuto \in {"unset", "auto", "manual"}
  /\ pendingSub \subseteq Chats /\ skip \subseteq Chats
  /\ db \in [Chats -> SUBSET Turns]
  /\ hpc \in [Chats -> {"idle", "requesting", "preparing", "receiving",
                        "executing", "executed"}]
  /\ hctx \in [Chats -> Ctx]
  /\ hturn \in [Chats -> Turns \union {0}]
  /\ \A c \in Chats : hpc[c] \in {"preparing", "receiving"} => hturn[c] \in Turns
  /\ chan \in [Chats -> {"open", "done", "asked", "closed"}]
  /\ next \in Nat \ {0}
  /\ tpc \in [Turns -> {"new", "running", "storing", "ended"}]
  /\ tchat \in [Turns -> Chats \union {None}]
  /\ tctx \in [Turns -> Ctx]
  /\ tauto \subseteq Turns
  /\ ledger \in Ledger

(* In every copy of a context - the stored one, the handler's, the task's -
   a pending approval is a tool call of that same context that has no tool
   message yet. *)
PendingIsOpen ==
  /\ \A c \in Chats : sessions[c] # None =>
       sessions[c].pend \subseteq sessions[c].open
  /\ \A c \in Chats : hctx[c].pend \subseteq hctx[c].open
  /\ \A t \in Turns : tctx[t].pend \subseteq tctx[t].open

(* A subagent waiting for confirmation always has a session to start from:
   approve_pending_subagent never has to invent one. *)
SubagentHasSession == \A c \in pendingSub : sessions[c] # None

(* Chats are isolated: no copy of a chat's context holds a turn of another
   chat, whichever task or handler stored it. *)
ChatsAreIsolated ==
  /\ \A c \in Chats : sessions[c] # None =>
       \A t \in sessions[c].turns : tchat[t] = c
  /\ \A c \in Chats : \A t \in db[c] : tchat[t] = c
  /\ \A u \in Turns : \A t \in tctx[u].turns : tchat[t] = tchat[u]

(* A tool call that waited for approval runs only after its prompt was sent to
   the chat, or in automatic mode - whatever stale contexts the background
   tasks have put back in the meantime.  "Sent" is all the code gives: when
   the request to Telegram fails the calls stay pending, and a later "yes"
   runs calls the user was never shown. *)
NothingRunsUnasked == ledger.run \subseteq ledger.seen \union ledger.unshown

(* So many turns of the chat came between turn u and turn t that the limits
   may have cut u away. *)
Aged(c, u, t) ==
  Cardinality({v \in Turns \ {t} : tchat[v] = c /\ v > u}) >= Held

(* A turn works on a context that holds every earlier turn of the conversation
   but those the limits may have cut away and those the database did not hold,
   or could not be asked for, when the process had restarted. *)
NoLostTurn ==
  \A t \in Turns : tpc[t] = "running" =>
    \A u \in ledger.since[tchat[t]] \ ({t} \union ledger.lost[tchat[t]]) :
      u \in tctx[t].turns \/ Aged(tchat[t], u, t)

(* A turn works on a context that holds nothing from before the last reset but
   what came back because the reset's mark was gone: after a restart, or after
   a message that used it up without starting a turn. *)
NoForgottenTurn ==
  \A t \in Turns : tpc[t] = "running" =>
    tctx[t].turns \subseteq ledger.since[tchat[t]] \union ledger.back[tchat[t]]

(* A turn works on the conversation since the last reset, within these limits,
   whatever background saves have put back. *)
TurnsAreSeen == NoLostTurn /\ NoForgottenTurn

(* A turn runs with the model the user set in this conversation. *)
ModelSticks ==
  \A t \in Turns : tpc[t] = "running" =>
    tctx[t].model = ledger.chosen[tchat[t]]

(* Approved tool calls run once, and never after they were denied. *)
ApprovalsSettleOnce == ~ledger.again

(* The handler waits for the agent: for the turn's task, or for the approved
   calls it runs itself. *)
AgentAtWork(c) ==
  \/ hpc[c] = "executing"
  \/ hpc[c] = "receiving" /\ tpc[hturn[c]] = "running"

(* The handler of a chat returns again and again, so the chat's next update is
   handled, unless the agent stays at work on one turn forever: a turn that
   ends, however it ends, sends an event or drops the sender. *)
HandlerReturns ==
  \A c \in Chats : []<>(hpc[c] = "idle") \/ <>[]AgentAtWork(c)

=============================================================================
