----------------------------- MODULE AgentTurn -----------------------------
(***************************************************************************)
(* The agent runtime's loop over one context (crates/unly-agent/src/       *)
(* runtime.rs): process, process_stream_input, process_approved.  A turn   *)
(* asks the provider, runs the tool calls it answers with, asks again, and *)
(* ends with a final text, a request for approval or an error.             *)
(*                                                                         *)
(* A message is its role, the tool calls it makes or answers, and whether  *)
(* its text is longer than every cap of the prompt compression.            *)
(***************************************************************************)
EXTENDS Naturals, Sequences, FiniteSets

CONSTANTS
  MaxTurns,         (* max_turns of one context                            *)
  MaxCalls,         (* max_tool_calls_per_turn                             *)
  Window,           (* context_window_size                                 *)
  Keep,             (* round -> messages kept by a prompt compression      *)
  Modes,            (* the approval modes turns run under                  *)
  PolicyAsks,       (* the policy requires approval of privileged tools    *)
  Kinds,            (* the kinds of tools the model calls                  *)
  LongTexts,        (* the sizes texts may have: a subset of BOOLEAN       *)
  Faults,           (* what fails: "chat", "limit", "stream", "tool"       *)
  MaxBatch,         (* bound: tool calls in one response                   *)
  MaxIds            (* bound: tool calls in all                            *)

Ids == 1..MaxIds

(* send is a tool whose result queues a file for Telegram. *)
Call == [id : Ids, kind : {"safe", "send", "privileged"}]

Message == [role : {"user", "assistant", "system", "tool"},
            calls : SUBSET Ids, long : BOOLEAN]

(* auto and manual are tool_approval_override, policy its absence; subagent
   is a subagent that may execute privileged tools. *)
AllModes == {"auto", "manual", "policy", "subagent"}

ASSUME TurnConstants ==
  /\ MaxTurns \in Nat /\ MaxCalls \in Nat /\ MaxIds \in Nat
  /\ Window \in Nat \ {0} /\ MaxBatch \in Nat \ {0}
  /\ Keep \in [0..2 -> Nat \ {0}]
  /\ Modes \subseteq AllModes
  /\ PolicyAsks \in BOOLEAN
  /\ Kinds \subseteq {"safe", "send", "privileged"}
  /\ LongTexts \subseteq BOOLEAN
  /\ Faults \subseteq {"chat", "limit", "stream", "tool"}

VARIABLES
  messages,         (* ctx.messages                                        *)
  turnCount,        (* ctx.turn_count                                      *)
  pend,             (* ctx.pending_approvals                               *)
  media,            (* ctx.pending_media                                   *)
  pc,               (* where the runtime is                                *)
  mode,             (* the approval mode of the turn                       *)
  memory,           (* the memory context is part of the prompt            *)
  batch,            (* tool calls still to run                             *)
  asked,            (* pending_approval of the batch                       *)
  loopCount, retries, forced, round,
  nextId,           (* the next tool call id                               *)
  event,            (* the turn's outcome                                  *)
  ledger            (* history for the properties; no action reads it      *)

context == <<messages, turnCount, pend, media>>
counters == <<loopCount, retries, forced, round>>
vars == <<context, pc, mode, memory, batch, asked, counters, nextId, event,
          ledger>>

CallIds(calls) == {calls[i].id : i \in 1..Len(calls)}

Saturating(n) == IF n < 3 * (MaxCalls + 2) + 1 THEN n + 1 ELSE n

Init ==
  /\ messages = <<>> /\ turnCount = 0 /\ pend = <<>> /\ media = {}
  /\ pc = "idle" /\ mode = "policy" /\ memory = FALSE
  /\ batch = <<>> /\ asked = <<>>
  /\ loopCount = 0 /\ retries = 0 /\ forced = FALSE /\ round = 0
  /\ nextId = 1 /\ event = "none"
  /\ ledger = [ran |-> {}, gated |-> {}, approved |-> {}, inTurn |-> {},
               again |-> FALSE, requests |-> 0, queued |-> {}, sent |-> {}]

-----------------------------------------------------------------------------
(* The pieces of the loop. *)

Text(role, long) == [role |-> role, calls |-> {}, long |-> long]

ToolText(call, long) == [role |-> "tool", calls |-> {call.id}, long |-> long]

(* Keep the last n messages. *)
LastOf(msgs, n) ==
  IF Len(msgs) > n THEN SubSeq(msgs, Len(msgs) - n + 1, Len(msgs)) ELSE msgs

(* Mutant: one message less than the window is kept. *)
Trimmed_OffByOne == LastOf(messages, Window - 1)

(* trim_to(context_window_size). *)
Trimmed == LastOf(messages, Window)

Preapproved == mode \in {"auto", "subagent"}

(* Mutant: the manual mode is not enforced on safe tools. *)
Denied_SafeRuns(call) ==
  /\ call.kind = "privileged" /\ (PolicyAsks \/ mode = "manual")
  /\ ~Preapproved

(* ToolRegistry::execute returns ToolDenied. *)
Denied(call) ==
  /\ (call.kind = "privileged" /\ PolicyAsks) \/ mode = "manual"
  /\ ~Preapproved

(* A message longer than the cap is cut to the cap, and the mark appended to
   it makes it longer than the cap again: it stays long. *)
CompressionChanges ==
  \/ memory
  \/ \E i \in 1..Len(messages) : messages[i].long
  \/ Len(messages) > Keep[round]

(* What running a call records. *)
Ran(call) ==
  [ledger EXCEPT !.ran = @ \union {call.id},
                 !.again = @ \/ call.id \in ledger.ran]

Finish(outcome) ==
  /\ pc' = "idle" /\ event' = outcome /\ batch' = <<>> /\ asked' = <<>>

-----------------------------------------------------------------------------
(* A turn begins with the user's message. *)

StartTurn(m, long) ==
  /\ pc = "idle" /\ turnCount < MaxTurns
  /\ messages' = Append(messages, Text("user", long))
  /\ turnCount' = turnCount + 1
  /\ memory' \in BOOLEAN
  /\ mode' = m
  /\ pc' = "asking" /\ event' = "none"
  /\ loopCount' = 0 /\ retries' = 0 /\ forced' = FALSE /\ round' = 0
  /\ ledger' = [ledger EXCEPT !.inTurn = {}, !.requests = 0]
  /\ UNCHANGED <<pend, media, batch, asked, nextId>>

(* "max turns exceeded": the message stays, and nothing resets the count.
   Bound: one such turn. *)
RefuseTurn(long) ==
  /\ pc = "idle" /\ turnCount = MaxTurns
  /\ messages' = Append(messages, Text("user", long))
  /\ turnCount' = turnCount + 1
  /\ event' = "closed"
  /\ UNCHANGED <<pend, media, pc, mode, memory, batch, asked, counters,
                 nextId, ledger>>

(* The head of the loop: the context is trimmed and sent. *)
AskProvider ==
  /\ pc = "asking"
  /\ messages' = Trimmed
  /\ pc' = "waiting"
  /\ ledger' = [ledger EXCEPT !.requests = Saturating(@)]
  /\ UNCHANGED <<turnCount, pend, media, mode, memory, batch, asked,
                 counters, nextId, event>>

-----------------------------------------------------------------------------
(* The provider's answers. *)

(* Mutant: an error that is retried does not count. *)
ChatFails_Uncounted ==
  /\ "chat" \in Faults \/ ("limit" \in Faults /\ ~CompressionChanges)
  /\ pc = "waiting"
  /\ pc' = "asking"
  /\ UNCHANGED <<context, mode, memory, batch, asked, counters, nextId, event,
                 ledger>>

(* An error is retried twice in a row. *)
ChatFails ==
  /\ "chat" \in Faults \/ ("limit" \in Faults /\ ~CompressionChanges)
  /\ pc = "waiting"
  /\ retries' = retries + 1
  /\ IF retries < 2 THEN pc' = "asking" /\ UNCHANGED <<batch, asked, event>>
                    ELSE Finish("closed")
  /\ UNCHANGED <<context, mode, memory, loopCount, forced, round, nextId,
                 ledger>>

(* The prompt is too long: compress_context_for_token_limit. *)
ChatRejectsPrompt ==
  /\ "limit" \in Faults
  /\ pc = "waiting" /\ CompressionChanges
  /\ memory' = FALSE
  /\ messages' = LastOf(messages, Keep[round])
  /\ round' = IF round < 2 THEN round + 1 ELSE round
  /\ retries' = 0
  /\ pc' = "asking"
  /\ UNCHANGED <<turnCount, pend, media, mode, batch, asked, loopCount,
                 forced, nextId, event, ledger>>

ChatCallsTools(kinds) ==
  LET calls == [i \in 1..Len(kinds) |->
                  [id |-> nextId + i - 1, kind |-> kinds[i]]]
  IN
  /\ pc = "waiting"
  /\ nextId + Len(kinds) - 1 \in Ids
  /\ nextId' = nextId + Len(kinds)
  /\ messages' = Append(messages, [Text("assistant", FALSE) EXCEPT
                                     !.calls = CallIds(calls)])
  /\ batch' = calls /\ asked' = <<>>
  /\ retries' = 0
  /\ pc' = "running"
  /\ ledger' = [ledger EXCEPT !.gated = @ \union
       {calls[i].id : i \in {j \in 1..Len(calls) :
          \/ mode = "manual"
          \/ mode = "policy" /\ PolicyAsks /\ calls[j].kind = "privileged"}}]
  /\ UNCHANGED <<turnCount, pend, media, mode, memory, loopCount, forced,
                 round, event>>

(* A text that asks for permission in plain words is answered once. *)
ChatAsksPermission ==
  /\ pc = "waiting" /\ ~forced
  /\ messages' = messages \o <<Text("assistant", FALSE), Text("system", FALSE)>>
  /\ forced' = TRUE /\ retries' = 0
  /\ pc' = "asking"
  /\ UNCHANGED <<turnCount, pend, media, mode, memory, batch, asked,
                 loopCount, round, nextId, event, ledger>>

(* A final text: process returns it, process_stream_input asks for it again
   as a stream. *)
ChatAnswers(long, streamed) ==
  /\ pc = "waiting"
  /\ retries' = 0
  /\ IF streamed
     THEN pc' = "streaming" /\ UNCHANGED <<messages, event>>
     ELSE /\ messages' = Append(messages, Text("assistant", long))
          /\ pc' = "storing" /\ event' = "done"
  /\ UNCHANGED <<turnCount, pend, media, mode, memory, batch, asked,
                 loopCount, forced, round, nextId, ledger>>

StreamFails ==
  /\ "stream" \in Faults
  /\ pc = "streaming"
  /\ Finish("closed")
  /\ UNCHANGED <<context, mode, memory, counters, nextId, ledger>>

(* Mutant: the queued files are read, not drained. *)
StreamEnds_NotDrained(long) ==
  /\ pc = "streaming"
  /\ messages' = Append(messages, Text("assistant", long))
  /\ ledger' = [ledger EXCEPT !.sent = @ \union media]
  /\ pc' = "storing" /\ event' = "done"
  /\ UNCHANGED <<turnCount, pend, media, mode, memory, batch, asked, counters,
                 nextId>>

(* The stream ends: queued files, then Done. *)
StreamEnds(long) ==
  /\ pc = "streaming"
  /\ messages' = Append(messages, Text("assistant", long))
  /\ media' = {}
  /\ ledger' = [ledger EXCEPT !.sent = @ \union media]
  /\ pc' = "storing" /\ event' = "done"
  /\ UNCHANGED <<turnCount, pend, mode, memory, batch, asked, counters,
                 nextId>>

(* store_memory_turn never fails the turn. *)
StoreMemory ==
  /\ pc = "storing"
  /\ pc' = "idle"
  /\ UNCHANGED <<context, mode, memory, batch, asked, counters, nextId, event,
                 ledger>>

-----------------------------------------------------------------------------
(* The tool calls of a response, in their order. *)

(* The budget of the turn is spent: the rest of the batch is dropped. *)
OverBudget ==
  /\ pc = "running" /\ batch # <<>>
  /\ loopCount >= MaxCalls
  /\ loopCount' = loopCount + 1
  /\ batch' = <<>>
  /\ UNCHANGED <<context, pc, mode, memory, asked, retries, forced, round,
                 nextId, event, ledger>>

WithinBudget ==
  /\ pc = "running" /\ batch # <<>>
  /\ loopCount < MaxCalls
  /\ loopCount' = loopCount + 1

CallDenied ==
  /\ WithinBudget
  /\ Denied(Head(batch))
  /\ asked' = Append(asked, Head(batch))
  /\ batch' = Tail(batch)
  /\ UNCHANGED <<context, pc, mode, memory, retries, forced, round, nextId,
                 event, ledger>>

(* The call runs; an error and a timeout become its result, and only a
   success queues its file. *)
CallRuns(outcome, long) ==
  LET call == Head(batch)
      file == IF outcome = "ok" /\ call.kind = "send" THEN {call.id} ELSE {}
  IN
  /\ WithinBudget
  /\ ~Denied(call)
  /\ outcome = "ok" \/ "tool" \in Faults
  /\ messages' = Append(messages, ToolText(call, long))
  /\ media' = media \union file
  /\ batch' = Tail(batch)
  /\ ledger' = [Ran(call) EXCEPT !.queued = @ \union file,
                                 !.inTurn = @ \union {call.id}]
  /\ UNCHANGED <<turnCount, pend, pc, mode, memory, asked, retries, forced,
                 round, nextId, event>>

(* The tool does not exist or is not enabled. *)
CallMissing ==
  /\ WithinBudget
  /\ "tool" \in Faults
  /\ messages' = Append(messages, ToolText(Head(batch), FALSE))
  /\ batch' = Tail(batch)
  /\ UNCHANGED <<turnCount, pend, media, pc, mode, memory, asked, retries,
                 forced, round, nextId, event, ledger>>

AskApproval ==
  /\ pc = "running" /\ batch = <<>> /\ asked # <<>>
  /\ pend' = asked
  /\ Finish("asked")
  /\ UNCHANGED <<messages, turnCount, media, mode, memory, counters, nextId,
                 ledger>>

StopOverBudget ==
  /\ pc = "running" /\ batch = <<>> /\ asked = <<>>
  /\ loopCount > MaxCalls
  /\ Finish("closed")
  /\ UNCHANGED <<context, mode, memory, counters, nextId, ledger>>

(* Mutant: the counter starts again with every response. *)
NextRound_ResetsCount ==
  /\ pc = "running" /\ batch = <<>> /\ asked = <<>>
  /\ loopCount <= MaxCalls
  /\ pc' = "asking"
  /\ loopCount' = 0
  /\ UNCHANGED <<context, mode, memory, batch, asked, retries, forced, round,
                 nextId, event, ledger>>

NextRound ==
  /\ pc = "running" /\ batch = <<>> /\ asked = <<>>
  /\ loopCount <= MaxCalls
  /\ pc' = "asking"
  /\ UNCHANGED <<context, mode, memory, batch, asked, counters, nextId, event,
                 ledger>>

-----------------------------------------------------------------------------
(* process_approved. *)

(* Mutant: the approvals are read, not taken. *)
Approve_Kept ==
  /\ pc = "idle" /\ pend # <<>>
  /\ batch' = pend
  /\ pc' = "approved" /\ event' = "none"
  /\ ledger' = [ledger EXCEPT !.approved = @ \union CallIds(pend)]
  /\ UNCHANGED <<context, mode, memory, asked, counters, nextId>>

Approve ==
  /\ pc = "idle" /\ pend # <<>>
  /\ batch' = pend /\ pend' = <<>>
  /\ pc' = "approved" /\ event' = "none"
  /\ ledger' = [ledger EXCEPT !.approved = @ \union CallIds(pend)]
  /\ UNCHANGED <<messages, turnCount, media, mode, memory, asked, counters,
                 nextId>>

(* The file of an approved call is not queued. *)
RunApproved(long) ==
  /\ pc = "approved" /\ batch # <<>>
  /\ messages' = Append(messages, ToolText(Head(batch), long))
  /\ batch' = Tail(batch)
  /\ ledger' = Ran(Head(batch))
  /\ UNCHANGED <<turnCount, pend, media, pc, mode, memory, asked, counters,
                 nextId, event>>

(* continue_from_tools: one request, untrimmed; tool calls in its answer are
   ignored. *)
ContinueAnswers(long) ==
  /\ pc = "approved" /\ batch = <<>>
  /\ messages' = Append(messages, Text("assistant", long))
  /\ pc' = "storing" /\ event' = "done"
  /\ UNCHANGED <<turnCount, pend, media, mode, memory, batch, asked, counters,
                 nextId, ledger>>

ContinueFails ==
  /\ Faults \intersect {"chat", "limit"} # {}
  /\ pc = "approved" /\ batch = <<>>
  /\ Finish("closed")
  /\ UNCHANGED <<context, mode, memory, counters, nextId, ledger>>

(* The front end empties the list on a denial. *)
Deny ==
  /\ pc = "idle" /\ pend # <<>>
  /\ pend' = <<>>
  /\ UNCHANGED <<messages, turnCount, media, pc, mode, memory, batch, asked,
                 counters, nextId, event, ledger>>

(* /reset: the front end drops the context and makes a new one. *)
Reset ==
  /\ pc = "idle" /\ turnCount > 0
  /\ messages' = <<>> /\ turnCount' = 0 /\ pend' = <<>> /\ media' = {}
  /\ ledger' = [ledger EXCEPT !.queued = @ \ media]
  /\ UNCHANGED <<pc, mode, memory, batch, asked, counters, nextId, event>>

-----------------------------------------------------------------------------
Outcomes == {"ok", "error"}

Batches == UNION {[1..n -> Kinds] : n \in 1..MaxBatch}

Chat ==
  \/ AskProvider
  \/ ChatFails
  \/ ChatRejectsPrompt
  \/ \E kinds \in Batches : ChatCallsTools(kinds)
  \/ ChatAsksPermission
  \/ \E long \in LongTexts, streamed \in BOOLEAN : ChatAnswers(long, streamed)
  \/ StreamFails
  \/ \E long \in LongTexts : StreamEnds(long)
  \/ StoreMemory

RunTools ==
  \/ OverBudget
  \/ CallDenied
  \/ \E outcome \in Outcomes, long \in LongTexts : CallRuns(outcome, long)
  \/ CallMissing
  \/ AskApproval
  \/ StopOverBudget
  \/ NextRound

RunPending ==
  \/ \E long \in LongTexts : RunApproved(long)
  \/ \E long \in LongTexts : ContinueAnswers(long)
  \/ ContinueFails

User ==
  \/ \E m \in Modes, long \in LongTexts : StartTurn(m, long)
  \/ \E long \in LongTexts : RefuseTurn(long)
  \/ Approve
  \/ Deny
  \/ Reset

Next == User \/ Chat \/ RunTools \/ RunPending

Spec == Init /\ [][Next]_vars

(* HTTP requests and tools end (they have timeouts, see ToolCalls for the one
   that has none). *)
Fairness == WF_vars(Chat \/ RunTools \/ RunPending)

FairSpec == Spec /\ Fairness

-----------------------------------------------------------------------------
(* Properties. *)

Ledger == [ran : SUBSET Ids, gated : SUBSET Ids, approved : SUBSET Ids,
           inTurn : SUBSET Ids, again : BOOLEAN, requests : Nat,
           queued : SUBSET Ids, sent : SUBSET Ids]

(* The type of every variable, and which of them a resting runtime has
   cleared. *)
TypeOK ==
  /\ messages \in Seq(Message)
  /\ turnCount \in 0..MaxTurns + 1
  /\ pend \in Seq(Call) /\ batch \in Seq(Call) /\ asked \in Seq(Call)
  /\ media \subseteq Ids
  /\ pc \in {"idle", "asking", "waiting", "running", "streaming", "storing",
             "approved"}
  /\ mode \in AllModes /\ memory \in BOOLEAN
  /\ loopCount \in 0..MaxCalls + 1 /\ retries \in 0..3
  /\ forced \in BOOLEAN /\ round \in 0..2
  /\ nextId \in 1..MaxIds + 1
  /\ event \in {"none", "done", "asked", "closed"}
  /\ ledger \in Ledger

(* A tool call that the mode of its turn asks about runs only after the user
   approved it: no interleaving of turns, partial batches and approvals
   slips one through. *)
GatedCallsRunApproved == ledger.ran \intersect ledger.gated \subseteq ledger.approved

(* A tool call runs at most once: a batch that was asked about in part does
   not run its other part again. *)
CallsRunOnce == ~ledger.again

(* A turn runs at most max_tool_calls_per_turn tool calls, however they are
   spread over responses. *)
ToolBudget == Cardinality(ledger.inTurn) <= MaxCalls

(* Retries, the plain-text retry and the tool rounds together: a turn asks
   the provider at most three times per tool call, confirmation and answer. *)
RequestBudget == ledger.requests <= 3 * (MaxCalls + 2)

(* A turn keeps its shape and its two budgets, however retries, rounds,
   partial batches, approvals and resets follow each other. *)
TurnInv == TypeOK /\ ToolBudget /\ RequestBudget

(* What the turn has appended after its question: at most two messages for a
   tool call or for the confirmation. *)
Behind == 2 * (loopCount + IF forced THEN 1 ELSE 0)

(* The limits that may have cut the turn's messages so far. *)
Limits == {Window} \union (IF round = 0 THEN {} ELSE {Keep[r] : r \in 0..round})

(* As long as no limit is smaller than what the turn itself has appended, a
   request of the loop shows the model the question it is to answer, whatever
   came before the turn.  Beyond, the question is cut away and the turn goes on
   without it: with the shipped 20 messages and 10 calls, after the tenth call
   made one at a time. *)
QuestionKept ==
  pc = "waiting" /\ (\A n \in Limits : Behind < n) =>
    \E i \in 1..Len(messages) : messages[i].role = "user"

(* A file is sent once, after it was queued and before the answer. *)
MediaSentOnce ==
  /\ media \intersect ledger.sent = {}
  /\ media \union ledger.sent \subseteq ledger.queued

(* What has been done is not done again: no call runs and no file is sent twice. *)
OnlyOnce == CallsRunOnce /\ MediaSentOnce

(* A turn or an approved continuation comes to an end. *)
TurnEnds == pc # "idle" ~> pc = "idle"

(* The abstract specification of a turn. *)
Phase ==
  CASE pc = "idle" -> "idle"
    [] pc = "approved" -> "approved"
    [] pc = "storing" -> "answered"
    [] OTHER -> "working"

Outcome == INSTANCE TurnOutcome WITH
  phase <- Phase,
  pend <- CallIds(pend),
  todo <- IF pc = "approved" THEN CallIds(batch) ELSE {},
  ran <- ledger.ran

(* The runtime keeps what TurnOutcome promises to its callers. *)
OutcomeSpec == Outcome!Spec

=============================================================================
