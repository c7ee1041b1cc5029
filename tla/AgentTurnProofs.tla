-------------------------- MODULE AgentTurnProofs --------------------------
(* Proofs about AgentTurn for every budget, window, policy, set of tools and
   choice of what fails.                                                     *)
EXTENDS AgentTurn, TLAPS, FiniteSetTheorems

-----------------------------------------------------------------------------
(* Sequences of calls and of messages. *)

Distinct(calls) ==
  \A i, j \in 1..Len(calls) : calls[i].id = calls[j].id => i = j

LEMMA CallsAppend ==
  ASSUME NEW s \in Seq(Call), NEW x \in Call
  PROVE  /\ Append(s, x) \in Seq(Call)
         /\ CallIds(Append(s, x)) = CallIds(s) \union {x.id}
         /\ Distinct(s) /\ x.id \notin CallIds(s) => Distinct(Append(s, x))
<1> DEFINE a == Append(s, x)
<1>1. /\ a \in Seq(Call) /\ Len(s) \in Nat /\ Len(a) = Len(s) + 1
      /\ \A i \in 1..Len(s) : a[i] = s[i]
      /\ a[Len(s) + 1] = x
  OBVIOUS
<1> HIDE DEF a
<1>2. CallIds(a) = CallIds(s) \union {x.id}
  BY <1>1 DEF CallIds
<1>3. ASSUME Distinct(s), x.id \notin CallIds(s) PROVE Distinct(a)
  BY <1>1, <1>3 DEF Distinct, CallIds
<1>4. QED
  BY <1>1, <1>2, <1>3 DEF a

LEMMA CallsTail ==
  ASSUME NEW s \in Seq(Call), s # <<>>
  PROVE  /\ Head(s) \in Call /\ Tail(s) \in Seq(Call)
         /\ CallIds(s) = CallIds(Tail(s)) \union {Head(s).id}
         /\ Distinct(s) => Distinct(Tail(s)) /\ Head(s).id \notin CallIds(Tail(s))
         /\ 1 \in 1..Len(s) /\ s[1] = Head(s)
         /\ \A i \in 1..Len(Tail(s)) : i + 1 \in 1..Len(s) /\ Tail(s)[i] = s[i + 1]
<1> DEFINE h == Head(s)  t == Tail(s)
<1>1. /\ h \in Call /\ t \in Seq(Call) /\ Len(s) \in Nat \ {0} /\ Len(t) = Len(s) - 1
      /\ \A i \in 1..Len(t) : t[i] = s[i + 1]
      /\ s[1] = h
  OBVIOUS
<1> HIDE DEF h, t
<1>2. \A i \in 1..Len(s) : i = 1 \/ i - 1 \in 1..Len(t)
  BY <1>1
<1>3. \A i \in 1..Len(t) : i + 1 \in 1..Len(s) /\ i + 1 # 1
  BY <1>1
<1>4. CallIds(s) \subseteq CallIds(t) \union {h.id}
  <2>1. ASSUME NEW i \in 1..Len(s) PROVE s[i].id \in CallIds(t) \union {h.id}
    <3>1. CASE i = 1
      BY <1>1, <3>1
    <3>2. CASE i # 1
      <4>1. i - 1 \in 1..Len(t) /\ t[i - 1] = s[i]
        BY <1>1, <1>2, <3>2
      <4>2. QED
        BY <4>1 DEF CallIds
    <3>3. QED
      BY <3>1, <3>2
  <2>2. QED
    BY <2>1 DEF CallIds
<1>5. CallIds(t) \union {h.id} \subseteq CallIds(s)
  <2>1. h.id \in CallIds(s)
    BY <1>1 DEF CallIds
  <2>2. QED
    BY <1>1, <1>3, <2>1 DEF CallIds
<1>6. ASSUME Distinct(s) PROVE Distinct(t) /\ h.id \notin CallIds(t)
  <2>1. Distinct(t)
    BY <1>1, <1>3, <1>6 DEF Distinct
  <2>2. ASSUME NEW i \in 1..Len(t), t[i].id = h.id PROVE FALSE
    BY <1>1, <1>3, <1>6, <2>2 DEF Distinct
  <2>3. QED
    BY <2>1, <2>2 DEF CallIds
<1>7. 1 \in 1..Len(s)
  BY <1>1
<1>8. QED
  BY <1>1, <1>3, <1>4, <1>5, <1>6, <1>7 DEF h, t

LEMMA NoCalls == CallIds(<<>>) = {} /\ Distinct(<<>>) /\ <<>> \in Seq(Call)
BY DEF CallIds, Distinct

LEMMA SomeCalls ==
  ASSUME NEW s \in Seq(Call), s # <<>>
  PROVE  CallIds(s) # {}
<1>1. Len(s) \in Nat /\ Len(s) # 0
  BY DEF Call
<1>2. 1 \in 1..Len(s)
  BY <1>1
<1>3. s[1].id \in CallIds(s)
  BY <1>2 DEF CallIds
<1>4. QED
  BY <1>3

LEMMA CallIdsType ==
  ASSUME NEW s \in Seq(Call)
  PROVE  CallIds(s) \subseteq Ids
<1>1. \A i \in 1..Len(s) : s[i] \in Call
  OBVIOUS
<1>2. \A x \in Call : x.id \in Ids
  BY DEF Call
<1>3. QED
  BY <1>1, <1>2 DEF CallIds

(* The calls of one response carry new ids, in order. *)
LEMMA NewCalls ==
  ASSUME NEW kinds \in Batches, NEW n \in Nat \ {0}, n + Len(kinds) - 1 \in Ids
  PROVE  LET calls == [i \in 1..Len(kinds) |-> [id |-> n + i - 1, kind |-> kinds[i]]] IN
         /\ Len(kinds) \in Nat \ {0}
         /\ calls \in Seq(Call) /\ calls # <<>> /\ Len(calls) = Len(kinds)
         /\ Distinct(calls)
         /\ CallIds(calls) \subseteq n..(n + Len(kinds) - 1)
<1> DEFINE calls == [i \in 1..Len(kinds) |-> [id |-> n + i - 1, kind |-> kinds[i]]]
<1>1. PICK m \in 1..MaxBatch : kinds \in [1..m -> Kinds]
  BY DEF Batches
<1>2. m \in Nat \ {0} /\ Len(kinds) = m
  BY <1>1, TurnConstants
<1>3. \A i \in 1..m : n + i - 1 \in Ids /\ n + i - 1 \in n..(n + m - 1)
  BY <1>2, TurnConstants DEF Ids
<1>4. \A i \in 1..m : kinds[i] \in {"safe", "send", "privileged"}
  BY <1>1, TurnConstants
<1>5. calls \in [1..m -> Call]
  BY <1>2, <1>3, <1>4 DEF Call
<1>6. calls \in Seq(Call) /\ Len(calls) = m
  BY <1>2, <1>5
<1>7. calls # <<>>
  BY <1>2, <1>6
<1>8. \A i \in 1..m : calls[i].id = n + i - 1
  BY <1>2
<1> HIDE DEF calls
<1>9. Distinct(calls)
  BY <1>2, <1>6, <1>8 DEF Distinct
<1>10. CallIds(calls) \subseteq n..(n + m - 1)
  BY <1>3, <1>6, <1>8 DEF CallIds
<1>11. QED
  BY <1>2, <1>6, <1>7, <1>9, <1>10 DEF calls

LEMMA LastOfType ==
  ASSUME NEW s \in Seq(Message), NEW n \in Nat \ {0}
  PROVE  /\ LastOf(s, n) \in Seq(Message)
         /\ Len(s) <= n => LastOf(s, n) = s
         /\ Len(s) > n => /\ Len(LastOf(s, n)) = n
                          /\ \A i \in 1..n : LastOf(s, n)[i] = s[Len(s) - n + i]
BY DEF LastOf

-----------------------------------------------------------------------------
(* The shape of a turn: what a phase has cleared and which counters it may have
   spent.  TypeOK is not inductive without it: a retry and a call of the batch
   count up only where there is room left. *)
Shape ==
  /\ pc \notin {"running", "approved"} => batch = <<>>
  /\ pc # "running" => asked = <<>>
  /\ pc \in {"asking", "waiting", "running"} => retries <= 2
  /\ pc \in {"asking", "waiting", "streaming"} => loopCount <= MaxCalls
  /\ pc = "running" /\ batch # <<>> => loopCount <= MaxCalls

LEMMA ShapeInit == Init => TypeOK /\ Shape
<1> SUFFICES ASSUME Init PROVE TypeOK /\ Shape
  OBVIOUS
<1>1. ledger \in Ledger
  BY DEF Init, Ledger
<1>2. messages \in Seq(Message) /\ pend \in Seq(Call) /\ batch \in Seq(Call) /\ asked \in Seq(Call)
  BY DEF Init
<1>3. turnCount \in 0..MaxTurns + 1 /\ loopCount \in 0..MaxCalls + 1 /\ nextId \in 1..MaxIds + 1
      /\ retries \in 0..3 /\ round \in 0..2
  BY TurnConstants DEF Init
<1>4. QED
  BY <1>1, <1>2, <1>3 DEF Init, TypeOK, Shape, AllModes

(* The history record keeps its type. *)
LEMMA RecordTypes ==
  ASSUME TypeOK, NEW S \in SUBSET Ids, NEW Q \in SUBSET Ids, NEW b \in BOOLEAN, NEW n \in Nat
  PROVE  /\ [ledger EXCEPT !.inTurn = {}, !.requests = 0] \in Ledger
         /\ [ledger EXCEPT !.requests = n] \in Ledger
         /\ [ledger EXCEPT !.gated = S] \in Ledger
         /\ [ledger EXCEPT !.sent = S] \in Ledger
         /\ [ledger EXCEPT !.approved = S] \in Ledger
         /\ [ledger EXCEPT !.queued = S] \in Ledger
         /\ [ledger EXCEPT !.ran = S, !.again = b] \in Ledger
BY DEF TypeOK, Ledger

LEMMA TextTypes ==
  /\ \A role \in {"user", "assistant", "system", "tool"}, long \in LongTexts :
       Text(role, long) \in Message
  /\ \A role \in {"user", "assistant", "system", "tool"} : Text(role, FALSE) \in Message
  /\ \A call \in Call, long \in LongTexts : ToolText(call, long) \in Message
  /\ \A call \in Call : ToolText(call, FALSE) \in Message
  /\ \A S \in SUBSET Ids : [Text("assistant", FALSE) EXCEPT !.calls = S] \in Message
<1>1. \A role \in {"user", "assistant", "system", "tool"}, long \in BOOLEAN, S \in SUBSET Ids :
        [role |-> role, calls |-> S, long |-> long] \in Message
  BY DEF Message
<1>2. LongTexts \subseteq BOOLEAN /\ \A call \in Call : {call.id} \in SUBSET Ids
  BY TurnConstants DEF Call
<1>3. /\ \A role \in {"user", "assistant", "system", "tool"}, long \in LongTexts :
           Text(role, long) \in Message
      /\ \A role \in {"user", "assistant", "system", "tool"} : Text(role, FALSE) \in Message
  BY <1>1, <1>2 DEF Text
<1>4. /\ \A call \in Call, long \in LongTexts : ToolText(call, long) \in Message
      /\ \A call \in Call : ToolText(call, FALSE) \in Message
  BY <1>1, <1>2 DEF ToolText
<1>5. \A m \in Message, S \in SUBSET Ids : [m EXCEPT !.calls = S] \in Message
  BY DEF Message
<1>6. Text("assistant", FALSE) \in Message
  BY <1>3
<1>7. QED
  BY <1>3, <1>4, <1>5, <1>6

LEMMA RanType ==
  ASSUME TypeOK, NEW call \in Call
  PROVE  /\ Ran(call) \in Ledger
         /\ Ran(call).ran = ledger.ran \union {call.id}
         /\ Ran(call).again = (ledger.again \/ call.id \in ledger.ran)
         /\ Ran(call).gated = ledger.gated /\ Ran(call).approved = ledger.approved
         /\ Ran(call).inTurn = ledger.inTurn /\ Ran(call).requests = ledger.requests
         /\ Ran(call).queued = ledger.queued /\ Ran(call).sent = ledger.sent
<1> DEFINE r == ledger.ran \union {call.id}
           a == (ledger.again \/ call.id \in ledger.ran)
<1>1. r \in SUBSET Ids /\ a \in BOOLEAN /\ ledger \in Ledger
  BY DEF TypeOK, Ledger, Call
<1>2. Ran(call) = [ledger EXCEPT !.ran = r, !.again = a]
  BY DEF Ran
<1> HIDE DEF r, a
<1> DEFINE x == [ledger EXCEPT !.ran = r, !.again = a]
<1>3. /\ x.ran = r /\ x.again = a
      /\ x.gated = ledger.gated /\ x.approved = ledger.approved
      /\ x.inTurn = ledger.inTurn /\ x.requests = ledger.requests
      /\ x.queued = ledger.queued /\ x.sent = ledger.sent
  BY <1>1 DEF Ledger
<1>4. x \in Ledger
  BY <1>1, RecordTypes
<1> HIDE DEF x
<1>5. QED
  BY <1>2, <1>3, <1>4 DEF r, a, x

LEMMA ChatType ==
  ASSUME TypeOK, Shape, Chat
  PROVE  TypeOK' /\ Shape'
<1> USE DEF context, counters, Finish
<1>1. ledger \in Ledger /\ messages \in Seq(Message)
  BY DEF TypeOK
<1>2. MaxCalls \in Nat /\ MaxIds \in Nat /\ Window \in Nat \ {0} /\ \A r \in 0..2 : Keep[r] \in Nat \ {0}
  BY TurnConstants
<1>3. CASE AskProvider
  <2>1. messages' \in Seq(Message)
    BY <1>1, <1>2, <1>3, LastOfType DEF AskProvider, Trimmed
  <2>2. ledger.requests \in Nat
    BY <1>1 DEF Ledger
  <2>3. Saturating(ledger.requests) \in Nat
    BY <1>2, <2>2 DEF Saturating
  <2>4. ledger' \in Ledger
    BY <1>3, <2>3, RecordTypes DEF AskProvider
  <2>5. QED
    BY <1>3, <2>1, <2>4 DEF AskProvider, TypeOK, Shape
<1>4. CASE ChatFails
  <2>1. /\ pc = "waiting" /\ retries' = retries + 1
        /\ UNCHANGED <<messages, turnCount, pend, media, mode, memory, loopCount, forced, round,
                       nextId, ledger>>
        /\ \/ retries < 2 /\ pc' = "asking" /\ UNCHANGED <<batch, asked, event>>
           \/ pc' = "idle" /\ event' = "closed" /\ batch' = <<>> /\ asked' = <<>>
    BY <1>4 DEF ChatFails
  <2>2. retries' \in 0..3 /\ (retries < 2 => retries' <= 2)
    BY <2>1 DEF TypeOK, Shape
  <2>3. QED
    BY <2>1, <2>2, NoCalls DEF TypeOK, Shape
<1>5. CASE ChatRejectsPrompt
  <2>1. messages' \in Seq(Message)
    BY <1>1, <1>2, <1>5, LastOfType DEF ChatRejectsPrompt, TypeOK
  <2>2. round' \in 0..2
    BY <1>5 DEF ChatRejectsPrompt, TypeOK
  <2>3. /\ pc = "waiting" /\ pc' = "asking" /\ memory' = FALSE /\ retries' = 0
        /\ UNCHANGED <<turnCount, pend, media, mode, batch, asked, loopCount, forced, nextId,
                       event, ledger>>
    BY <1>5 DEF ChatRejectsPrompt
  <2>4. memory' \in BOOLEAN
    BY <2>3
  <2>5. Shape'
    BY <2>3 DEF Shape
  <2>6. QED
    BY <2>1, <2>2, <2>3, <2>4, <2>5 DEF TypeOK
<1>6. ASSUME NEW kinds \in Batches, ChatCallsTools(kinds) PROVE TypeOK' /\ Shape'
  <2>0. nextId + Len(kinds) - 1 \in Ids
    BY <1>6 DEF ChatCallsTools
  <2>1. nextId \in Nat \ {0} /\ nextId + Len(kinds) - 1 \in Ids
    BY <1>2, <2>0 DEF TypeOK
  <2> DEFINE calls == [i \in 1..Len(kinds) |-> [id |-> nextId + i - 1, kind |-> kinds[i]]]
             gated == ledger.gated \union {calls[i].id : i \in {j \in 1..Len(calls) :
                        \/ mode = "manual"
                        \/ mode = "policy" /\ PolicyAsks /\ calls[j].kind = "privileged"}}
  <2>2. calls \in Seq(Call) /\ Len(kinds) \in Nat \ {0}
    BY <2>1, NewCalls
  <2>3. /\ nextId' = nextId + Len(kinds) /\ batch' = calls /\ asked' = <<>>
        /\ messages' = Append(messages, [Text("assistant", FALSE) EXCEPT !.calls = CallIds(calls)])
        /\ ledger' = [ledger EXCEPT !.gated = gated] /\ pc' = "running" /\ retries' = 0
        /\ pc = "waiting"
        /\ UNCHANGED <<turnCount, pend, media, mode, memory, loopCount, forced, round, event>>
    BY <1>6 DEF ChatCallsTools
  <2> HIDE DEF calls
  <2>4. CallIds(calls) \in SUBSET Ids
    BY <2>2, CallIdsType
  <2>5. gated \in SUBSET Ids
    BY <1>1, <2>4 DEF CallIds, Ledger
  <2> HIDE DEF gated
  <2>6. ledger' \in Ledger
    BY <2>3, <2>5, RecordTypes
  <2>7. messages' \in Seq(Message)
    <3>1. [Text("assistant", FALSE) EXCEPT !.calls = CallIds(calls)] \in Message
      BY <2>4, TextTypes
    <3>2. QED
      BY <1>1, <2>3, <3>1
  <2>8. nextId' \in 1..MaxIds + 1
    <3>1. nextId + Len(kinds) - 1 <= MaxIds /\ MaxIds \in Nat
      BY <1>2, <2>1 DEF Ids
    <3>2. nextId' = nextId + Len(kinds)
      BY <2>3
    <3>3. QED
      BY <2>1, <2>2, <3>1, <3>2
  <2>9. QED
    BY <2>2, <2>3, <2>6, <2>7, <2>8 DEF TypeOK, Shape
<1>7. CASE ChatAsksPermission
  <2>1. Text("assistant", FALSE) \in Message /\ Text("system", FALSE) \in Message
    BY TextTypes
  <2>2. \A x, y \in Message : messages \o <<x, y>> \in Seq(Message)
    BY <1>1
  <2>3. messages' \in Seq(Message)
    BY <1>7, <2>1, <2>2 DEF ChatAsksPermission
  <2>4. /\ pc = "waiting" /\ pc' = "asking" /\ forced' = TRUE /\ retries' = 0
        /\ UNCHANGED <<turnCount, pend, media, mode, memory, batch, asked, loopCount, round,
                       nextId, event, ledger>>
    BY <1>7 DEF ChatAsksPermission
  <2>5. QED
    BY <2>3, <2>4 DEF TypeOK, Shape
<1>8. ASSUME NEW long \in LongTexts, NEW streamed \in BOOLEAN, ChatAnswers(long, streamed)
      PROVE  TypeOK' /\ Shape'
  <2>1. messages' \in Seq(Message)
    BY <1>1, <1>8, TextTypes DEF ChatAnswers
  <2>2. QED
    BY <1>8, <2>1 DEF ChatAnswers, TypeOK, Shape
<1>9. CASE StreamFails
  BY <1>9, NoCalls DEF StreamFails, TypeOK, Shape
<1>10. ASSUME NEW long \in LongTexts, StreamEnds(long) PROVE TypeOK' /\ Shape'
  <2>1. messages' \in Seq(Message)
    BY <1>1, <1>10, TextTypes DEF StreamEnds
  <2>2. ledger.sent \union media \in SUBSET Ids
    BY <1>1 DEF TypeOK, Ledger
  <2>3. ledger' \in Ledger
    BY <1>10, <2>2, RecordTypes DEF StreamEnds
  <2>4. QED
    BY <1>10, <2>1, <2>3 DEF StreamEnds, TypeOK, Shape
<1>11. CASE StoreMemory
  BY <1>11 DEF StoreMemory, TypeOK, Shape
<1>12. QED
  BY <1>3, <1>4, <1>5, <1>6, <1>7, <1>8, <1>9, <1>10, <1>11 DEF Chat

LEMMA RunToolsType ==
  ASSUME TypeOK, Shape, RunTools
  PROVE  TypeOK' /\ Shape'
<1> USE DEF context, counters, Finish
<1>1. /\ ledger \in Ledger /\ messages \in Seq(Message) /\ MaxCalls \in Nat
      /\ loopCount \in 0..MaxCalls + 1
  BY TurnConstants DEF TypeOK
<1>2. CASE OverBudget
  BY <1>1, <1>2, NoCalls DEF OverBudget, TypeOK, Shape
<1>3. ASSUME WithinBudget
      PROVE  /\ loopCount' \in 0..MaxCalls + 1 /\ loopCount' <= MaxCalls
             /\ Head(batch) \in Call /\ Tail(batch) \in Seq(Call) /\ pc = "running"
  BY <1>1, <1>3, CallsTail DEF WithinBudget, TypeOK
<1>4. CASE CallDenied
  <2>1. Append(asked, Head(batch)) \in Seq(Call)
    BY <1>3, <1>4 DEF CallDenied, TypeOK
  <2>2. QED
    BY <1>3, <1>4, <2>1 DEF CallDenied, TypeOK, Shape
<1>5. ASSUME NEW outcome \in Outcomes, NEW long \in LongTexts, CallRuns(outcome, long)
      PROVE  TypeOK' /\ Shape'
  <2> DEFINE call == Head(batch)
             file == IF outcome = "ok" /\ call.kind = "send" THEN {call.id} ELSE {}
  <2>1. WithinBudget /\ call \in Call /\ call.id \in Ids
    BY <1>3, <1>5 DEF CallRuns, Call
  <2>2. file \in SUBSET Ids
    BY <2>1
  <2>3. messages' \in Seq(Message)
    BY <1>1, <1>5, <2>1, TextTypes DEF CallRuns
  <2>4. /\ ledger' = [Ran(call) EXCEPT !.queued = @ \union file, !.inTurn = @ \union {call.id}]
        /\ media' = media \union file /\ batch' = Tail(batch)
        /\ UNCHANGED <<turnCount, pend, pc, mode, memory, asked, retries, forced,
                       round, nextId, event>>
    BY <1>5 DEF CallRuns
  <2> HIDE DEF call, file
  <2>5. Ran(call) \in Ledger
    BY <2>1, RanType
  <2>6. ledger' \in Ledger
    BY <2>1, <2>2, <2>4, <2>5 DEF Ledger
  <2>7. QED
    BY <1>3, <2>1, <2>2, <2>3, <2>4, <2>6 DEF TypeOK, Shape
<1>6. CASE CallMissing
  <2>0. Head(batch) \in Call
    BY <1>3, <1>6 DEF CallMissing
  <2>1. messages' \in Seq(Message)
    <3> DEFINE answer == ToolText(Head(batch), FALSE)
    <3>1. answer \in Message /\ messages' = Append(messages, answer)
      BY <1>6, <2>0, TextTypes DEF CallMissing
    <3> HIDE DEF answer
    <3>2. QED
      BY <1>1, <3>1
  <2>2. QED
    BY <1>3, <1>6, <2>1 DEF CallMissing, TypeOK, Shape
<1>7. CASE AskApproval
  BY <1>7, NoCalls DEF AskApproval, TypeOK, Shape
<1>8. CASE StopOverBudget
  BY <1>8, NoCalls DEF StopOverBudget, TypeOK, Shape
<1>9. CASE NextRound
  BY <1>1, <1>9 DEF NextRound, TypeOK, Shape
<1>10. QED
  BY <1>2, <1>4, <1>5, <1>6, <1>7, <1>8, <1>9 DEF RunTools

LEMMA RunPendingType ==
  ASSUME TypeOK, Shape, RunPending
  PROVE  TypeOK' /\ Shape'
<1> USE DEF context, counters, Finish
<1>1. messages \in Seq(Message)
  BY DEF TypeOK
<1>2. ASSUME NEW long \in LongTexts, RunApproved(long) PROVE TypeOK' /\ Shape'
  <2>1. Head(batch) \in Call /\ Tail(batch) \in Seq(Call)
    BY <1>2, CallsTail DEF RunApproved, TypeOK
  <2>2. ledger' \in Ledger
    BY <1>2, <2>1, RanType DEF RunApproved
  <2>3. messages' \in Seq(Message)
    BY <1>1, <1>2, <2>1, TextTypes DEF RunApproved
  <2>4. QED
    BY <1>2, <2>1, <2>2, <2>3 DEF RunApproved, TypeOK, Shape
<1>3. ASSUME NEW long \in LongTexts, ContinueAnswers(long) PROVE TypeOK' /\ Shape'
  <2>1. messages' \in Seq(Message)
    BY <1>1, <1>3, TextTypes DEF ContinueAnswers
  <2>2. QED
    BY <1>3, <2>1 DEF ContinueAnswers, TypeOK, Shape
<1>4. CASE ContinueFails
  BY <1>4, NoCalls DEF ContinueFails, TypeOK, Shape
<1>5. QED
  BY <1>2, <1>3, <1>4 DEF RunPending

LEMMA UserType ==
  ASSUME TypeOK, Shape, User
  PROVE  TypeOK' /\ Shape'
<1> USE DEF context, counters
<1>1. messages \in Seq(Message) /\ ledger \in Ledger /\ MaxTurns \in Nat /\ MaxCalls \in Nat
  BY TurnConstants DEF TypeOK
<1>2. ASSUME NEW m \in Modes, NEW long \in LongTexts, StartTurn(m, long) PROVE TypeOK' /\ Shape'
  <2>1. messages' \in Seq(Message)
    BY <1>1, <1>2, TextTypes DEF StartTurn
  <2>2. ledger' \in Ledger
    BY <1>2, RecordTypes DEF StartTurn
  <2>3. mode' \in AllModes
    BY <1>2, TurnConstants DEF StartTurn
  <2>4. /\ turnCount < MaxTurns /\ turnCount' = turnCount + 1 /\ memory' \in BOOLEAN
        /\ pc = "idle" /\ pc' = "asking" /\ event' = "none"
        /\ loopCount' = 0 /\ retries' = 0 /\ forced' = FALSE /\ round' = 0
        /\ UNCHANGED <<pend, media, batch, asked, nextId>>
    BY <1>2 DEF StartTurn
  <2>5. turnCount' \in 0..MaxTurns + 1
    BY <1>1, <2>4 DEF TypeOK
  <2>6. forced' \in BOOLEAN /\ memory' \in BOOLEAN
    BY <2>4
  <2>7. Shape'
    BY <1>1, <2>4 DEF Shape
  <2>8. QED
    BY <1>1, <2>1, <2>2, <2>3, <2>4, <2>5, <2>6, <2>7 DEF TypeOK
<1>3. ASSUME NEW long \in LongTexts, RefuseTurn(long) PROVE TypeOK' /\ Shape'
  <2>1. messages' \in Seq(Message)
    BY <1>1, <1>3, TextTypes DEF RefuseTurn
  <2>2. QED
    BY <1>1, <1>3, <2>1 DEF RefuseTurn, TypeOK, Shape
<1>4. CASE Approve
  <2>1. ledger.approved \union CallIds(pend) \in SUBSET Ids
    BY <1>1, CallIdsType DEF TypeOK, Ledger
  <2>2. ledger' \in Ledger
    BY <1>4, <2>1, RecordTypes DEF Approve
  <2>3. QED
    BY <1>4, <2>2, NoCalls DEF Approve, TypeOK, Shape
<1>5. CASE Deny
  BY <1>5, NoCalls DEF Deny, TypeOK, Shape
<1>6. CASE Reset
  <2>1. ledger.queued \ media \in SUBSET Ids
    BY <1>1 DEF Ledger
  <2>2. ledger' \in Ledger
    BY <1>6, <2>1, RecordTypes DEF Reset
  <2>3. messages' \in Seq(Message) /\ turnCount' \in 0..MaxTurns + 1
    BY <1>1, <1>6 DEF Reset
  <2>4. QED
    BY <1>6, <2>2, <2>3, NoCalls DEF Reset, TypeOK, Shape
<1>7. QED
  BY <1>2, <1>3, <1>4, <1>5, <1>6 DEF User

LEMMA TypeStep == TypeOK /\ Shape /\ [Next]_vars => TypeOK' /\ Shape'
<1>1. TypeOK /\ Shape /\ UNCHANGED vars => TypeOK' /\ Shape'
  BY DEF vars, context, counters, TypeOK, Shape
<1>2. QED
  BY <1>1, ChatType, RunToolsType, RunPendingType, UserType DEF Next

LEMMA TypeInvariant == Spec => [](TypeOK /\ Shape)
BY ShapeInit, TypeStep, PTL DEF Spec

-----------------------------------------------------------------------------
(* What may still run.  A call is in one place - the batch at work, the calls
   asked about, the calls that wait for the user - and has not run; while a
   batch is at work its gated calls are the ones the mode denies, and the calls
   of a continuation are approved. *)
Sorted ==
  /\ Distinct(batch) /\ Distinct(asked) /\ Distinct(pend)
  /\ CallIds(batch) \intersect (CallIds(asked) \union CallIds(pend)) = {}
  /\ ledger.ran \intersect (CallIds(batch) \union CallIds(asked) \union CallIds(pend)) = {}

Older ==
  CallIds(batch) \union CallIds(asked) \union CallIds(pend) \union ledger.ran \union ledger.gated
    \subseteq 1..(nextId - 1)

Agreed ==
  /\ ledger.ran \intersect ledger.gated \subseteq ledger.approved
  /\ pc = "approved" => CallIds(batch) \subseteq ledger.approved
  /\ pc = "running" =>
       \A i \in 1..Len(batch) : batch[i].id \in ledger.gated => Denied(batch[i])
  /\ ~ledger.again

Files ==
  /\ media \union ledger.sent \subseteq ledger.ran \intersect ledger.queued
  /\ media \intersect ledger.sent = {}

Kept == Sorted /\ Older /\ Agreed /\ Files

(* A step that runs nothing and makes no new calls. *)
LEMMA KeptLess ==
  ASSUME TypeOK, Kept,
         batch' = batch \/ batch' = <<>>, asked' = asked \/ asked' = <<>>,
         pend' = pend \/ pend' = <<>> \/ (pend' = asked /\ batch' = <<>>),
         nextId' = nextId,
         ledger'.ran = ledger.ran, ledger'.gated = ledger.gated,
         ledger'.again = ledger.again, ledger'.approved = ledger.approved,
         pc' = "approved" => pc = "approved" \/ batch' = <<>>,
         pc' = "running" => (pc = "running" /\ mode' = mode) \/ batch' = <<>>,
         Files'
  PROVE  Kept'
<1>1. Sorted'
  BY NoCalls DEF Kept, Sorted
<1>2. Older'
  BY NoCalls DEF Kept, Older
<1>3. Len(<<>>) = 0
  OBVIOUS
<1>4. ASSUME pc' = "running", NEW i \in 1..Len(batch'), batch'[i].id \in ledger'.gated
      PROVE  Denied(batch[i])'
  <2>1. batch' = batch /\ mode' = mode /\ pc = "running"
    BY <1>3, <1>4
  <2>2. Denied(batch[i])
    BY <1>4, <2>1 DEF Kept, Agreed
  <2>3. QED
    BY <2>1, <2>2 DEF Denied, Preapproved
<1>5. (pc = "running" =>
         \A i \in 1..Len(batch) : batch[i].id \in ledger.gated => Denied(batch[i]))'
  BY <1>4
<1>6. Agreed'
  BY <1>5, NoCalls DEF Kept, Agreed
<1>7. QED
  BY <1>1, <1>2, <1>6 DEF Kept

(* The steps that run nothing. *)
LEMMA KeptQuietly ==
  ASSUME TypeOK, Shape, Kept,
         \/ AskProvider \/ ChatFails \/ ChatRejectsPrompt \/ ChatAsksPermission
         \/ (\E long \in LongTexts, streamed \in BOOLEAN : ChatAnswers(long, streamed))
         \/ StreamFails \/ (\E long \in LongTexts : StreamEnds(long)) \/ StoreMemory
         \/ OverBudget \/ AskApproval \/ StopOverBudget \/ NextRound
         \/ (\E long \in LongTexts : ContinueAnswers(long)) \/ ContinueFails
         \/ (\E m \in Modes, long \in LongTexts : StartTurn(m, long))
         \/ (\E long \in LongTexts : RefuseTurn(long)) \/ Deny \/ Reset
  PROVE  Kept'
<1> USE DEF context, counters, Finish
<1>1. ledger \in Ledger
  BY DEF TypeOK
<1>2. CASE (\E long \in LongTexts : StreamEnds(long)) \/ Reset
  <2>1. /\ UNCHANGED <<batch, asked, nextId, mode>> /\ (pend' = pend \/ pend' = <<>>)
        /\ media' = {} /\ pc' \in {"storing", "idle"}
        /\ ledger'.ran = ledger.ran /\ ledger'.gated = ledger.gated
        /\ ledger'.again = ledger.again /\ ledger'.approved = ledger.approved
    BY <1>1, <1>2 DEF StreamEnds, Reset, Ledger
  <2>2. \/ ledger'.sent = ledger.sent \union media /\ ledger'.queued = ledger.queued
        \/ ledger'.sent = ledger.sent /\ ledger'.queued = ledger.queued \ media
    BY <1>1, <1>2 DEF StreamEnds, Reset, Ledger
  <2>3. Files'
    BY <2>1, <2>2 DEF Kept, Files
  <2>4. QED
    BY <2>1, <2>3, KeptLess
<1>3. ASSUME UNCHANGED <<media, nextId>>,
             batch' = batch \/ batch' = <<>>, asked' = asked \/ asked' = <<>>,
             pend' = pend \/ pend' = <<>> \/ (pend' = asked /\ batch' = <<>>),
             ledger'.ran = ledger.ran, ledger'.gated = ledger.gated,
             ledger'.again = ledger.again, ledger'.approved = ledger.approved,
             ledger'.queued = ledger.queued, ledger'.sent = ledger.sent,
             pc' \in {"running", "approved"} => pc' = pc /\ mode' = mode
      PROVE  Kept'
  BY <1>3, KeptLess DEF Kept, Files
<1>4. CASE AskProvider \/ \E m \in Modes, long \in LongTexts : StartTurn(m, long)
  <2>1. /\ ledger'.ran = ledger.ran /\ ledger'.gated = ledger.gated
        /\ ledger'.again = ledger.again /\ ledger'.approved = ledger.approved
        /\ ledger'.queued = ledger.queued /\ ledger'.sent = ledger.sent
    BY <1>1, <1>4 DEF AskProvider, StartTurn, Ledger
  <2>2. UNCHANGED <<media, nextId, batch, asked, pend>> /\ pc' \in {"waiting", "asking"}
    BY <1>4 DEF AskProvider, StartTurn
  <2>3. QED
    BY <1>3, <2>1, <2>2
<1>5. CASE \/ ChatFails \/ ChatRejectsPrompt \/ ChatAsksPermission
           \/ (\E long \in LongTexts, streamed \in BOOLEAN : ChatAnswers(long, streamed))
           \/ StreamFails \/ StoreMemory
  <2>1. UNCHANGED <<media, nextId, pend, ledger>> /\ (batch' = batch \/ batch' = <<>>)
        /\ (asked' = asked \/ asked' = <<>>) /\ pc' \notin {"running", "approved"}
    BY <1>5 DEF ChatFails, ChatRejectsPrompt, ChatAsksPermission, ChatAnswers, StreamFails,
                StoreMemory
  <2>2. QED
    BY <1>3, <2>1
<1>6. CASE \/ OverBudget \/ AskApproval \/ StopOverBudget \/ NextRound
           \/ (\E long \in LongTexts : ContinueAnswers(long)) \/ ContinueFails
           \/ (\E long \in LongTexts : RefuseTurn(long)) \/ Deny
  <2>1. /\ UNCHANGED <<media, nextId, ledger>> /\ (batch' = batch \/ batch' = <<>>)
        /\ (asked' = asked \/ asked' = <<>>)
        /\ pend' = pend \/ pend' = <<>> \/ (pend' = asked /\ batch' = <<>>)
    BY <1>6 DEF OverBudget, AskApproval, StopOverBudget, NextRound, ContinueAnswers,
                ContinueFails, RefuseTurn, Deny
  <2>2. pc' \in {"running", "approved"} => pc' = pc /\ mode' = mode
    BY <1>6 DEF OverBudget, AskApproval, StopOverBudget, NextRound, ContinueAnswers,
                ContinueFails, RefuseTurn, Deny
  <2>3. QED
    BY <1>3, <2>1, <2>2
<1>7. QED
  BY <1>2, <1>4, <1>5, <1>6

(* A response brings calls with new ids. *)
LEMMA KeptCalls ==
  ASSUME TypeOK, Shape, Kept, NEW kinds \in Batches, ChatCallsTools(kinds)
  PROVE  Kept'
<1> DEFINE calls == [i \in 1..Len(kinds) |-> [id |-> nextId + i - 1, kind |-> kinds[i]]]
           asks == {i \in 1..Len(calls) :
                      \/ mode = "manual"
                      \/ mode = "policy" /\ PolicyAsks /\ calls[i].kind = "privileged"}
           gated == ledger.gated \union {calls[i].id : i \in asks}
<1>0. nextId + Len(kinds) - 1 \in Ids
  BY DEF ChatCallsTools
<1>1. nextId \in Nat \ {0} /\ MaxIds \in Nat
  BY TurnConstants DEF TypeOK
<1>2. /\ Len(kinds) \in Nat \ {0} /\ calls \in Seq(Call) /\ calls # <<>> /\ Distinct(calls)
      /\ CallIds(calls) \subseteq nextId..(nextId + Len(kinds) - 1)
  BY <1>0, <1>1, NewCalls
<1>3. /\ nextId' = nextId + Len(kinds) /\ batch' = calls /\ asked' = <<>>
      /\ ledger' = [ledger EXCEPT !.gated = gated] /\ pc' = "running"
      /\ UNCHANGED <<pend, media, mode>>
  BY DEF ChatCallsTools
<1> HIDE DEF calls
<1>4. gated \subseteq ledger.gated \union CallIds(calls)
  BY DEF CallIds
<1>5. ASSUME NEW i \in 1..Len(calls), calls[i].id \in gated PROVE i \in asks
  <2>1. calls[i].id \notin ledger.gated
    BY <1>1, <1>2 DEF Kept, Older, CallIds
  <2>2. PICK j \in asks : calls[j].id = calls[i].id
    BY <1>5, <2>1
  <2>3. QED
    BY <1>2, <2>2 DEF Distinct
<1>6. \A i \in asks : Denied(calls[i])
  BY DEF Denied, Preapproved
<1> HIDE DEF gated, asks
<1>7. /\ ledger'.ran = ledger.ran /\ ledger'.gated = gated /\ ledger'.again = ledger.again
      /\ ledger'.approved = ledger.approved
      /\ ledger'.queued = ledger.queued /\ ledger'.sent = ledger.sent
  BY <1>3 DEF TypeOK, Ledger
<1>8. \A S \in {CallIds(pend), ledger.ran, ledger.gated} :
        S \subseteq 1..(nextId - 1) /\ S \intersect CallIds(calls) = {}
  BY <1>1, <1>2 DEF Kept, Older
<1>9. Sorted'
  BY <1>2, <1>3, <1>7, <1>8, NoCalls DEF Kept, Sorted
<1>10. 1..(nextId - 1) \subseteq 1..(nextId' - 1) /\ CallIds(calls) \subseteq 1..(nextId' - 1)
  BY <1>1, <1>2, <1>3
<1>11. Older'
  BY <1>3, <1>4, <1>7, <1>8, <1>10, NoCalls DEF Older
<1>12. (pc = "running" =>
          \A i \in 1..Len(batch) : batch[i].id \in ledger.gated => Denied(batch[i]))'
  BY <1>3, <1>5, <1>6, <1>7 DEF Denied, Preapproved
<1>13. Agreed'
  BY <1>3, <1>4, <1>7, <1>8, <1>12 DEF Kept, Agreed
<1>14. Files'
  BY <1>3, <1>7 DEF Kept, Files
<1>15. QED
  BY <1>9, <1>11, <1>13, <1>14 DEF Kept

(* A call of the batch is denied, runs or is not found. *)
LEMMA KeptBatch ==
  ASSUME TypeOK, Shape, Kept,
         CallDenied \/ CallMissing \/ \E outcome \in Outcomes, long \in LongTexts :
                                        CallRuns(outcome, long)
  PROVE  Kept'
<1> USE DEF context
<1> DEFINE call == Head(batch)
<1>1. /\ batch # <<>> /\ pc = "running" /\ batch' = Tail(batch)
      /\ UNCHANGED <<pc, mode, pend, nextId>>
  BY DEF CallDenied, CallMissing, CallRuns, WithinBudget
<1>2. /\ batch \in Seq(Call) /\ asked \in Seq(Call) /\ ledger \in Ledger
      /\ nextId \in Nat \ {0}
  BY TurnConstants DEF TypeOK
<1>3. /\ call \in Call /\ CallIds(batch) = CallIds(batch') \union {call.id}
      /\ Distinct(batch') /\ call.id \notin CallIds(batch')
  BY <1>1, <1>2, CallsTail DEF Kept, Sorted
<1>4. call.id \in ledger.gated => Denied(call)
  <2>1. 1 \in 1..Len(batch) /\ batch[1] = call
    BY <1>1, <1>2, CallsTail
  <2>2. QED
    BY <1>1, <2>1 DEF Kept, Agreed
<1>5. \A i \in 1..Len(batch') : batch'[i].id \in ledger.gated => Denied(batch'[i])
  <2>1. \A i \in 1..Len(batch') : i + 1 \in 1..Len(batch) /\ batch'[i] = batch[i + 1]
    BY <1>1, <1>2, CallsTail
  <2>2. QED
    BY <1>1, <2>1 DEF Kept, Agreed
<1>6. ASSUME ledger'.gated = ledger.gated
      PROVE  (pc = "running" =>
                \A i \in 1..Len(batch) : batch[i].id \in ledger.gated => Denied(batch[i]))'
  BY <1>1, <1>5, <1>6 DEF Denied, Preapproved
<1> HIDE DEF call
<1>7. CASE CallDenied
  <2>1. asked' = Append(asked, call) /\ UNCHANGED <<media, ledger>>
    BY <1>7 DEF CallDenied, call
  <2>2. /\ CallIds(asked') = CallIds(asked) \union {call.id} /\ Distinct(asked')
    BY <1>2, <1>3, <2>1, CallsAppend DEF Kept, Sorted
  <2>3. Sorted'
    BY <1>1, <1>3, <2>1, <2>2 DEF Kept, Sorted
  <2>4. Older'
    BY <1>1, <1>3, <2>1, <2>2 DEF Kept, Older
  <2>5. Agreed' /\ Files'
    BY <1>1, <1>6, <2>1 DEF Kept, Agreed, Files
  <2>6. QED
    BY <2>3, <2>4, <2>5 DEF Kept
<1>8. CASE CallMissing
  <2>1. UNCHANGED <<asked, media, ledger>>
    BY <1>8 DEF CallMissing
  <2>2. Sorted' /\ Older'
    BY <1>1, <1>3, <2>1 DEF Kept, Sorted, Older
  <2>3. Agreed' /\ Files'
    BY <1>1, <1>6, <2>1 DEF Kept, Agreed, Files
  <2>4. QED
    BY <2>2, <2>3 DEF Kept
<1>9. ASSUME NEW outcome \in Outcomes, NEW long \in LongTexts, CallRuns(outcome, long)
      PROVE  Kept'
  <2> DEFINE file == IF outcome = "ok" /\ call.kind = "send" THEN {call.id} ELSE {}
  <2>1. /\ ~Denied(call) /\ asked' = asked /\ media' = media \union file
        /\ ledger' = [Ran(call) EXCEPT !.queued = @ \union file, !.inTurn = @ \union {call.id}]
    BY <1>9 DEF CallRuns, call
  <2>2. file \subseteq {call.id}
    OBVIOUS
  <2> HIDE DEF file
  <2>3. Ran(call) \in Ledger
    BY <1>3, RanType
  <2>4. /\ ledger'.ran = Ran(call).ran /\ ledger'.gated = Ran(call).gated
        /\ ledger'.again = Ran(call).again /\ ledger'.approved = Ran(call).approved
        /\ ledger'.queued = Ran(call).queued \union file /\ ledger'.sent = Ran(call).sent
    BY <2>1, <2>3 DEF Ledger
  <2>5. /\ ledger'.ran = ledger.ran \union {call.id} /\ ledger'.gated = ledger.gated
        /\ ledger'.again = (ledger.again \/ call.id \in ledger.ran)
        /\ ledger'.approved = ledger.approved
        /\ ledger'.queued = ledger.queued \union file /\ ledger'.sent = ledger.sent
    BY <1>3, <2>4, RanType
  <2>6. /\ call.id \notin ledger.ran /\ call.id \notin ledger.gated
    BY <1>3, <1>4, <2>1 DEF Kept, Sorted
  <2>7. Sorted'
    BY <1>1, <1>3, <2>1, <2>5 DEF Kept, Sorted
  <2>8. Older'
    BY <1>1, <1>3, <2>1, <2>5 DEF Kept, Older
  <2>9. Agreed'
    BY <1>1, <1>6, <2>5, <2>6 DEF Kept, Agreed
  <2>10. Files'
    BY <2>1, <2>2, <2>5, <2>6 DEF Kept, Files
  <2>11. QED
    BY <2>7, <2>8, <2>9, <2>10 DEF Kept
<1>10. QED
  BY <1>7, <1>8, <1>9

(* The user approves, and the approved calls run. *)
LEMMA KeptApproved ==
  ASSUME TypeOK, Shape, Kept, Approve \/ \E long \in LongTexts : RunApproved(long)
  PROVE  Kept'
<1>1. /\ batch \in Seq(Call) /\ pend \in Seq(Call) /\ ledger \in Ledger
  BY DEF TypeOK
<1>2. CASE Approve
  <2>1. /\ batch' = pend /\ pend' = <<>> /\ pc' = "approved" /\ UNCHANGED <<media, asked, nextId>>
        /\ ledger'.ran = ledger.ran /\ ledger'.gated = ledger.gated
        /\ ledger'.again = ledger.again /\ ledger'.approved = ledger.approved \union CallIds(pend)
        /\ ledger'.queued = ledger.queued /\ ledger'.sent = ledger.sent
        /\ pc = "idle"
    BY <1>1, <1>2 DEF Approve, Ledger
  <2>2. asked = <<>>
    BY <2>1 DEF Shape
  <2>3. Sorted' /\ Older'
    BY <2>1, <2>2, NoCalls DEF Kept, Sorted, Older
  <2>4. Agreed' /\ Files'
    BY <2>1 DEF Kept, Agreed, Files
  <2>5. QED
    BY <2>3, <2>4 DEF Kept
<1>3. ASSUME NEW long \in LongTexts, RunApproved(long) PROVE Kept'
  <2> DEFINE call == Head(batch)
  <2>1. /\ batch # <<>> /\ pc = "approved" /\ batch' = Tail(batch) /\ ledger' = Ran(call)
        /\ UNCHANGED <<pc, pend, asked, media, nextId>>
    BY <1>3 DEF RunApproved
  <2>2. /\ call \in Call /\ CallIds(batch) = CallIds(batch') \union {call.id}
        /\ Distinct(batch') /\ call.id \notin CallIds(batch')
    BY <1>1, <2>1, CallsTail DEF Kept, Sorted
  <2> HIDE DEF call
  <2>3. /\ ledger'.ran = ledger.ran \union {call.id} /\ ledger'.gated = ledger.gated
        /\ ledger'.again = (ledger.again \/ call.id \in ledger.ran)
        /\ ledger'.approved = ledger.approved
        /\ ledger'.queued = ledger.queued /\ ledger'.sent = ledger.sent
    BY <2>1, <2>2, RanType
  <2>4. asked = <<>>
    BY <2>1 DEF Shape
  <2>5. call.id \notin ledger.ran /\ call.id \in ledger.approved
    BY <2>1, <2>2 DEF Kept, Sorted, Agreed
  <2>6. Sorted' /\ Older'
    BY <2>1, <2>2, <2>3, <2>4, NoCalls DEF Kept, Sorted, Older
  <2>7. Agreed'
    BY <2>1, <2>2, <2>3, <2>5 DEF Kept, Agreed
  <2>8. Files'
    BY <2>1, <2>3 DEF Kept, Files
  <2>9. QED
    BY <2>6, <2>7, <2>8 DEF Kept
<1>4. QED
  BY <1>2, <1>3

LEMMA KeptInvariant == Spec => [](TypeOK /\ Shape /\ Kept)
<1>1. Init => Kept
  BY NoCalls DEF Init, Kept, Sorted, Older, Agreed, Files
<1>2. TypeOK /\ Shape /\ Kept /\ [Next]_vars => Kept'
  <2>1. TypeOK /\ Shape /\ Kept /\ UNCHANGED vars => Kept'
    BY KeptLess DEF vars, context, counters, Kept, Files
  <2>2. TypeOK /\ Shape /\ Kept /\ (Chat \/ User) => Kept'
    BY KeptQuietly, KeptCalls, KeptApproved DEF Chat, User
  <2>3. TypeOK /\ Shape /\ Kept /\ (RunTools \/ RunPending) => Kept'
    BY KeptQuietly, KeptBatch, KeptApproved DEF RunTools, RunPending
  <2>4. QED
    BY <2>1, <2>2, <2>3 DEF Next
<1>3. QED
  BY <1>1, <1>2, TypeInvariant, PTL DEF Spec

(* GatedCallsRunApproved however turns of different modes, responses in part
   denied, budgets and approvals follow each other. *)
THEOREM GatedCallsWait == Spec => []GatedCallsRunApproved
<1>1. Kept => GatedCallsRunApproved
  BY DEF Kept, Agreed, GatedCallsRunApproved
<1>2. QED
  BY <1>1, KeptInvariant, PTL

(* OnlyOnce: no call runs twice, whether it ran with its batch or after an
   approval, and no file is sent twice. *)
THEOREM NothingHappensTwice == Spec => []OnlyOnce
<1>1. Kept => OnlyOnce
  BY DEF Kept, Agreed, Files, OnlyOnce, CallsRunOnce, MediaSentOnce
<1>2. QED
  BY <1>1, KeptInvariant, PTL

-----------------------------------------------------------------------------
(* Budgets.  Every tool call that runs in a turn has counted first. *)
Spent ==
  /\ IsFiniteSet(ledger.inTurn)
  /\ Cardinality(ledger.inTurn) <= loopCount
  /\ Cardinality(ledger.inTurn) <= MaxCalls

LEMMA SpentStep ==
  ASSUME TypeOK, Spent, [Next]_vars
  PROVE  Spent'
<1> USE DEF context, counters, Finish
<1>1. /\ ledger \in Ledger /\ MaxCalls \in Nat /\ loopCount \in Nat
      /\ Cardinality(ledger.inTurn) \in Nat
  BY TurnConstants, FS_CardinalityType DEF TypeOK, Spent
<1>2. ASSUME ledger'.inTurn = ledger.inTurn, loopCount' = loopCount \/ loopCount' = loopCount + 1
      PROVE  Spent'
  BY <1>1, <1>2 DEF Spent
<1>3. ASSUME NEW m \in Modes, NEW long \in LongTexts, StartTurn(m, long) PROVE Spent'
  <2>1. ledger'.inTurn = {} /\ loopCount' = 0
    BY <1>1, <1>3 DEF StartTurn, Ledger
  <2>2. QED
    BY <1>1, <2>1, FS_EmptySet DEF Spent
<1>4. ASSUME NEW outcome \in Outcomes, NEW long \in LongTexts, CallRuns(outcome, long) PROVE Spent'
  <2> DEFINE call == Head(batch)
             file == IF outcome = "ok" /\ call.kind = "send" THEN {call.id} ELSE {}
  <2>1. /\ batch # <<>> /\ loopCount < MaxCalls /\ loopCount' = loopCount + 1
        /\ ledger' = [Ran(call) EXCEPT !.queued = @ \union file, !.inTurn = @ \union {call.id}]
    BY <1>4 DEF CallRuns, WithinBudget
  <2>2. call \in Call
    BY <2>1, CallsTail DEF TypeOK
  <2> HIDE DEF call, file
  <2>3. Ran(call) \in Ledger /\ Ran(call).inTurn = ledger.inTurn
    BY <2>2, RanType
  <2>4. ledger'.inTurn = ledger.inTurn \union {call.id}
    BY <2>1, <2>3 DEF Ledger
  <2>5. IsFiniteSet(ledger'.inTurn)
        /\ Cardinality(ledger'.inTurn) <= Cardinality(ledger.inTurn) + 1
    <3> DEFINE S == ledger.inTurn
    <3>1. IsFiniteSet(S)
      BY DEF Spent
    <3> HIDE DEF S
    <3>2. IsFiniteSet(S \union {call.id})
          /\ (Cardinality(S \union {call.id}) = Cardinality(S)
              \/ Cardinality(S \union {call.id}) = Cardinality(S) + 1)
      BY <3>1, FS_AddElement
    <3>3. QED
      BY <1>1, <2>4, <3>2 DEF S
  <2>6. Cardinality(ledger'.inTurn) \in Nat
    BY <2>5, FS_CardinalityType
  <2>7. QED
    BY <1>1, <2>1, <2>5, <2>6 DEF Spent
<1>5. CASE RunPending
  <2>1. loopCount' = loopCount
    BY <1>5 DEF RunPending, RunApproved, ContinueAnswers, ContinueFails
  <2>2. CASE \E long \in LongTexts : RunApproved(long)
    <3>1. batch # <<>> /\ ledger' = Ran(Head(batch))
      BY <2>2 DEF RunApproved
    <3>2. Head(batch) \in Call
      BY <3>1, CallsTail DEF TypeOK
    <3>3. QED
      BY <1>2, <2>1, <3>1, <3>2, RanType
  <2>3. CASE ~\E long \in LongTexts : RunApproved(long)
    BY <1>2, <1>5, <2>1, <2>3 DEF RunPending, ContinueAnswers, ContinueFails
  <2>4. QED
    BY <2>2, <2>3
<1>6. CASE Chat
  <2>1. loopCount' = loopCount
    BY <1>6 DEF Chat, AskProvider, ChatFails, ChatRejectsPrompt, ChatCallsTools,
                ChatAsksPermission, ChatAnswers, StreamFails, StreamEnds, StoreMemory
  <2>2. CASE \E kinds \in Batches : ChatCallsTools(kinds)
    <3>1. ledger'.inTurn = ledger.inTurn
      BY <1>1, <2>2 DEF ChatCallsTools, Ledger
    <3>2. QED
      BY <1>2, <2>1, <3>1
  <2>3. CASE ~\E kinds \in Batches : ChatCallsTools(kinds)
    <3>1. ledger'.inTurn = ledger.inTurn
      BY <1>1, <1>6, <2>3 DEF Chat, AskProvider, ChatFails, ChatRejectsPrompt,
        ChatAsksPermission, ChatAnswers, StreamFails, StreamEnds, StoreMemory, Ledger
    <3>2. QED
      BY <1>2, <2>1, <3>1
  <2>4. QED
    BY <2>2, <2>3
<1>7. CASE OverBudget \/ CallDenied \/ CallMissing \/ AskApproval \/ StopOverBudget \/ NextRound
  BY <1>2, <1>7 DEF OverBudget, CallDenied, CallMissing, WithinBudget, AskApproval,
                    StopOverBudget, NextRound
<1>8. CASE (\E long \in LongTexts : RefuseTurn(long)) \/ Approve \/ Deny \/ Reset
  <2>1. loopCount' = loopCount /\ ledger'.inTurn = ledger.inTurn
    BY <1>1, <1>8 DEF RefuseTurn, Approve, Deny, Reset, Ledger
  <2>2. QED
    BY <1>2, <2>1
<1>9. CASE UNCHANGED vars
  BY <1>2, <1>9 DEF vars
<1>10. QED
  BY <1>3, <1>4, <1>5, <1>6, <1>7, <1>8, <1>9 DEF Next, User, RunTools

LEMMA SpentInvariant == Spec => [](TypeOK /\ Shape /\ Spent)
<1>1. Init => Spent
  BY FS_EmptySet, TurnConstants DEF Init, Spent
<1>2. QED
  BY <1>1, SpentStep, TypeInvariant, PTL DEF Spec

(* Without prompts that are too long, a request is paid for by a tool call, by
   the one plain-text confirmation or by the answer, each with two retries.  The
   batch that has just arrived is paid for by its first call. *)
Extra == IF forced THEN 1 ELSE 0

Paid ==
  /\ pc = "asking" => ledger.requests <= 3 * (loopCount + Extra) + retries
  /\ pc = "waiting" => ledger.requests <= 3 * (loopCount + Extra) + retries + 1
  /\ pc = "running" => ledger.requests <= 3 * (loopCount + Extra) + 3
  /\ pc = "running" /\ batch = <<>> => ledger.requests <= 3 * (loopCount + Extra)
  /\ ledger.requests <= 3 * (MaxCalls + 2)

LEMMA PaidStep ==
  ASSUME "limit" \notin Faults, TypeOK, Shape, Paid, [Next]_vars
  PROVE  Paid'
<1> USE DEF context, counters, Finish
<1>1. /\ ledger \in Ledger /\ MaxCalls \in Nat /\ loopCount \in Nat /\ retries \in Nat
      /\ ledger.requests \in Nat /\ Extra \in {0, 1}
  BY TurnConstants DEF TypeOK, Ledger, Extra
<1>2. ASSUME ledger'.requests = ledger.requests, pc' \notin {"asking", "waiting", "running"}
      PROVE  Paid'
  BY <1>1, <1>2 DEF Paid
<1>3. CASE AskProvider
  <2>1. pc = "asking" /\ pc' = "waiting" /\ UNCHANGED <<loopCount, retries, forced>>
        /\ ledger'.requests = Saturating(ledger.requests)
    BY <1>1, <1>3 DEF AskProvider, Ledger
  <2>2. Saturating(ledger.requests) <= ledger.requests + 1
        /\ Saturating(ledger.requests) \in Nat
    BY <1>1 DEF Saturating
  <2>3. ledger'.requests <= 3 * (loopCount + Extra) + retries + 1
    BY <1>1, <2>1, <2>2 DEF Paid
  <2>4. ledger'.requests <= 3 * (MaxCalls + 2)
    BY <1>1, <2>1, <2>2, <2>3 DEF Shape
  <2>5. Extra' = Extra
    BY <2>1 DEF Extra
  <2>6. QED
    BY <2>1, <2>3, <2>4, <2>5 DEF Paid
<1>4. CASE ChatFails
  <2>1. /\ pc = "waiting" /\ UNCHANGED <<loopCount, forced, ledger>> /\ retries' = retries + 1
        /\ pc' \in {"asking", "idle"}
    BY <1>4 DEF ChatFails
  <2>2. Extra' = Extra
    BY <2>1 DEF Extra
  <2>3. QED
    BY <1>1, <2>1, <2>2 DEF Paid
<1>5. CASE ChatRejectsPrompt
  BY <1>5 DEF ChatRejectsPrompt
<1>6. ASSUME NEW kinds \in Batches, ChatCallsTools(kinds) PROVE Paid'
  <2>1. /\ pc = "waiting" /\ pc' = "running" /\ UNCHANGED <<loopCount, forced>>
        /\ ledger'.requests = ledger.requests
    BY <1>1, <1>6 DEF ChatCallsTools, Ledger
  <2>2. batch' # <<>>
    <3>1. Len(kinds) \in Nat \ {0}
      <4>1. PICK m \in 1..MaxBatch : kinds \in [1..m -> Kinds]
        BY DEF Batches
      <4>2. QED
        BY <4>1, TurnConstants
    <3>2. batch' = [i \in 1..Len(kinds) |-> [id |-> nextId + i - 1, kind |-> kinds[i]]]
      BY <1>6 DEF ChatCallsTools
    <3>3. Len(batch') = Len(kinds)
      BY <3>1, <3>2
    <3>4. QED
      BY <3>1, <3>3
  <2>3. ledger.requests <= 3 * (loopCount + Extra) + 3
    BY <1>1, <2>1 DEF Paid, Shape
  <2>4. Extra' = Extra
    BY <2>1 DEF Extra
  <2>5. QED
    BY <1>1, <2>1, <2>2, <2>3, <2>4 DEF Paid
<1>7. CASE ChatAsksPermission
  <2>1. /\ pc = "waiting" /\ pc' = "asking" /\ UNCHANGED <<loopCount, ledger>> /\ retries' = 0
        /\ ~forced /\ forced'
    BY <1>7 DEF ChatAsksPermission
  <2>2. Extra = 0 /\ Extra' = 1
    BY <2>1 DEF Extra
  <2>3. QED
    BY <1>1, <2>1, <2>2 DEF Paid, Shape
<1>8. CASE (\E long \in LongTexts, streamed \in BOOLEAN : ChatAnswers(long, streamed))
           \/ StreamFails \/ (\E long \in LongTexts : StreamEnds(long)) \/ StoreMemory
  <2>1. ledger'.requests = ledger.requests
    BY <1>1, <1>8 DEF ChatAnswers, StreamFails, StreamEnds, StoreMemory, Ledger
  <2>2. pc' \notin {"asking", "waiting", "running"}
    BY <1>8 DEF ChatAnswers, StreamFails, StreamEnds, StoreMemory
  <2>3. QED
    BY <1>2, <2>1, <2>2
<1>9. ASSUME pc = "running", pc' = "running", batch # <<>>,
             loopCount' = loopCount + 1, forced' = forced, ledger'.requests = ledger.requests
      PROVE  Paid'
  <2>1. Extra' = Extra
    BY <1>9 DEF Extra
  <2>2. QED
    BY <1>1, <1>9, <2>1 DEF Paid
<1>10. CASE OverBudget \/ CallDenied \/ CallMissing
  BY <1>9, <1>10 DEF OverBudget, CallDenied, CallMissing, WithinBudget
<1>11. ASSUME NEW outcome \in Outcomes, NEW long \in LongTexts, CallRuns(outcome, long) PROVE Paid'
  <2> DEFINE call == Head(batch)
             file == IF outcome = "ok" /\ call.kind = "send" THEN {call.id} ELSE {}
  <2>1. /\ batch # <<>> /\ pc = "running" /\ loopCount' = loopCount + 1
        /\ ledger' = [Ran(call) EXCEPT !.queued = @ \union file, !.inTurn = @ \union {call.id}]
        /\ UNCHANGED <<pc, forced>>
    BY <1>11 DEF CallRuns, WithinBudget
  <2>2. call \in Call
    BY <2>1, CallsTail DEF TypeOK
  <2> HIDE DEF call, file
  <2>3. Ran(call) \in Ledger /\ Ran(call).requests = ledger.requests
    BY <2>2, RanType
  <2>4. ledger'.requests = ledger.requests
    BY <2>1, <2>3 DEF Ledger
  <2>5. QED
    BY <1>9, <2>1, <2>4
<1>12. CASE NextRound
  <2>1. Extra' = Extra
    BY <1>12 DEF NextRound, Extra
  <2>2. QED
    BY <1>1, <1>12, <2>1 DEF NextRound, Paid
<1>13. CASE AskApproval \/ StopOverBudget \/ (\E long \in LongTexts : ContinueAnswers(long))
            \/ ContinueFails
  BY <1>2, <1>13 DEF AskApproval, StopOverBudget, ContinueAnswers, ContinueFails
<1>14. ASSUME NEW long \in LongTexts, RunApproved(long) PROVE Paid'
  <2>1. batch # <<>> /\ ledger' = Ran(Head(batch)) /\ pc' = "approved"
    BY <1>14 DEF RunApproved
  <2>2. Head(batch) \in Call
    BY <2>1, CallsTail DEF TypeOK
  <2>3. QED
    BY <1>2, <2>1, <2>2, RanType
<1>15. CASE (\E long \in LongTexts : RefuseTurn(long)) \/ Approve \/ Deny \/ Reset
  <2>1. ledger'.requests = ledger.requests
    BY <1>1, <1>15 DEF RefuseTurn, Approve, Deny, Reset, Ledger
  <2>2. pc' \in {"idle", "approved"}
    BY <1>15 DEF RefuseTurn, Approve, Deny, Reset
  <2>3. QED
    BY <1>2, <2>1, <2>2
<1>16. ASSUME NEW m \in Modes, NEW long \in LongTexts, StartTurn(m, long) PROVE Paid'
  <2>1. ledger'.requests = 0 /\ pc' = "asking" /\ loopCount' = 0 /\ retries' = 0 /\ forced' = FALSE
    BY <1>1, <1>16 DEF StartTurn, Ledger
  <2>2. Extra' = 0
    BY <2>1 DEF Extra
  <2>3. QED
    BY <1>1, <2>1, <2>2 DEF Paid
<1>17. CASE UNCHANGED vars
  BY <1>17 DEF vars, Paid, Extra
<1>18. QED
  BY <1>3, <1>4, <1>5, <1>6, <1>7, <1>8, <1>10, <1>11, <1>12, <1>13, <1>14, <1>15, <1>16, <1>17
     DEF Next, Chat, RunTools, RunPending, User

(* The type and the tool budget of a turn, whatever fails. *)
THEOREM TurnsAreTyped == Spec => [](TypeOK /\ ToolBudget)
<1>1. Spent => ToolBudget
  BY DEF Spent, ToolBudget
<1>2. QED
  BY <1>1, SpentInvariant, PTL

(* TurnInv, unless prompts may be too long: compressing one is tried again
   without counting, and then the number of requests has no bound. *)
THEOREM TurnsAreBounded ==
  ASSUME "limit" \notin Faults
  PROVE  Spec => []TurnInv
<1>1. Init => Paid
  BY TurnConstants DEF Init, Paid, Extra
<1>2. TypeOK /\ Spent /\ Paid => TurnInv
  BY DEF Spent, Paid, TurnInv, ToolBudget, RequestBudget
<1>3. QED
  BY <1>1, <1>2, PaidStep, SpentInvariant, PTL DEF Spec

-----------------------------------------------------------------------------
(* The question stays in view.  Since the turn began the loop has appended at
   most two messages for every tool call and for the confirmation, and one more
   for a response whose calls have not been looked at.  Both counts only grow in
   a turn, and so do the limits that may have cut its messages: where the limits
   have room now, they had room at every cut. *)
Near(msgs, d) ==
  \E i \in 1..Len(msgs) : msgs[i].role = "user" /\ Len(msgs) - i <= d

HasRoom == \A n \in Limits : Behind < n

Asked ==
  HasRoom =>
    /\ pc \in {"asking", "waiting"} => Near(messages, Behind)
    /\ pc = "running" => Near(messages, Behind + 1)
    /\ pc = "running" /\ batch = <<>> => Near(messages, Behind)

LEMMA NearMore ==
  ASSUME NEW s \in Seq(Message), NEW d \in Nat, NEW e \in Nat, d <= e, Near(s, d)
  PROVE  Near(s, e)
BY DEF Near

LEMMA NearAppend ==
  ASSUME NEW s \in Seq(Message), NEW d \in Nat, NEW m, Near(s, d)
  PROVE  Near(Append(s, m), d + 1)
<1> DEFINE a == Append(s, m)
<1>1. PICK i \in 1..Len(s) : s[i].role = "user" /\ Len(s) - i <= d
  BY DEF Near
<1>2. /\ Len(s) \in Nat /\ Len(a) = Len(s) + 1
      /\ \A j \in 1..Len(s) : a[j] = s[j]
  OBVIOUS
<1> HIDE DEF a
<1>3. i \in 1..Len(a) /\ a[i].role = "user" /\ Len(a) - i <= d + 1
  BY <1>1, <1>2
<1>4. QED
  BY <1>3 DEF Near, a

LEMMA NearUser ==
  ASSUME NEW s \in Seq(Message), NEW long
  PROVE  Near(Append(s, Text("user", long)), 0)
<1> DEFINE a == Append(s, Text("user", long))
<1>1. Text("user", long).role = "user"
  BY DEF Text
<1>2. /\ Len(s) \in Nat /\ Len(a) = Len(s) + 1 /\ a[Len(s) + 1] = Text("user", long)
  OBVIOUS
<1> HIDE DEF a
<1>3. Len(a) \in 1..Len(a) /\ a[Len(a)].role = "user" /\ Len(a) - Len(a) <= 0
  BY <1>1, <1>2
<1>4. QED
  BY <1>3 DEF Near, a

LEMMA NearLast ==
  ASSUME NEW s \in Seq(Message), NEW d \in Nat, NEW n \in Nat \ {0}, d < n, Near(s, d)
  PROVE  Near(LastOf(s, n), d)
<1> DEFINE t == LastOf(s, n)
<1>1. Len(s) <= n => t = s
  BY LastOfType
<1>2. CASE Len(s) > n
  <2>1. Len(t) = n /\ \A i \in 1..n : t[i] = s[Len(s) - n + i]
    BY <1>2, LastOfType
  <2> HIDE DEF t
  <2>2. Len(s) \in Nat
    OBVIOUS
  <2>3. PICK i \in 1..Len(s) : s[i].role = "user" /\ Len(s) - i <= d
    BY DEF Near
  <2> DEFINE j == i - (Len(s) - n)
  <2>4. j \in 1..n /\ Len(s) - n + j = i /\ n - j <= d
    BY <1>2, <2>2, <2>3
  <2> HIDE DEF j
  <2>5. t[j].role = "user"
    BY <2>1, <2>3, <2>4
  <2>6. QED
    BY <2>1, <2>4, <2>5 DEF Near, t
<1>3. QED
  BY <1>1, <1>2

(* A step within a turn takes no limit away and no message back: where there is
   room after it, there was room before. *)
LEMMA RoomBefore ==
  ASSUME TypeOK, TypeOK', HasRoom', round <= round', Behind <= Behind'
  PROVE  HasRoom
<1>1. Limits \subseteq Limits'
  <2>1. round \in 0..2 /\ round' \in 0..2
    BY DEF TypeOK
  <2>2. 0..round \subseteq 0..(round') /\ (round' = 0 => round = 0)
    BY <2>1
  <2>3. QED
    BY <2>1, <2>2 DEF Limits
<1>2. /\ Behind \in Nat /\ Behind' \in Nat
      /\ \A n \in Limits : n \in Nat
  <2>1. \A r \in 0..round : Keep[r] \in Nat
    BY TurnConstants DEF TypeOK
  <2>2. Window \in Nat
    BY TurnConstants
  <2>3. MaxCalls \in Nat /\ loopCount \in Nat /\ loopCount' \in Nat
    BY TurnConstants DEF TypeOK
  <2>4. \A n \in Limits : n \in Nat
    BY <2>1, <2>2 DEF Limits
  <2>5. Behind \in Nat
    BY <2>3 DEF Behind
  <2>6. Behind' \in Nat
    <3>1. loopCount' \in Nat
      BY <2>3
    <3>2. \A l \in Nat : 2 * (l + 0) \in Nat /\ 2 * (l + 1) \in Nat
      OBVIOUS
    <3>3. QED
      BY <3>1, <3>2 DEF Behind
  <2>7. QED
    BY <2>4, <2>5, <2>6
<1>3. QED
  BY <1>1, <1>2 DEF HasRoom

LEMMA AskedStep ==
  ASSUME TypeOK, TypeOK', Shape, Asked, [Next]_vars
  PROVE  Asked'
<1> USE DEF context, counters, Finish
<1> SUFFICES ASSUME HasRoom'
             PROVE  /\ pc' \in {"asking", "waiting"} => Near(messages', Behind')
                    /\ pc' = "running" => Near(messages', Behind' + 1)
                    /\ pc' = "running" /\ batch' = <<>> => Near(messages', Behind')
  BY DEF Asked
<1> DEFINE Goal == /\ pc' \in {"asking", "waiting"} => Near(messages', Behind')
                   /\ pc' = "running" => Near(messages', Behind' + 1)
                   /\ pc' = "running" /\ batch' = <<>> => Near(messages', Behind')
<1>1. /\ messages \in Seq(Message) /\ MaxCalls \in Nat /\ loopCount \in Nat /\ loopCount' \in Nat
      /\ messages' \in Seq(Message) /\ round \in 0..2 /\ round' \in 0..2
      /\ Extra \in {0, 1} /\ Window \in Nat \ {0} /\ \A r \in 0..2 : Keep[r] \in Nat \ {0}
  BY TurnConstants DEF TypeOK, Extra
<1> DEFINE d == Behind
<1>2. d \in Nat
  BY <1>1 DEF Behind
<1>20. ASSUME round <= round', Behind <= Behind' PROVE HasRoom
  BY <1>20, RoomBefore
<1>3. ASSUME pc' \notin {"asking", "waiting", "running"} PROVE Goal
  BY <1>3
<1>4. UNCHANGED <<loopCount, forced, round>> => Behind' = Behind /\ HasRoom
  <2>1. UNCHANGED <<loopCount, forced, round>> => Behind' = Behind /\ round <= round'
    BY <1>1 DEF Behind
  <2>2. QED
    BY <1>2, <1>20, <2>1
<1> SUFFICES Goal
  BY DEF Goal
<1> HIDE DEF Goal, d
<1>5. CASE AskProvider
  <2>1. /\ pc = "asking" /\ pc' = "waiting" /\ messages' = LastOf(messages, Window)
        /\ UNCHANGED <<loopCount, forced, round>>
    BY <1>5 DEF AskProvider, Trimmed
  <2>2. HasRoom /\ Behind' = Behind
    BY <1>4, <2>1
  <2>3. Near(messages, Behind)
    BY <2>1, <2>2 DEF Asked
  <2>4. Behind < Window
    BY <2>2 DEF HasRoom, Limits
  <2>5. Near(messages', Behind)
    BY <1>1, <1>2, <2>1, <2>3, <2>4, NearLast DEF d
  <2>6. QED
    BY <2>1, <2>2, <2>5 DEF Goal
<1>6. CASE ChatFails
  <2>1. pc = "waiting" /\ UNCHANGED <<messages, loopCount, forced, round>> /\ pc' \in {"asking", "idle"}
    BY <1>6 DEF ChatFails
  <2>2. HasRoom /\ Behind' = Behind
    BY <1>4, <2>1
  <2>3. QED
    BY <2>1, <2>2 DEF Asked, Goal
<1>7. CASE ChatRejectsPrompt
  <2>1. /\ pc = "waiting" /\ pc' = "asking" /\ messages' = LastOf(messages, Keep[round])
        /\ UNCHANGED <<loopCount, forced>>
        /\ round' = IF round < 2 THEN round + 1 ELSE round
    BY <1>7 DEF ChatRejectsPrompt
  <2>2. Behind' = Behind /\ round <= round' /\ round' # 0 /\ round \in 0..(round')
    BY <1>1, <2>1 DEF Behind
  <2>3. HasRoom
    BY <1>2, <1>20, <2>2 DEF d
  <2>4. Near(messages, Behind)
    BY <2>1, <2>3 DEF Asked
  <2>5. Keep[round] \in Limits' /\ Keep[round] \in Nat \ {0}
    BY <1>1, <2>2 DEF Limits
  <2>6. Behind < Keep[round]
    BY <2>2, <2>5 DEF HasRoom
  <2>7. Near(messages', Behind)
    BY <1>1, <1>2, <2>1, <2>4, <2>5, <2>6, NearLast DEF d
  <2>8. QED
    BY <2>1, <2>2, <2>7 DEF Goal
<1>8. ASSUME NEW kinds \in Batches, ChatCallsTools(kinds) PROVE Goal
  <2>1. /\ pc = "waiting" /\ pc' = "running" /\ UNCHANGED <<loopCount, forced, round>>
        /\ \E m : messages' = Append(messages, m)
        /\ batch' = [i \in 1..Len(kinds) |-> [id |-> nextId + i - 1, kind |-> kinds[i]]]
    BY <1>8 DEF ChatCallsTools
  <2>2. batch' # <<>>
    <3>1. Len(kinds) \in Nat \ {0}
      <4>1. PICK m \in 1..MaxBatch : kinds \in [1..m -> Kinds]
        BY DEF Batches
      <4>2. QED
        BY <4>1, TurnConstants
    <3>2. Len(batch') = Len(kinds)
      BY <2>1, <3>1
    <3>3. QED
      BY <3>1, <3>2
  <2>3. HasRoom /\ Behind' = Behind
    BY <1>4, <2>1
  <2>4. Near(messages, Behind)
    BY <2>1, <2>3 DEF Asked
  <2>5. Near(messages', Behind + 1)
    BY <1>1, <1>2, <2>1, <2>4, NearAppend DEF d
  <2>6. QED
    BY <2>1, <2>2, <2>3, <2>5 DEF Goal
<1>9. CASE ChatAsksPermission
  <2> DEFINE m1 == Text("assistant", FALSE)
             m2 == Text("system", FALSE)
  <2>1. /\ pc = "waiting" /\ pc' = "asking" /\ loopCount' = loopCount /\ ~forced /\ forced'
        /\ round' = round /\ messages' = messages \o <<m1, m2>>
    BY <1>9 DEF ChatAsksPermission
  <2>2. m1 \in Message /\ m2 \in Message
    BY TextTypes
  <2> HIDE DEF m1, m2
  <2>3. Append(messages, m1) \in Seq(Message)
        /\ messages' = Append(Append(messages, m1), m2)
    BY <1>1, <2>1, <2>2
  <2>4. Behind' = Behind + 2 /\ round <= round'
    BY <1>1, <2>1 DEF Behind
  <2>5. HasRoom
    BY <1>2, <1>20, <2>4 DEF d
  <2>6. Near(messages, Behind) /\ Behind \in Nat /\ Behind + 1 \in Nat
        /\ Behind + 1 + 1 = Behind + 2
    BY <1>2, <2>1, <2>5 DEF Asked, d
  <2>7. Near(messages', Behind + 2)
    <3>1. Near(Append(messages, m1), Behind + 1)
      BY <1>1, <2>6, NearAppend
    <3>2. Near(Append(Append(messages, m1), m2), Behind + 1 + 1)
      BY <2>3, <2>6, <3>1, NearAppend
    <3>3. QED
      BY <2>3, <2>6, <3>2
  <2>8. QED
    BY <2>1, <2>4, <2>7 DEF Goal
<1>10. CASE (\E long \in LongTexts, streamed \in BOOLEAN : ChatAnswers(long, streamed))
           \/ StreamFails \/ (\E long \in LongTexts : StreamEnds(long)) \/ StoreMemory
  <2>1. pc' \notin {"asking", "waiting", "running"}
    BY <1>10 DEF ChatAnswers, StreamFails, StreamEnds, StoreMemory
  <2>2. QED
    BY <1>3, <2>1
<1>11. CASE OverBudget \/ CallDenied \/ CallMissing
            \/ \E outcome \in Outcomes, long \in LongTexts : CallRuns(outcome, long)
  <2>1. /\ pc = "running" /\ pc' = "running" /\ loopCount' = loopCount + 1 /\ forced' = forced
        /\ round' = round /\ (messages' = messages \/ \E m : messages' = Append(messages, m))
    BY <1>11 DEF OverBudget, CallDenied, CallMissing, CallRuns, WithinBudget
  <2>2. Behind' = Behind + 2 /\ round <= round'
    BY <1>1, <2>1 DEF Behind
  <2>3. HasRoom
    BY <1>2, <1>20, <2>2 DEF d
  <2>4. Near(messages, Behind + 1)
    BY <2>1, <2>3 DEF Asked
  <2>5. /\ Behind + 1 \in Nat /\ Behind + 2 \in Nat /\ Behind + 3 \in Nat
        /\ Behind + 1 + 1 = Behind + 2 /\ Behind + 2 + 1 = Behind + 3
        /\ Behind + 1 <= Behind + 2 /\ Behind + 2 <= Behind + 3
    BY <1>2 DEF d
  <2>6. Near(messages', Behind + 2)
    <3>1. CASE messages' = messages
      BY <1>1, <2>4, <2>5, <3>1, NearMore
    <3>2. ASSUME NEW m, messages' = Append(messages, m) PROVE Near(messages', Behind + 2)
      <4>1. Near(Append(messages, m), Behind + 1 + 1)
        BY <1>1, <2>4, <2>5, NearAppend
      <4> QED BY <2>5, <3>2, <4>1
    <3> QED BY <2>1, <3>1, <3>2
  <2>7. Near(messages', Behind + 3)
    BY <1>1, <2>5, <2>6, NearMore
  <2>8. QED
    BY <2>1, <2>2, <2>5, <2>6, <2>7 DEF Goal
<1>12. CASE NextRound
  <2>1. /\ pc = "running" /\ batch = <<>> /\ pc' = "asking"
        /\ UNCHANGED <<messages, loopCount, forced, round>>
    BY <1>12 DEF NextRound
  <2>2. HasRoom /\ Behind' = Behind
    BY <1>4, <2>1
  <2>3. QED
    BY <2>1, <2>2 DEF Asked, Goal
<1>13. CASE AskApproval \/ StopOverBudget \/ RunPending
  <2>1. pc' \notin {"asking", "waiting", "running"}
    BY <1>13 DEF AskApproval, StopOverBudget, RunPending, RunApproved, ContinueAnswers,
                 ContinueFails
  <2>2. QED
    BY <1>3, <2>1
<1>14. CASE (\E long \in LongTexts : RefuseTurn(long)) \/ Approve \/ Deny \/ Reset
  <2>1. pc' \in {"idle", "approved"}
    BY <1>14 DEF RefuseTurn, Approve, Deny, Reset
  <2>2. QED
    BY <1>3, <2>1
<1>15. ASSUME NEW m \in Modes, NEW long \in LongTexts, StartTurn(m, long) PROVE Goal
  <2>1. /\ pc' = "asking" /\ loopCount' = 0 /\ forced' = FALSE
        /\ messages' = Append(messages, Text("user", long))
    BY <1>15 DEF StartTurn
  <2>2. Near(messages', 0)
    BY <1>1, <2>1, NearUser
  <2>3. Behind' = 0
    BY <2>1 DEF Behind
  <2>4. QED
    BY <2>1, <2>2, <2>3 DEF Goal
<1>16. CASE UNCHANGED vars
  <2>1. UNCHANGED <<messages, pc, batch, loopCount, forced, round>>
    BY <1>16 DEF vars
  <2>2. HasRoom /\ Behind' = Behind
    BY <1>4, <2>1
  <2>3. QED
    BY <2>1, <2>2 DEF Asked, Goal
<1>17. CASE Chat
  BY <1>5, <1>6, <1>7, <1>8, <1>9, <1>10, <1>17 DEF Chat
<1>18. CASE RunTools
  BY <1>11, <1>12, <1>13, <1>18 DEF RunTools
<1>19. CASE User
  BY <1>14, <1>15, <1>19 DEF User
<1>21. QED
  BY <1>13, <1>16, <1>17, <1>18, <1>19 DEF Next

(* QuestionKept for every window, budget and cut of the compression. *)
THEOREM TheQuestionStays == Spec => []QuestionKept
<1>1. Init => Asked
  BY DEF Init, Asked
<1>2. Asked => QuestionKept
  BY DEF Asked, HasRoom, Near, QuestionKept
<1>3. QED
  BY <1>1, <1>2, AskedStep, TypeInvariant, PTL DEF Spec

-----------------------------------------------------------------------------
(* The turn implements TurnOutcome: a step of the runtime is a step of the
   outcome or is invisible to it. *)
LEMMA OutcomeStep ==
  ASSUME TypeOK, Shape, Kept, [Next]_vars
  PROVE  [Outcome!Next]_(Outcome!vars)
<1> DEFINE todo == IF pc = "approved" THEN CallIds(batch) ELSE {}
           waits == CallIds(pend)
<1> USE DEF context, counters, Finish
<1>1. ASSUME Phase' = Phase, event' = event, waits' = waits, todo' = todo,
             ledger'.ran = ledger.ran
      PROVE  [Outcome!Next]_(Outcome!vars)
  BY <1>1 DEF Outcome!vars
<1>2. ledger \in Ledger
  BY DEF TypeOK
<1>3. CASE \/ AskProvider \/ ChatRejectsPrompt \/ ChatAsksPermission
           \/ (\E kinds \in Batches : ChatCallsTools(kinds))
           \/ (\E long \in LongTexts : ChatAnswers(long, TRUE))
           \/ OverBudget \/ CallDenied \/ CallMissing \/ NextRound
           \/ (ChatFails /\ retries < 2)
  <2>1. /\ pc \in {"asking", "waiting", "running"}
        /\ pc' \in {"asking", "waiting", "running", "streaming"}
        /\ UNCHANGED <<event, pend>>
    BY <1>3 DEF AskProvider, ChatRejectsPrompt, ChatAsksPermission, ChatCallsTools, ChatAnswers,
      OverBudget, CallDenied, CallMissing, WithinBudget, NextRound, ChatFails
  <2>2. ledger'.ran = ledger.ran
    BY <1>2, <1>3 DEF AskProvider, ChatRejectsPrompt, ChatAsksPermission, ChatCallsTools,
      ChatAnswers, OverBudget, CallDenied, CallMissing, NextRound, ChatFails, Ledger
  <2>3. Phase' = Phase /\ todo' = todo /\ waits' = waits
    BY <2>1 DEF Phase
  <2>4. QED
    BY <1>1, <2>1, <2>2, <2>3
<1>4. CASE \/ (ChatFails /\ ~(retries < 2)) \/ StreamFails \/ StopOverBudget \/ ContinueFails
  <2>1. /\ pc \in {"waiting", "streaming", "running"} \/ (pc = "approved" /\ batch = <<>>)
        /\ pc' = "idle" /\ event' = "closed" /\ UNCHANGED <<pend, ledger>>
    BY <1>4 DEF ChatFails, StreamFails, StopOverBudget, ContinueFails
  <2>2. Phase \in {"working", "approved"} /\ Phase' = "idle" /\ todo = {} /\ todo' = {}
        /\ waits' = waits
    BY <2>1, NoCalls DEF Phase
  <2>3. Outcome!Fail
    BY <2>1, <2>2 DEF Outcome!Fail
  <2>4. QED
    BY <2>3 DEF Outcome!Next
<1>5. CASE \/ (\E long \in LongTexts : ChatAnswers(long, FALSE))
           \/ (\E long \in LongTexts : StreamEnds(long))
           \/ (\E long \in LongTexts : ContinueAnswers(long))
  <2>1. /\ pc \in {"waiting", "streaming"} \/ (pc = "approved" /\ batch = <<>>)
        /\ pc' = "storing" /\ event' = "done" /\ UNCHANGED pend
    BY <1>5 DEF ChatAnswers, StreamEnds, ContinueAnswers
  <2>2. ledger'.ran = ledger.ran
    BY <1>2, <1>5 DEF ChatAnswers, StreamEnds, ContinueAnswers, Ledger
  <2>3. Phase \in {"working", "approved"} /\ Phase' = "answered" /\ todo = {} /\ todo' = {}
        /\ waits' = waits
    BY <2>1, NoCalls DEF Phase
  <2>4. Outcome!Answer
    BY <2>1, <2>2, <2>3 DEF Outcome!Answer
  <2>5. QED
    BY <2>4 DEF Outcome!Next
<1>6. CASE StoreMemory
  <2>1. pc = "storing" /\ pc' = "idle" /\ UNCHANGED <<event, pend, ledger>>
    BY <1>6 DEF StoreMemory
  <2>2. Phase = "answered" /\ Phase' = "idle" /\ todo = {} /\ todo' = {} /\ waits' = waits
    BY <2>1 DEF Phase
  <2>3. Outcome!End
    BY <2>1, <2>2 DEF Outcome!End
  <2>4. QED
    BY <2>3 DEF Outcome!Next
<1>7. ASSUME NEW outcome \in Outcomes, NEW long \in LongTexts, CallRuns(outcome, long)
      PROVE  [Outcome!Next]_(Outcome!vars)
  <2> DEFINE call == Head(batch)
             file == IF outcome = "ok" /\ call.kind = "send" THEN {call.id} ELSE {}
  <2>1. /\ batch # <<>> /\ pc = "running"
        /\ ledger' = [Ran(call) EXCEPT !.queued = @ \union file, !.inTurn = @ \union {call.id}]
        /\ UNCHANGED <<pc, pend, event>>
    BY <1>7 DEF CallRuns, WithinBudget
  <2>2. call \in Call /\ call.id \in CallIds(batch)
    BY <2>1, CallsTail DEF TypeOK
  <2> HIDE DEF call, file
  <2>3. call.id \in Ids
    BY <2>2 DEF Call
  <2>4. Ran(call) \in Ledger /\ Ran(call).ran = ledger.ran \union {call.id}
    BY <2>2, RanType
  <2>5. ledger'.ran = ledger.ran \union {call.id}
    BY <2>1, <2>4 DEF Ledger
  <2>6. call.id \in Ids \ (ledger.ran \union waits)
    BY <2>2, <2>3 DEF Kept, Sorted
  <2>7. Phase = "working" /\ Phase' = "working" /\ todo' = todo /\ waits' = waits
    BY <2>1 DEF Phase
  <2>8. Outcome!Run
    BY <2>1, <2>5, <2>6, <2>7 DEF Outcome!Run
  <2>9. QED
    BY <2>8 DEF Outcome!Next
<1>8. CASE AskApproval
  <2>1. /\ pc = "running" /\ asked # <<>> /\ pend' = asked /\ pc' = "idle" /\ event' = "asked"
        /\ ledger' = ledger
    BY <1>8 DEF AskApproval
  <2>2. CallIds(asked) # {} /\ CallIds(asked) \subseteq Ids \ ledger.ran
    BY <2>1, SomeCalls, CallIdsType DEF TypeOK, Kept, Sorted
  <2>3. Phase = "working" /\ Phase' = "idle" /\ todo = {} /\ todo' = {} /\ waits' = CallIds(asked)
    BY <2>1 DEF Phase
  <2>4. PICK ids : ids = CallIds(asked)
    OBVIOUS
  <2>5. /\ CallIds(pend)' = ids /\ ids # {} /\ ids \subseteq Ids \ ledger.ran
        /\ event' = "asked" /\ ledger'.ran = ledger.ran
    BY <2>1, <2>2, <2>3, <2>4
  <2>6. ids \in (SUBSET (Ids \ ledger.ran)) \ {{}}
    BY <2>5
  <2>7. \E x \in (SUBSET (Ids \ ledger.ran)) \ {{}} : CallIds(pend)' = x
    BY <2>5, <2>6
  <2>8. Outcome!Ask
    BY <2>3, <2>5, <2>7 DEF Outcome!Ask
  <2>9. QED
    BY <2>8 DEF Outcome!Next
<1>9. ASSUME NEW m \in Modes, NEW long \in LongTexts, StartTurn(m, long)
      PROVE  [Outcome!Next]_(Outcome!vars)
  <2>1. pc = "idle" /\ pc' = "asking" /\ event' = "none" /\ UNCHANGED pend
        /\ ledger'.ran = ledger.ran
    BY <1>2, <1>9 DEF StartTurn, Ledger
  <2>2. Phase = "idle" /\ Phase' = "working" /\ todo = {} /\ todo' = {} /\ waits' = waits
    BY <2>1 DEF Phase
  <2>3. Outcome!Begin
    BY <2>1, <2>2 DEF Outcome!Begin
  <2>4. QED
    BY <2>3 DEF Outcome!Next
<1>10. CASE \E long \in LongTexts : RefuseTurn(long)
  <2>1. pc = "idle" /\ pc' = "idle" /\ event' = "closed" /\ UNCHANGED <<pend, ledger>>
    BY <1>10 DEF RefuseTurn
  <2>2. Phase = "idle" /\ Phase' = "idle" /\ todo = {} /\ todo' = {} /\ waits' = waits
    BY <2>1 DEF Phase
  <2>3. Outcome!Refuse
    BY <2>1, <2>2 DEF Outcome!Refuse
  <2>4. QED
    BY <2>3 DEF Outcome!Next
<1>11. CASE Approve
  <2>1. /\ pc = "idle" /\ pend # <<>> /\ batch' = pend /\ pend' = <<>>
        /\ pc' = "approved" /\ event' = "none" /\ ledger'.ran = ledger.ran
    BY <1>2, <1>11 DEF Approve, Ledger
  <2>2. Phase = "idle" /\ Phase' = "approved" /\ todo' = waits /\ waits # {} /\ waits' = {}
    BY <2>1, SomeCalls, NoCalls DEF Phase, TypeOK
  <2>3. Outcome!Approve
    BY <2>1, <2>2 DEF Outcome!Approve
  <2>4. QED
    BY <2>3 DEF Outcome!Next
<1>12. ASSUME NEW long \in LongTexts, RunApproved(long)
       PROVE  [Outcome!Next]_(Outcome!vars)
  <2> DEFINE call == Head(batch)
  <2>1. /\ batch # <<>> /\ pc = "approved" /\ batch' = Tail(batch) /\ ledger' = Ran(call)
        /\ UNCHANGED <<pc, pend, event>>
    BY <1>12 DEF RunApproved
  <2>2. /\ call \in Call /\ CallIds(batch) = CallIds(batch') \union {call.id}
        /\ call.id \notin CallIds(batch')
    BY <2>1, CallsTail DEF TypeOK, Kept, Sorted
  <2> HIDE DEF call
  <2>3. ledger'.ran = ledger.ran \union {call.id}
    BY <2>1, <2>2, RanType
  <2>4. Phase = "approved" /\ Phase' = "approved" /\ call.id \in todo /\ todo' = todo \ {call.id}
        /\ waits' = waits
    BY <2>1, <2>2 DEF Phase
  <2>5. Outcome!RunApproved
    BY <2>1, <2>3, <2>4 DEF Outcome!RunApproved
  <2>6. QED
    BY <2>5 DEF Outcome!Next
<1>13. CASE Deny \/ Reset
  <2>1. pc = "idle" /\ pc' = "idle" /\ pend' = <<>> /\ event' = event /\ ledger'.ran = ledger.ran
    BY <1>2, <1>13 DEF Deny, Reset, Ledger
  <2>2. Phase = "idle" /\ Phase' = "idle" /\ todo = {} /\ todo' = {} /\ waits' = {}
    BY <2>1, NoCalls DEF Phase
  <2>3. Outcome!Deny
    BY <2>1, <2>2 DEF Outcome!Deny
  <2>4. QED
    BY <2>3 DEF Outcome!Next
<1>14. CASE UNCHANGED vars
  <2>1. Phase' = Phase /\ event' = event /\ waits' = waits /\ todo' = todo
        /\ ledger'.ran = ledger.ran
    BY <1>14 DEF vars, Phase
  <2>2. QED
    BY <1>1, <2>1
<1>15. (\E long \in LongTexts, streamed \in BOOLEAN : ChatAnswers(long, streamed))
         => (\E long \in LongTexts : ChatAnswers(long, TRUE))
            \/ (\E long \in LongTexts : ChatAnswers(long, FALSE))
  OBVIOUS
<1> HIDE DEF todo, waits
<1>16. QED
  BY <1>3, <1>4, <1>5, <1>6, <1>7, <1>8, <1>9, <1>10, <1>11, <1>12, <1>13, <1>14, <1>15
     DEF Next, Chat, RunTools, RunPending, User

(* OutcomeSpec, the safety of TurnOutcome, for every budget and every mix of
   modes: one outcome per turn, a call runs once, and one that was asked about
   only after the user agreed. *)
THEOREM TurnsHaveTheirOutcome == Spec => OutcomeSpec
<1>1. Init => Outcome!Init
  <2> SUFFICES ASSUME Init PROVE Outcome!Init
    OBVIOUS
  <2>1. pc = "idle" /\ event = "none" /\ pend = <<>> /\ ledger.ran = {}
    BY DEF Init
  <2>2. Phase = "idle" /\ CallIds(pend) = {}
    BY <2>1, NoCalls DEF Phase
  <2>3. QED
    BY <2>1, <2>2 DEF Outcome!Init
<1>2. QED
  BY <1>1, OutcomeStep, KeptInvariant, PTL DEF Spec, OutcomeSpec, Outcome!Spec

=============================================================================
