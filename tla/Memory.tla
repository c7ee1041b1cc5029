------------------------------- MODULE Memory -------------------------------
(***************************************************************************)
(* Long-term memory: what a finished turn leaves                            *)
(* (AgentRuntime::store_memory_turn, crates/unly-agent/src/runtime.rs), how *)
(* it is kept and searched (crates/unly-memory/src/memory.rs) and what the  *)
(* next turn is shown of it (build_memory_context).  Turns of different     *)
(* chats run at the same time; a failure to embed, to read or to write is   *)
(* never reported.                                                          *)
(*                                                                          *)
(* A text is what the user and the assistant said, each a number that is    *)
(* its length; Secrets are the ones sanitize_memory_text blocks.            *)
(***************************************************************************)
EXTENDS Ordering

CONSTANTS
  MemoryChats, MemoryUsers,
  Words,           (* what may be said: lengths; 0 is blank                *)
  Secrets,         (* the words with a blocked part                        *)
  Similar(_, _),   (* similarity of a question and a stored text           *)
  Threshold,       (* similarity_threshold                                 *)
  TopK,            (* memory_context_top_k                                 *)
  MaxStored,       (* memory_store_max_chars_per_turn                      *)
  MaxItem,         (* memory_context_max_chars_per_item                    *)
  MaxTotal,        (* memory_context_max_total_chars                       *)
  Indexes,         (* what MEMORY.md may be: sequences of lengths, its own
                      and those of the files it links to                   *)
  MaxPerFile, MaxAllFiles, ItemFloor,
                   (* file_memory_max_chars_per_file (at least 200),
                      file_memory_max_total_chars (at least 200), and 64    *)
  Earlier,         (* what was said before: sequences of [chat, user, said,
                      reply], of turns that were stored                     *)
  MaxMemories      (* bound: turns                                         *)

Redacted == 1

(* What may have been said, as it is kept. *)
Memos ==
  LET earlier == UNION {UNION {{turns[i].said, turns[i].reply} : i \in DOMAIN turns} : turns \in Earlier}
      parts == Words \union {Redacted} \union earlier
  IN  parts \X parts

ASSUME MemoryAssumption ==
  /\ "none" \notin MemoryUsers
  /\ Words \subseteq Nat /\ Redacted \notin Secrets
  /\ \A question \in Words, memo \in Memos : Similar(question, memo) \in Nat
  /\ \A index \in Indexes : index \in Seq(Nat) /\ index # <<>>
  /\ \A turns \in Earlier :
       turns \in Seq([chat : MemoryChats, user : MemoryUsers, said : Nat, reply : Nat])
  /\ {Threshold, TopK, MaxStored, MaxItem, MaxTotal, MaxPerFile, MaxAllFiles} \subseteq Nat
  /\ ItemFloor \in Nat \ {0}

VARIABLES
  rows,            (* memory_entries: [scope, text, chat, user], oldest first *)
  today,           (* what today's memory file says                        *)
  turn,            (* each chat's turn: [at, user, said, reply, found, shown] *)
  memories,        (* turns so far                                         *)
  filesShown       (* what of MEMORY.md a turn is being given              *)

memoryVars == <<rows, today, turn, memories, filesShown>>

NoTurn == [at |-> "idle", user |-> "none", said |-> 0, reply |-> 0, found |-> <<>>, shown |-> <<>>]

-----------------------------------------------------------------------------
(* Operators. *)

(* sanitize_memory_text of both parts. *)
Sanitized(said, reply) ==
  <<IF said \in Secrets THEN Redacted ELSE said, IF reply \in Secrets THEN Redacted ELSE reply>>

(* truncate_to_chars: the mark comes on top of the cap. *)
Cut(length, cap) == IF length > cap THEN cap + 1 ELSE length

Length(text) == Cut(text[1] + text[2], MaxStored)

(* Mutant: the rows of every scope of that kind. *)
ListByScope_AnyId(scope) == {i \in DOMAIN rows : rows[i].scope[1] = scope[1]}

(* MemoryRepo::list_by_scope: where these rows are. *)
ListByScope(scope) == {i \in DOMAIN rows : rows[i].scope = scope}

(* MemoryStore::retrieve: the rows come newest first, and the sort by
   similarity is stable; the best TopK are the results. *)
Retrieve(scope, question) ==
  LET score == [i \in DOMAIN rows |-> Similar(question, rows[i].text)]
      near == {i \in ListByScope(scope) : score[i] >= Threshold}
      ranked == InOrder(near, {p \in near \X near :
                                \/ score[p[1]] > score[p[2]]
                                \/ score[p[1]] = score[p[2]] /\ p[1] > p[2]})
  IN [k \in 1..Least(TopK, Cardinality(near)) |->
        [text |-> rows[ranked[k]].text, chat |-> rows[ranked[k]].chat,
         user |-> rows[ranked[k]].user, score |-> score[ranked[k]]]]

(* The stable sort of the results of all scopes, best first. *)
Ranked(found) ==
  InOrder(DOMAIN found, {p \in (DOMAIN found) \X (DOMAIN found) :
                           \/ found[p[1]].score > found[p[2]].score
                           \/ found[p[1]].score = found[p[2]].score /\ p[1] < p[2]})

LineLength(r) == Cut(Length(r.text), MaxItem)

(* One more result, unless its text is there or the total would go over. *)
AddLine(st, r) ==
  IF st.full \/ \E i \in DOMAIN st.lines : st.lines[i].text = r.text
  THEN st
  ELSE IF st.total + LineLength(r) > MaxTotal
  THEN [st EXCEPT !.full = TRUE]
  ELSE [lines |-> Append(st.lines, r), total |-> st.total + LineLength(r), full |-> FALSE]

(* The lines of build_db_memory_context: the best TopK results, each text
   once, until one would go over the total. *)
Lines(found) ==
  LET most == Least(TopK, Len(found))
      shown[n \in 0..most] ==
        IF n = 0 THEN [lines |-> <<>>, total |-> 0, full |-> FALSE]
        ELSE AddLine(shown[n - 1], found[Ranked(found)[n]])
  IN  shown[most].lines

(* One more file, while there is room for ItemFloor. *)
AddFile(st, length) ==
  LET budget == IF Least(MaxPerFile, st.left) < ItemFloor THEN ItemFloor ELSE Least(MaxPerFile, st.left)
      cut == Cut(length, budget)
  IN IF st.left < ItemFloor THEN st
     ELSE [lines |-> Append(st.lines, cut), left |-> IF cut < st.left THEN st.left - cut ELSE 0]

(* build_file_memory_context: the index, then each file it links to. *)
FileLines(lengths) ==
  LET first == Cut(lengths[1], MaxPerFile)
      given[n \in 0..Len(lengths) - 1] ==
        IF n = 0
        THEN [lines |-> <<first>>, left |-> IF first < MaxAllFiles THEN MaxAllFiles - first ELSE 0]
        ELSE AddFile(given[n - 1], lengths[n + 1])
  IN  given[Len(lengths) - 1].lines

(* What a turn leaves in a scope. *)
Kept(scope, c, t) ==
  [scope |-> scope, text |-> Sanitized(t.said, t.reply), chat |-> c, user |-> t.user]

MemoryInit ==
  /\ \E turns \in Earlier :
       rows = [i \in 1..2 * Len(turns) |->
                 LET t == turns[(i + 1) \div 2]
                 IN Kept(IF i % 2 = 1 THEN <<"chat", t.chat>> ELSE <<"user", t.user>>, t.chat, t)]
  /\ today = {} /\ memories = 0
  /\ turn = [c \in MemoryChats |-> NoTurn]
  /\ filesShown = <<>>

-----------------------------------------------------------------------------
(* Actions. *)

(* build_memory_context begins; the index may have gone missing. *)
BuildContext(c) ==
  /\ turn[c].at = "idle" /\ memories < MaxMemories
  /\ memories' = memories + 1
  /\ \E user \in MemoryUsers \union {"none"}, said \in Words :
       turn' = [turn EXCEPT ![c] = [NoTurn EXCEPT !.at = "chat", !.user = user, !.said = said]]
  /\ \E index \in Indexes \union {<<>>} :
       filesShown' = IF index = <<>> THEN <<>> ELSE FileLines(index)
  /\ UNCHANGED <<rows, today>>

(* One scope is searched; a failure leaves it out.  Nothing is ever stored
   for an agent, so its scope ends the search. *)
SearchScope(c, kind, id, next) ==
  /\ turn[c].at = kind
  /\ \E results \in {<<>>, Retrieve(<<kind, id>>, turn[c].said)} :
       turn' = [turn EXCEPT ![c].found = @ \o results, ![c].at = next]
  /\ filesShown' = <<>>
  /\ UNCHANGED <<rows, today, memories>>

SearchChat(c) == SearchScope(c, "chat", c, IF turn[c].user = "none" THEN "agent" ELSE "user")
SearchUser(c) == SearchScope(c, "user", turn[c].user, "agent")

(* What the request is given. *)
SearchAgentAndShow(c) ==
  /\ turn[c].at = "agent"
  /\ LET found == turn[c].found \o Retrieve(<<"agent", c>>, turn[c].said)
     IN turn' = [turn EXCEPT ![c].shown = Lines(found), ![c].at = "ask"]
  /\ UNCHANGED <<rows, today, memories, filesShown>>

(* The turn answers, or fails and leaves nothing; two blank parts are not kept. *)
Answer(c) ==
  /\ turn[c].at = "ask"
  /\ \/ \E reply \in Words :
          turn' = [turn EXCEPT ![c].reply = reply,
                     ![c].at = IF turn[c].said = 0 /\ reply = 0 THEN "done" ELSE "storeChat"]
     \/ turn' = [turn EXCEPT ![c].at = "done"]
  /\ UNCHANGED <<rows, today, memories, filesShown>>

(* MemoryStore::store, once for the chat and once for the user. *)
StoreInChat(c) ==
  /\ turn[c].at = "storeChat"
  /\ rows' \in {rows, Append(rows, Kept(<<"chat", c>>, c, turn[c]))}
  /\ turn' = [turn EXCEPT ![c].at = IF turn[c].user = "none" THEN "file" ELSE "storeUser"]
  /\ UNCHANGED <<today, memories, filesShown>>

StoreForUser(c) ==
  /\ turn[c].at = "storeUser"
  /\ rows' \in {rows, Append(rows, Kept(<<"user", turn[c].user>>, c, turn[c]))}
  /\ turn' = [turn EXCEPT ![c].at = "file"]
  /\ UNCHANGED <<today, memories, filesShown>>

(* append_today_file_memory; a failure leaves less than this. *)
AppendToday(c) ==
  /\ turn[c].at = "file"
  /\ today' = today \union {Sanitized(turn[c].said, turn[c].reply)}
  /\ turn' = [turn EXCEPT ![c].at = "done"]
  /\ UNCHANGED <<rows, memories, filesShown>>

TurnOver(c) ==
  /\ turn[c].at = "done"
  /\ turn' = [turn EXCEPT ![c] = NoTurn]
  /\ UNCHANGED <<rows, today, memories, filesShown>>

MemoryNext ==
  \E c \in MemoryChats :
    \/ BuildContext(c) \/ SearchChat(c) \/ SearchUser(c) \/ SearchAgentAndShow(c) \/ Answer(c)
    \/ StoreInChat(c) \/ StoreForUser(c) \/ AppendToday(c) \/ TurnOver(c)

-----------------------------------------------------------------------------
(* Properties. *)

ShownTo(c) == {turn[c].shown[i] : i \in 1..Len(turn[c].shown)}

(* A turn is shown what was said in its own chat, or by its own user in
   another one, and nothing else, whatever chats run at the same time
   (runtime.rs:946-985). *)
ContextIsFromScopes ==
  \A c \in MemoryChats : \A r \in ShownTo(c) :
    r.chat = c \/ (r.user = turn[c].user /\ r.user # "none")

(* Nothing that looks like a secret gets into the database, into today's file
   or, through them, into a later turn (runtime.rs:1033-1034, 1318-1325). *)
SecretsStayOut ==
  \A t \in {rows[i].text : i \in 1..Len(rows)} \union today :
    t[1] \notin Secrets /\ t[2] \notin Secrets

(* What a turn is shown stays small: at most TopK lines of at most MaxTotal in
   all, no text twice, although each turn was stored for its chat and for its
   user; and the files are at most the larger of the two file limits and one
   mark (runtime.rs:885-933, 993-1022). *)
ContextBounded ==
  /\ \A c \in MemoryChats :
       LET lines == turn[c].shown
       IN /\ Len(lines) <= TopK /\ Cardinality({lines[i].text : i \in 1..Len(lines)}) = Len(lines)
          /\ Total([i \in DOMAIN lines |-> LineLength(lines[i])]) <= MaxTotal
  /\ Total(filesShown)
       <= (IF MaxPerFile > MaxAllFiles THEN MaxPerFile ELSE MaxAllFiles) + 1

(* What a turn is shown is the best that was found: no text that was found and
   is not shown is more similar than one that is (memory.rs:192-194,
   runtime.rs:990-999). *)
BestAreShown ==
  \A c \in MemoryChats : turn[c].at \notin {"chat", "user", "agent"} =>
    \A i \in 1..Len(turn[c].found), r \in ShownTo(c) :
      (\A s \in ShownTo(c) : s.text # turn[c].found[i].text) => turn[c].found[i].score <= r.score

(* What a turn is shown of earlier ones, whatever chats run at the same time:
   only its own scopes, no secrets, little, and the best of what was found. *)
MemoryInv == ContextIsFromScopes /\ SecretsStayOut /\ ContextBounded /\ BestAreShown

=============================================================================
