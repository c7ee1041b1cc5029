----------------------------- MODULE ModelMenu -----------------------------
(***************************************************************************)
(* The list of models that the setup wizard offers: list_models of the two  *)
(* kinds of provider (crates/unly-providers/src) and                        *)
(* select_model_from_provider (crates/unly-cli/src/commands.rs:966).        *)
(*                                                                          *)
(* A model id is a record: lower, its place in the order of the lowercased  *)
(* ids (0 for blank ids); capital, whether it is written with capitals;     *)
(* chat, whether no word of is_non_chat_model occurs in it; rank, what      *)
(* model_rank gives.  lower determines chat and rank.                       *)
(***************************************************************************)
EXTENDS SequencesExt, Ordering

CONSTANTS
  ModelIds,        (* the ids                                              *)
  KnownModels,     (* known_copilot_models: a sequence of ids              *)
  Recommended,     (* fallback_default of the wizard                       *)
  MaxListed        (* bound: the length of the list an API answers with    *)

(* The recommended models can chat. *)
ASSUME MenuAssumption ==
  /\ \A m \in ModelIds : m.lower \in Nat /\ m.rank \in Nat /\ m.chat \in BOOLEAN
  /\ \A m, n \in ModelIds : m.lower = n.lower => m.chat = n.chat /\ m.rank = n.rank
  /\ KnownModels \in Seq(ModelIds) /\ MaxListed \in Nat
  /\ Recommended \in ModelIds /\ Recommended.chat /\ Recommended.lower # 0

VARIABLES menuAt, listed, menu, answered
menuVars == <<menuAt, listed, menu, answered>>

(* What GET /models can end in: a failure, a status of failure, or a list of
   entries, of which parse_openai_models keeps those with an id. *)
ModelLists ==
  {[status |-> "no_answer", ids |-> <<>>], [status |-> "refused", ids |-> <<>>]} \union
  {[status |-> "ok", ids |-> ids] : ids \in SeqOf(ModelIds, MaxListed)}

(* CopilotProvider::list_models *)
CopilotModels(list) ==
  CASE list.status = "no_answer" -> [failed |-> TRUE, ids |-> <<>>]
    [] list.status = "refused" \/ list.ids = <<>> -> [failed |-> FALSE, ids |-> KnownModels]
    [] OTHER -> [failed |-> FALSE, ids |-> list.ids]

(* OpenAiCompatProvider::list_models; static are the configured ids. *)
OpenAiModels(list, static) ==
  CASE static # <<>> -> [failed |-> FALSE, ids |-> static]
    [] list.status = "ok" -> [failed |-> FALSE, ids |-> list.ids]
    [] OTHER -> [failed |-> TRUE, ids |-> <<>>]

(* sort_by_key and sort_by are stable: entries of which neither comes first
   keep their order. *)
StableSort(s, first) ==
  Arranged(s, DOMAIN s,
    {p \in (DOMAIN s) \X (DOMAIN s) :
       \/ <<s[p[1]], s[p[2]]>> \in first
       \/ <<s[p[2]], s[p[1]]>> \notin first /\ p[1] < p[2]})

(* retain, filter and dedup_by: what is at these places, as it was. *)
Retained(s, places) == Arranged(s, places, {p \in places \X places : p[1] < p[2]})

(* dedup_by keeps the first of each run of neighbours. *)
Dedup(s) == Retained(s, {i \in DOMAIN s : i = 1 \/ s[i].lower # s[i - 1].lower})

(* is_non_chat_model: embeddings, moderation, speech. *)
IsNonChat(m) == ~m.chat

ByName == {p \in ModelIds \X ModelIds : p[1].lower < p[2].lower}

ByRankAndName ==
  {p \in ModelIds \X ModelIds :
     \/ p[1].rank < p[2].rank
     \/ p[1].rank = p[2].rank /\ p[1].lower < p[2].lower}

NotBlank(ids) == Retained(ids, {i \in DOMAIN ids : ids[i].lower # 0})

(* The models that can chat, or all of them if none can. *)
Chatting(named) ==
  LET places == {i \in DOMAIN named : ~IsNonChat(named[i])}
  IN  IF places # {} THEN Retained(named, places) ELSE named

(* Mutant: neighbours are compared before the sort. *)
Menu_DedupFirst(ids) == StableSort(Chatting(StableSort(Dedup(NotBlank(ids)), ByName)), ByRankAndName)

Menu(ids) == StableSort(Chatting(Dedup(StableSort(NotBlank(ids), ByName))), ByRankAndName)

(* The entry the cursor is on. *)
DefaultIndex(entries) ==
  LET places == {i \in DOMAIN entries : entries[i] = Recommended}
  IN  IF places = {} THEN 1 ELSE CHOOSE i \in places : \A j \in places : i <= j

MenuInit == menuAt = "ask" /\ listed = [failed |-> FALSE, ids |-> <<>>] /\ menu = <<>> /\ answered = {}

ListModels ==
  /\ menuAt = "ask"
  /\ \E list \in ModelLists :
       \/ listed' = CopilotModels(list)
       \/ \E static \in {<<>>, <<Recommended>>} : listed' = OpenAiModels(list, static)
  /\ menuAt' = "listed"
  /\ UNCHANGED <<menu, answered>>

(* Without a list the operator types the id; the recommended one is preset. *)
OfferMenu ==
  /\ menuAt = "listed"
  /\ menu' = IF listed.failed THEN <<>> ELSE Menu(listed.ids)
  /\ menuAt' = "offered"
  /\ UNCHANGED <<listed, answered>>

(* Enter without moving: the preset or the entry under the cursor. *)
AcceptDefault ==
  /\ menuAt = "offered"
  /\ answered' = {IF menu = <<>> THEN Recommended ELSE menu[DefaultIndex(menu)]}
  /\ menuAt' = "answered"
  /\ UNCHANGED <<listed, menu>>

MenuNext == ListModels \/ OfferMenu \/ AcceptDefault

-----------------------------------------------------------------------------
(* Properties. *)

Named == {m \in Range(listed.ids) : m.lower # 0}

(* The menu against a definition by sets: one entry for each listed id
   whatever its capitals, chat models only as long as there is one, by rank
   and then by name (commands.rs:974-994). *)
MenuIsTheChatModels ==
  menuAt \in {"offered", "answered"} /\ ~listed.failed =>
    LET chatting == {m \in Named : m.chat}
        offered == IF chatting # {} THEN chatting ELSE Named
    IN  /\ {m.lower : m \in Range(menu)} = {m.lower : m \in offered}
        /\ Range(menu) \subseteq offered
        /\ \A i, j \in DOMAIN menu : i < j =>
             \/ menu[i].rank < menu[j].rank
             \/ menu[i].rank = menu[j].rank /\ menu[i].lower < menu[j].lower

(* Accepting the default gives the recommended model whenever the provider
   lists it in no other spelling too, and otherwise a model that was listed:
   never a model that cannot chat while one that can was there
   (commands.rs:1022-1031). *)
DefaultIsRecommended ==
  menuAt = "answered" =>
    \/ answered = {Recommended}
    \/ /\ answered \subseteq Named
       /\ \/ Recommended \notin Named
          \/ \E m \in Named : m # Recommended /\ m.lower = Recommended.lower
       /\ (\E m \in Named : m.chat) => \A m \in answered : m.chat

(* The menu, whatever the provider lists, and the answer that Enter gives. *)
MenuInv == MenuIsTheChatModels /\ DefaultIsRecommended

=============================================================================
