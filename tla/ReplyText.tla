------------------------------ MODULE ReplyText ------------------------------
(***************************************************************************)
(* How an answer reaches the chat (send_response_text and what it calls,    *)
(* crates/unly-telegram/src/bot.rs): the text is split into chunks, each    *)
(* chunk is converted from Markdown to Telegram HTML by itself and sent,    *)
(* and sent again as plain text when the first attempt fails.               *)
(*                                                                          *)
(* A text is a sequence of symbols, one for each character.  "a" and "w"    *)
(* are letters, "w" one of two bytes; "tick" is a backquote, "b" the name   *)
(* of the one tag Telegram knows here and "e" of the one entity.            *)
(* Attributes of tags are left out.  What is sent is a sequence of tokens,  *)
(* of which those of the text keep the position they come from.             *)
(***************************************************************************)
EXTENDS Integers, SequencesExt, FiniteSetsExt

CONSTANTS
  ReplyTexts,      (* the texts that may be sent                           *)
  ChunkLimit,      (* 3600 bytes                                           *)
  MessageLimit,    (* the 4096 characters that Telegram takes              *)
  MaxFailures      (* bound: requests that fail on their way               *)

(* A character of two bytes fits into a chunk. *)
ASSUME ReplyAssumption ==
  /\ \A s \in ReplyTexts : s \in Seq(STRING)
  /\ ChunkLimit \in Nat /\ ChunkLimit >= 2
  /\ MessageLimit \in Nat /\ MessageLimit >= ChunkLimit

VARIABLES
  answerText,      (* the text                                             *)
  rest,            (* the first position that no chunk has taken           *)
  chunk,           (* the chunk that is being sent: [first, last, html]    *)
  stage,           (* "split", "html", "plain", "done" or "failed"         *)
  arrived,         (* history: the chunks that arrived                     *)
  failures         (* requests that failed on their way                    *)

replyVars == <<answerText, rest, chunk, stage, arrived, failures>>

-----------------------------------------------------------------------------
(* Splitting. *)

Starts(s, i, mark) ==
  /\ i + Len(mark) - 1 <= Len(s)
  /\ \A k \in DOMAIN mark : s[i + k - 1] = mark[k]

(* The first place of a mark from i on; 0 if there is none. *)
Find(s, i, mark) ==
  LET places == {j \in i..Len(s) : Starts(s, j, mark)}
  IN IF places = {} THEN 0 ELSE Min(places)

Bytes(s) == Len(s) + Cardinality({k \in DOMAIN s : s[k] = "w"})

(* One round of split_at_boundary: the last position of the chunk that begins
   at i, and where the next one begins.  A blank line is preferred, then a
   line's end; at position i itself neither is taken. *)
NextChunk(s, i) ==
  LET fits == {k \in i..Len(s) : Bytes(SubSeq(s, i, k)) <= ChunkLimit}
      safeEnd == Max(fits)
      paragraphs == {k \in i..safeEnd - 1 : Starts(s, k, <<"nl", "nl">>)}
      lines == {k \in fits : s[k] = "nl"}
      cut == CASE paragraphs # {} -> Max(paragraphs)
               [] paragraphs = {} /\ lines # {} -> Max(lines)
               [] OTHER -> i
  IN IF safeEnd = Len(s) \/ cut = i THEN [last |-> safeEnd, next |-> safeEnd + 1]
     ELSE [last |-> cut - 1, next |-> Min({k \in cut..Len(s) : s[k] # "nl"} \union {Len(s) + 1})]

-----------------------------------------------------------------------------
(* Conversion to HTML.  Each construct is an operator that returns what it
   makes of the text at i and where it goes on, or nothing: a set of at most
   one [out, next]. *)

Opening(name) == [is |-> "open", sym |-> name, from |-> 0]
Closing(name) == [is |-> "close", sym |-> name, from |-> 0]
Plain(s, i) == [is |-> "text", sym |-> s[i], from |-> i]

Special == {"<", ">", "&"}
Escape(s, i) == [is |-> "text", sym |-> IF s[i] \in Special THEN "escape" ELSE s[i], from |-> i]

(* push_html_escaped *)
Escaped(s, i, j) == [k \in 1..(IF j < i THEN 0 ELSE j - i + 1) |-> Escape(s, i + k - 1)]

Wrapped(name, tokens) == <<Opening(name)>> \o tokens \o <<Closing(name)>>

FenceMark == <<"tick", "tick", "tick">>

(* Mutant: the rest of the first line is a hint, even if a fence closes on it. *)
Fence_AlwaysHint(s, i) ==
  LET start == i + 3
      lineEnd == Find(s, start, <<"nl">>)
      code == IF lineEnd # 0 THEN lineEnd + 1 ELSE start
      close == Find(s, code, FenceMark)
      stop == IF close # 0 THEN close ELSE Max({code, Len(s) - 1})
  IN {p \in {IF close # 0
             THEN [out |-> Wrapped("pre", Escaped(s, code, close - 1)), next |-> close + 3]
             ELSE [out |-> Escaped(s, code, stop - 1), next |-> stop]} : Starts(s, i, FenceMark)}

(* The rest of the first line is a hint when no fence closes on it; a block
   that is not closed is given as text, its last two characters aside. *)
Fence(s, i) ==
  LET start == i + 3
      close == Find(s, start, FenceMark)
      lineEnd == Find(s, start, <<"nl">>)
      code == IF lineEnd # 0 /\ (close = 0 \/ lineEnd < close) THEN lineEnd + 1 ELSE start
      stop == IF close # 0 THEN close ELSE Max({code, Len(s) - 1})
  IN {p \in {IF close # 0
             THEN [out |-> Wrapped("pre", Escaped(s, code, close - 1)), next |-> close + 3]
             ELSE [out |-> Escaped(s, code, stop - 1), next |-> stop]} : Starts(s, i, FenceMark)}

(* Inline code, bold, strikethrough: a mark, and the same mark again. *)
Between(s, i, mark, name) ==
  LET start == i + Len(mark)
      close == Find(s, start, mark)
  IN {p \in {[out |-> Wrapped(name, Escaped(s, start, close - 1)), next |-> close + Len(mark)]} :
        Starts(s, i, mark) /\ close # 0}

Italic(s, i) == IF Starts(s, i, <<"*", "*">>) THEN {} ELSE Between(s, i, <<"*">>, "i")

(* is_telegram_html_tag: a tag of the text goes through; another "<" is text. *)
OwnTag(s, i) ==
  IF Starts(s, i, <<"<", "b", ">">>) THEN {[out |-> <<Opening("b")>>, next |-> i + 3]}
  ELSE IF Starts(s, i, <<"<", "/", "b", ">">>) THEN {[out |-> <<Closing("b")>>, next |-> i + 4]}
  ELSE IF s[i] = "<" THEN {[out |-> <<Escape(s, i)>>, next |-> i + 1]}
  ELSE {}

(* One to three "#" and a space at the beginning of a line. *)
Header(s, i) ==
  LET text == Min({j \in i..Len(s) : s[j] # "#"} \union {Len(s) + 1})
      lineEnd == Find(s, text, <<"nl">>)
      end == IF lineEnd = 0 THEN Len(s) + 1 ELSE lineEnd
      blank == [is |-> "text", sym |-> "nl", from |-> 0]
  IN {p \in {[out |-> Wrapped("b", Escaped(s, text + 1, end - 1)) \o <<blank, blank>>,
              next |-> IF lineEnd = 0 THEN end ELSE end + 1]} :
        (i = 1 \/ s[i - 1] = "nl") /\ text - i \in 1..3 /\ text <= Len(s) /\ s[text] = " "}

(* [text](url): the address comes first. *)
Link(s, i) ==
  LET close == Find(s, i + 1, <<"]">>)
      end == Find(s, close + 2, <<")">>)
  IN {p \in {[out |-> Escaped(s, close + 2, end - 1) \o Wrapped("a", Escaped(s, i + 1, close - 1)),
              next |-> end + 1]} :
        s[i] = "[" /\ close # 0 /\ close < Len(s) /\ s[close + 1] = "(" /\ end # 0}

(* Entities go through, other characters are escaped. *)
Character(s, i) ==
  IF Starts(s, i, <<"&", "e", "semicolon">>)
  THEN {[out |-> <<[Plain(s, i) EXCEPT !.sym = "entity"]>>, next |-> i + 3]}
  ELSE {[out |-> <<Escape(s, i)>>, next |-> i + 1]}

(* The first construct that applies. *)
Piece(s, i) ==
  LET constructs == <<Fence(s, i), Between(s, i, <<"tick">>, "code"), OwnTag(s, i), Header(s, i),
                      Between(s, i, <<"*", "*">>, "b"), Between(s, i, <<"~", "~">>, "s"),
                      Italic(s, i), Link(s, i), Character(s, i)>>
      applicable == {k \in DOMAIN constructs : constructs[k] # {}}
  IN CHOOSE p \in constructs[Min(applicable)] : TRUE

(* One round of the loop, until the text is over. *)
TakePiece(s, st) ==
  IF st.next > Len(s) THEN st
  ELSE LET p == Piece(s, st.next) IN [out |-> st.out \o p.out, next |-> p.next]

(* convert_to_telegram_html: no more rounds than characters. *)
Convert(s) ==
  LET round[n \in 0..Len(s)] ==
        IF n = 0 THEN [out |-> <<>>, next |-> 1] ELSE TakePiece(s, round[n - 1])
  IN  round[Len(s)].out

-----------------------------------------------------------------------------
(* Sending. *)

(* Telegram takes a message as HTML if every tag is closed in its turn and no
   character is left that should be escaped, and none that shows nothing. *)
NextOpen(open, token) ==
  CASE token.is = "open" -> Append(open, token.sym)
    [] token.is = "close" ->
         IF open # <<>> /\ Last(open) = token.sym THEN Front(open) ELSE <<"error">> \o open
    [] OTHER -> IF token.sym \in Special THEN <<"error">> \o open ELSE open

WellFormed(tokens) ==
  LET open[n \in 0..Len(tokens)] ==
        IF n = 0 THEN <<>> ELSE NextOpen(open[n - 1], tokens[n])
  IN  open[Len(tokens)] = <<>>

Shows(token) == token.is = "text" /\ token.sym \notin {"nl", " "}
Blank(tokens) == ~\E k \in DOMAIN tokens : Shows(tokens[k])

(* As plain text the tags are characters as well. *)
BlankPlain(tokens) == Blank(tokens) /\ \A k \in DOMAIN tokens : tokens[k].is = "text"

(* What a message measures as it is sent: an escaped character as the five of
   "&amp;", an entity as its three symbols, a tag as one of a single letter. *)
Width(token) ==
  CASE token.is = "open" -> 3
    [] token.is = "close" -> 4
    [] token.is = "text" /\ token.sym = "escape" -> 5
    [] token.is = "text" /\ token.sym = "entity" -> 3
    [] OTHER -> 1

TooLong(tokens) ==
  LET length[n \in 0..Len(tokens)] == IF n = 0 THEN 0 ELSE length[n - 1] + Width(tokens[n])
  IN  length[Len(tokens)] > MessageLimit

ReplyInit ==
  /\ answerText \in ReplyTexts \ {<<>>}
  /\ rest = 1 /\ chunk = [first |-> 1, last |-> 0, html |-> <<>>]
  /\ stage = "split" /\ arrived = {} /\ failures = 0

TakeChunk ==
  /\ stage = "split"
  /\ IF rest > Len(answerText) THEN stage' = "done" /\ UNCHANGED <<rest, chunk>>
     ELSE /\ \E taken \in {NextChunk(answerText, rest)} :
               /\ chunk' = [first |-> rest, last |-> taken.last,
                            html |-> Convert(SubSeq(answerText, rest, taken.last))]
               /\ rest' = taken.next
          /\ stage' = "html"
  /\ UNCHANGED <<answerText, arrived, failures>>

Arrives == arrived' = arrived \union {chunk}

(* A request that Telegram would take may fail on its way there or back. *)
Accepted(ok) == ok /\ stage' = "split" /\ Arrives /\ UNCHANGED failures
Fails(ok, next) ==
  /\ stage' = next
  /\ \/ ~ok /\ UNCHANGED <<arrived, failures>>
     \/ /\ ok /\ failures < MaxFailures /\ failures' = failures + 1
        /\ (Arrives \/ UNCHANGED arrived)

(* send_message_formatted: any error leads to the second attempt...  Whether
   the limit is on a message of HTML as it is sent, as the code takes it to be,
   or on what is left of it without its tags, is Telegram's: a message that is
   too long as it is sent may be taken or not. *)
SendHtml ==
  LET valid == WellFormed(chunk.html) /\ ~Blank(chunk.html)
  IN /\ stage = "html"
     /\ \E ok \in {valid, valid /\ ~TooLong(chunk.html)} : Accepted(ok) \/ Fails(ok, "plain")
     /\ UNCHANGED <<answerText, rest, chunk>>

(* ... the HTML as plain text, tags, escapes and all, and an error of that
   ends the answer. *)
SendPlain ==
  LET ok == ~BlankPlain(chunk.html) /\ ~TooLong(chunk.html)
  IN /\ stage = "plain"
     /\ Accepted(ok) \/ Fails(ok, "failed")
     /\ UNCHANGED <<answerText, rest, chunk>>

ReplyNext == TakeChunk \/ SendHtml \/ SendPlain

-----------------------------------------------------------------------------
(* Properties. *)

Letters(c) == {i \in c.first..c.last : answerText[i] \in {"a", "w"}}

(* A letter between a fence and the end of a line, with no fence after it on
   the line, may be the name of a language. *)
MayBeHint(c, i) ==
  LET fences == {k \in c.first..c.last - 2 : Starts(answerText, k, FenceMark)}
      sameLine(k, j) == \A l \in k..j : answerText[l] # "nl"
  IN /\ \E k \in fences : k < i /\ sameLine(k, i)
     /\ ~\E k \in fences : k > i /\ sameLine(i, k)

Shown(c) == {c.first + t.from - 1 : t \in {t \in ToSet(c.html) : t.from # 0}}
MayMiss(c) == {i \in Letters(c) : MayBeHint(c, i)}

(* Every letter of an answer that was sent to its end has arrived, wherever
   the chunks were cut and whichever requests failed, except names of
   languages (bot.rs:2206-2440, 2563-2605, 2768-2789). *)
LettersArrive ==
  stage = "done" =>
    \A i \in 1..Len(answerText) :
      answerText[i] \in {"a", "w"} =>
        \E c \in arrived : i \in Letters(c) /\ (i \in Shown(c) \/ i \in MayMiss(c))

HasOwnTags ==
  \E i \in 1..Len(answerText) :
    Starts(answerText, i, <<"<", "b", ">">>) \/ Starts(answerText, i, <<"<", "/", "b", ">">>)

(* Each chunk becomes valid HTML by itself, wherever a construct was cut: while
   the requests get through, the reader is shown raw tags only if the text has
   tags of its own, or if nothing is left between them (bot.rs:2776-2787); a
   chunk that is too long is not shown at all. *)
ChunksAreValid ==
  stage = "plain" /\ failures = 0 /\ ~TooLong(chunk.html) => HasOwnTags \/ Blank(chunk.html)

(* While the requests get through, an answer breaks off only at a chunk that
   has nothing to show, or that its tags and escapes make longer than Telegram
   takes, though it was split to be shorter (bot.rs:2778-2781, 2959-2975). *)
NothingCutOff ==
  stage = "failed" /\ failures = 0 =>
    TooLong(chunk.html) \/ Letters(chunk) \subseteq MayMiss(chunk)

(* The delivery of an answer: complete if it ends, readable, and broken off only
   for these reasons. *)
ReplyInv == LettersArrive /\ ChunksAreValid /\ NothingCutOff

=============================================================================
