---------------------------- MODULE ModelStream ----------------------------
(***************************************************************************)
(* The end of a turn as the providers serve it: the runtime asks for a      *)
(* whole reply with tools and, when that holds no call, for a second reply  *)
(* as a stream of server-sent events                                        *)
(* (crates/unly-providers/src/copilot.rs and openai_compat.rs, read by      *)
(* crates/unly-agent/src/runtime.rs:473-697).                               *)
(*                                                                          *)
(* The body of a stream is a sequence of symbols: "data:" opens a line with *)
(* a delta, "DONE" is the line [DONE], "skip" a line without a delta (blank,*)
(* a comment, broken JSON, a delta of a tool call), "nl" ends a line; "a"   *)
(* is a character of one byte, "e1" "e2" are the bytes of one of two.       *)
(***************************************************************************)
EXTENDS SequencesExt, Integers

CONSTANTS
  Bodies,          (* the bodies the API may send                          *)
  Replies          (* the whole replies: see ParseReply                    *)

Texts == {"a", "b", "e1", "e2"}
Symbols == {"data:", "DONE", "skip", "nl"} \union Texts

(* A body of the API, whole or broken off: text is in lines that "data:" opens
   and in no other, the two bytes of a character come together, and nothing is
   said after [DONE]. *)
IsBody(s) ==
  /\ s \in Seq(Symbols)
  /\ \A i \in DOMAIN s :
       /\ s[i] \in Texts => i > 1 /\ s[i - 1] \in {"data:"} \union Texts
       /\ s[i] = "data:" => i = 1 \/ s[i - 1] = "nl"
       /\ s[i] \in {"data:"} \union Texts /\ i < Len(s) => s[i + 1] \in {"nl"} \union Texts
       /\ s[i] = "e1" /\ i < Len(s) => s[i + 1] = "e2"
       /\ s[i] = "e2" => s[i - 1] = "e1"
       /\ s[i] = "DONE" => \A j \in i..Len(s) : s[j] \notin Texts

ASSUME StreamAssumption ==
  /\ \A b \in Bodies : IsBody(b)
  /\ \A r \in Replies : r.calls \in Seq([id : BOOLEAN, name : BOOLEAN]) /\ r.choice \in BOOLEAN

VARIABLES
  at,              (* where the request is                                 *)
  reply,           (* the calls of the whole reply                         *)
  body,            (* history: the body the API sends                      *)
  wire,            (* what it has not delivered                            *)
  buf, accumulated,(* the state of the unfold                              *)
  full,            (* full_content of the runtime                          *)
  cut              (* history: a chunk ended inside a character            *)

streamVars == <<at, reply, body, wire, buf, accumulated, full, cut>>

StreamInit ==
  /\ at = "probe" /\ reply = <<>>
  /\ body = <<>> /\ wire = <<>> /\ buf = <<>> /\ accumulated = <<>> /\ full = <<>>
  /\ cut = FALSE

-----------------------------------------------------------------------------
(* The whole reply.  A reply is a record: choice, whether it has a first
   choice with a message; calls, its tool calls, each with or without an id
   and a name. *)

Usable(call) == call.id /\ call.name

(* parse_chat_response: a call without an id or a name is left out; these are
   the places of the others. *)
ParseReply(r) == {i \in DOMAIN r.calls : Usable(r.calls[i])}

(* chat(): every failure is an error of the request, as is a reply without a
   choice; retries are the runtime's.  No usable call: ask for a stream. *)
Probe ==
  /\ at = "probe"
  /\ \/ at' = "failed" /\ UNCHANGED reply
     \/ \E r \in Replies :
          /\ reply' = r.calls
          /\ at' = CASE ~r.choice -> "failed"
                     [] ParseReply(r) # {} -> "calls"
                     [] OTHER -> "ask"
  /\ UNCHANGED <<body, wire, buf, accumulated, full, cut>>

(* chat_stream() up to the response's head. *)
OpenStream ==
  /\ at = "ask"
  /\ \/ at' = "failed" /\ UNCHANGED <<body, wire>>
     \/ at' = "reading" /\ body' \in Bodies /\ wire' = body'
  /\ UNCHANGED <<reply, buf, accumulated, full, cut>>

-----------------------------------------------------------------------------
(* The unfold and the loop that consumes it. *)

(* Mutant: the buffer is cleared after a line. *)
AfterLine_Clears(s) == <<>>

HasLine(s) == \E i \in DOMAIN s : s[i] = "nl"
FirstLine(s) == SubSeq(s, 1, SelectInSeq(s, LAMBDA x : x = "nl") - 1)
AfterLine(s) == SubSeq(s, SelectInSeq(s, LAMBDA x : x = "nl") + 1, Len(s))

DeltaOf(line) == IF line # <<>> /\ Head(line) = "data:" THEN Tail(line) ELSE <<>>

(* Mutant: a line without a delta stays in the buffer. *)
TakeLine_KeepsOthers ==
  /\ at = "reading" /\ HasLine(buf)
  /\ LET line == FirstLine(buf) IN
       IF line = <<"DONE">> THEN at' = "done" /\ UNCHANGED <<buf, accumulated, full>>
       ELSE /\ accumulated' = accumulated \o DeltaOf(line)
            /\ full' = full \o DeltaOf(line)
            /\ buf' = IF DeltaOf(line) = <<>> THEN buf ELSE AfterLine(buf)
            /\ UNCHANGED at
  /\ UNCHANGED <<reply, body, wire, cut>>

(* Take a whole line: [DONE] ends the loop; a delta is sent and collected on
   both sides; any other line is passed over. *)
TakeLine ==
  /\ at = "reading" /\ HasLine(buf)
  /\ LET line == FirstLine(buf) IN
       IF line = <<"DONE">>
       THEN at' = "done" /\ UNCHANGED <<accumulated, full>>
       ELSE /\ accumulated' = accumulated \o DeltaOf(line)
            /\ full' = full \o DeltaOf(line)
            /\ UNCHANGED at
  /\ buf' = AfterLine(buf)
  /\ UNCHANGED <<reply, body, wire, cut>>

(* from_utf8_lossy of one chunk: a byte without its other half becomes "?". *)
Decode(chunk) ==
  [i \in DOMAIN chunk |->
     IF \/ i = 1 /\ chunk[i] = "e2"
        \/ i = Len(chunk) /\ chunk[i] = "e1"
     THEN "?" ELSE chunk[i]]

ReadChunk ==
  /\ at = "reading" /\ ~HasLine(buf)
  /\ \E n \in 1..Len(wire) :
       /\ buf' = buf \o Decode(SubSeq(wire, 1, n))
       /\ wire' = SubSeq(wire, n + 1, Len(wire))
       /\ cut' = (cut \/ wire[n] = "e1")
  /\ UNCHANGED <<at, reply, body, accumulated, full>>

(* The connection fails, or the request's time is over. *)
ConnectionFails ==
  /\ at = "reading" /\ ~HasLine(buf)
  /\ at' = "failed"
  /\ UNCHANGED <<reply, body, wire, buf, accumulated, full, cut>>

(* The body ends: with Done if there was text, else the stream is over; the
   loop takes both alike.  A last line without its end is not looked at. *)
BodyEnds ==
  /\ at = "reading" /\ ~HasLine(buf)
  /\ at' = "closed"
  /\ UNCHANGED <<reply, body, wire, buf, accumulated, full, cut>>

(* The next request. *)
NextRequest ==
  /\ at \in {"done", "closed", "calls", "failed"}
  /\ at' = "probe" /\ reply' = <<>>
  /\ body' = <<>> /\ wire' = <<>> /\ buf' = <<>> /\ accumulated' = <<>> /\ full' = <<>>
  /\ cut' = FALSE

Reading == TakeLine \/ ReadChunk \/ ConnectionFails \/ BodyEnds

StreamNext == Probe \/ OpenStream \/ Reading \/ NextRequest

(* The loop reads on: a request has a time limit. *)
StreamFairness == WF_streamVars(Reading)

-----------------------------------------------------------------------------
(* Properties. *)

(* Symbols stay symbols; what the user sees is text, never a part of the
   protocol: no data: mark, no [DONE], no comment (copilot.rs:487-528). *)
StreamTypeOK ==
  /\ at \in {"probe", "ask", "reading", "done", "closed", "calls", "failed"}
  /\ \A s \in {body, wire, buf} : \A i \in DOMAIN s : s[i] \in Symbols \union {"?"}
  /\ \A s \in {accumulated, full} : \A i \in DOMAIN s : s[i] \in Texts \union {"?"}
  /\ cut \in BOOLEAN

(* How much text the first n symbols of the body hold: the place that the text
   at n has in what the user sees. *)
TextUpTo(n) == Cardinality({i \in 1..n : body[i] \in Texts})

(* Where the lines that have arrived end. *)
LineEnds == {i \in 1..Len(body) - Len(wire) : body[i] = "nl"}

(* What the user sees does not depend on where the network cuts the body: it
   is a prefix of the text that was sent, with no gap, no repetition and no
   part of a line, in which only characters that a chunk border splits are
   damaged (copilot.rs:487-556). *)
StreamedTextIsSent ==
  /\ Len(full) <= TextUpTo(Len(body))
  /\ \A i \in DOMAIN body : body[i] \in Texts /\ TextUpTo(i) <= Len(full) =>
       \/ full[TextUpTo(i)] = body[i]
       \/ cut /\ full[TextUpTo(i)] = "?"

(* When the answer is complete no text is missing: all text before [DONE], or
   every whole line that arrived before the connection was closed; and the
   response that Done carries, which the runtime drops, holds nothing that
   the deltas did not (runtime.rs:687-697). *)
NothingMissingAtTheEnd ==
  /\ at = "done" => Len(full) = TextUpTo(Len(body))
  /\ at = "closed" => \A i \in LineEnds :
       (\A j \in LineEnds : j <= i) => Len(full) = TextUpTo(i)
  /\ at \in {"done", "closed"} => accumulated = full

(* The final answer is requested only when the whole reply asks for nothing
   that can be run: a call with an id and a name is never passed over on the
   way to the answer (copilot.rs:716-738, runtime.rs:515). *)
NoCallPassedOver ==
  at \in {"ask", "reading", "done", "closed"} =>
    \A i \in DOMAIN reply : ~Usable(reply[i])

(* The reader of an answer, however the network cuts it: the user gets all of
   the text and nothing else, and no call of the reply is passed over. *)
StreamInv == StreamTypeOK /\ StreamedTextIsSent /\ NothingMissingAtTheEnd /\ NoCallPassedOver

(* Whatever the body holds and however it is cut, the loop ends. *)
ReadingEnds == (at = "reading") ~> (at # "reading")

=============================================================================
