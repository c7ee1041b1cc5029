---------------------------- MODULE MCBackground ----------------------------
(* What a chat has going on beside its turns, one thing at a time: subagents,
   background commands, the menu of models, the delivery of an answer.  part
   says which of them a behaviour is about; the state of the others stays as it
   is at first.  They share no variable. *)
EXTENDS MCSubagents, ShellJobs, ModelMenu, ReplyText

VARIABLE part

ModelId(lower, capital, isChat, rank) ==
  [lower |-> lower, capital |-> capital, chat |-> isChat, rank |-> rank]
Gpt == ModelId(2, FALSE, TRUE, 6)
SomeIds ==
  {ModelId(0, FALSE, TRUE, 20), ModelId(1, FALSE, TRUE, 20), ModelId(4, FALSE, TRUE, 20),
   ModelId(2, TRUE, TRUE, 6), Gpt, ModelId(3, FALSE, FALSE, 20), ModelId(5, FALSE, TRUE, 0)}
Known == <<Gpt, ModelId(5, FALSE, TRUE, 0)>>

(* Up to three pieces of Markdown, and longer texts in which chunks are cut
   within a construct. *)
MarkdownPieces ==
  {<<"a">>, <<"w", " ">>, <<"nl", "nl">>, <<"nl">>, FenceMark, <<"tick">>, <<"*">>, <<"~", "~">>,
   <<"<">>, <<"<", "b", ">">>, <<"<", "/", "b", ">">>, <<"&", "e", "semicolon">>, <<"#", " ">>,
   <<"[", "a", "]", "(", "a", ")">>}
ShortTexts == {FlattenSeq(t) : t \in UNION {[1..n -> MarkdownPieces] : n \in 1..3}}
CodeBlocks ==
  {FenceMark \o <<"a", "nl", "a", "nl", "w", "nl">> \o FenceMark, FenceMark \o <<"a">> \o FenceMark}
TextEnds == {<<>>} \union [1..2 -> {"a", "nl", "*", "<"}]
CutTexts ==
  {before \o block \o after : block \in CodeBlocks, before, after \in TextEnds}
DeliveredTexts == ShortTexts \union CutTexts

chatVars == <<menuVars, replyVars>>

BackgroundInit ==
  /\ part \in {"subagents", "commands", "menu", "answer"}
  /\ Init /\ JobsInit /\ MenuInit /\ ReplyInit
  /\ part # "answer" => answerText = <<"a">>

BackgroundNext ==
  /\ UNCHANGED part
  /\ \/ part = "subagents" /\ Next /\ UNCHANGED <<jobVars, chatVars>>
     \/ part = "commands" /\ JobsNext /\ UNCHANGED <<vars, chatVars>>
     \/ part = "menu" /\ MenuNext /\ UNCHANGED <<vars, jobVars, replyVars>>
     \/ part = "answer" /\ ReplyNext /\ UNCHANGED <<vars, jobVars, menuVars>>

(* What is fair is disabled at first, so it asks nothing of the other parts. *)
BackgroundSpec ==
  /\ BackgroundInit /\ [][BackgroundNext]_<<part, vars, jobVars, chatVars>>
  /\ Fairness /\ JobsFairness

(* What was started in the background ends, and its end is stored. *)
BackgroundEnds == SubagentEnds /\ EndIsStored

=============================================================================
