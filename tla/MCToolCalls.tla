---------------------------- MODULE MCToolCalls ----------------------------
(* What concurrent turns wait for, one thing at a time: the permits of the tool
   calls and the audit log, the tokens of the provider, the stream of its reply.
   part says which of them a behaviour is about; the state of the others stays
   as it is at first.  They share no variable.  Of the tokens there are two
   parts: the calls that share one, with a single login, and two logins one
   after the other, with the starts of the service but no calls. *)
EXTENDS ToolCalls, CopilotToken, ModelStream

CONSTANTS h1, h2, t1, n1, n2

DataLine(delta) == <<"data:">> \o delta \o <<"nl">>
StreamBodies ==
  {DataLine(<<"a">>) \o DataLine(<<"e1", "e2">>) \o <<"DONE", "nl">>,
   <<"skip", "nl">> \o DataLine(<<"e1", "e2", "b">>) \o <<"nl">> \o DataLine(<<"a">>),
   <<"DONE", "nl">>, DataLine(<<"a", "b">>) \o <<"data:", "e1", "e2">>, <<"skip", "nl">>}

ToolCall == [id : BOOLEAN, name : BOOLEAN]
WholeReplies ==
  [choice : BOOLEAN,
   calls : {<<>>} \union {<<c>> : c \in ToolCall} \union {<<c, d>> : c \in ToolCall, d \in ToolCall}]

AllSources == {"handler", "task", "main"}

VARIABLE part

callVars == <<part, vars, tokenVars, streamVars>>

CallsInit ==
  /\ part \in {"calls", "token", "logins", "stream"}
  /\ Init /\ TokenInit /\ StreamInit

TokenPart ==
  \/ part = "token" /\ \A l \in Logins \ {1} : login'[l].at = "new"
  \/ part = "logins" /\ UNCHANGED call

CallsNext ==
  /\ UNCHANGED part
  /\ \/ part = "calls" /\ Next /\ UNCHANGED <<tokenVars, streamVars>>
     \/ TokenNext /\ TokenPart /\ UNCHANGED <<vars, streamVars>>
     \/ part = "stream" /\ StreamNext /\ UNCHANGED <<vars, tokenVars>>

TokenStep(A) == A /\ TokenPart /\ UNCHANGED <<part, vars, streamVars>>

(* Time passes, the login command goes on, calls ask for a token and are
   answered: asked of the behaviours about the tokens only. *)
TokenFairness ==
  /\ WF_callVars(TokenStep(Tick))
  /\ \A l \in Logins : WF_callVars(TokenStep(LoginStep(l)))
  /\ \A c \in TokenCalls : WF_callVars(TokenStep(CallStep(c))) /\ WF_callVars(TokenStep(GetToken(c)))

(* What is fair of the calls and of the stream is disabled at first. *)
CallsSpec ==
  CallsInit /\ [][CallsNext]_callVars /\ Fairness /\ TokenFairness /\ StreamFairness

(* Whoever waits gets on: a call for its permit, a chat for a token that the
   API takes, the operator for the end of a login, a turn for its reply. *)
WaitsEnd == CallsEnd /\ DroppedTokenIsReplaced /\ LoginEnds /\ ReadingEnds

=============================================================================
