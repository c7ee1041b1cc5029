---------------------------- MODULE CopilotToken ----------------------------
(***************************************************************************)
(* The two tokens of the Copilot provider                                   *)
(* (crates/unly-providers/src/copilot.rs).  `unly provider login` runs the  *)
(* device flow of GitHub and saves a GitHub token in a file; the service    *)
(* reads the file once, at its start, and exchanges the GitHub token for a  *)
(* short-lived Copilot token, which it keeps in memory and shares between   *)
(* the calls of all chats.  GitHub itself is external.                      *)
(*                                                                          *)
(* A GitHub token is named by the login it was granted to, so each login    *)
(* runs once.  A Copilot token is a record: left, the ticks until the       *)
(* expiry the provider believes in; ok, whether the API still accepts it.   *)
(***************************************************************************)
EXTENDS Integers

CONSTANTS
  TokenCalls,      (* concurrent calls of the service that need a token    *)
  Logins,          (* runs of the login command, a set of numbers 1..n     *)
  Life, Guess,     (* ticks to the stated expiry; 25 minutes when none is  *)
  Margin,          (* 30 seconds                                           *)
  Expires,         (* expires_in of a device code                          *)
  Interval,        (* max(interval, 5 s)                                   *)
  SlowDown,        (* the extra 5 s                                        *)
  MaxRejections    (* bound: how often the API drops the tokens it issued  *)

ASSUME TokenAssumption ==
  /\ Margin \in Nat /\ Life \in Nat /\ Guess \in Nat
  /\ Margin < Guess /\ Guess <= Life
  /\ Expires \in Nat /\ Interval \in Nat /\ SlowDown \in Nat
  /\ Logins \subseteq Nat \ {0}

VARIABLES
  tokenFile,       (* what the cache file holds                            *)
  filePrivate,     (* its mode is 0600                                     *)
  githubToken,     (* memory of the service: 0 or a GitHub token           *)
  copilotToken,    (* memory of the service: a set of at most one token    *)
  call,            (* each call: where it is and the token it got          *)
  login,           (* each login: where it is, its clock, its sleep        *)
  rejected,        (* GitHub tokens that GitHub no longer accepts          *)
  rejections       (* bounded by MaxRejections                             *)

tokenVars == <<tokenFile, filePrivate, githubToken, copilotToken, call, login,
               rejected, rejections>>

serviceVars == <<githubToken, copilotToken, call>>

Absent == 0        (* no file                                                *)
Torn == -1         (* a file without a whole token                           *)

Idle == [at |-> "idle", got |-> {}]

TokenInit ==
  /\ tokenFile = Absent /\ filePrivate = FALSE
  /\ githubToken = 0 /\ copilotToken = {}
  /\ call = [c \in TokenCalls |-> Idle]
  /\ login = [l \in Logins |-> [at |-> "new", elapsed |-> 0, sleep |-> 0]]
  /\ rejected = {} /\ rejections = 0

-----------------------------------------------------------------------------
(* The login command. *)

LoginRuns(l) == login[l].at \notin {"new", "done", "unsaved", "failed", "killed"}

(* One operator, one terminal: a login begins when the one before it ended. *)
StartDeviceFlow(l) ==
  /\ login[l].at = "new" /\ \A k \in Logins : k < l => login[k].at # "new"
  /\ \A k \in Logins : ~LoginRuns(k)
  /\ \E answer \in {"check", "failed"} : login' = [login EXCEPT ![l].at = answer]
  /\ UNCHANGED <<tokenFile, filePrivate, serviceVars, rejected, rejections>>

(* The time is looked at before the sleep. *)
CheckTime(l) ==
  /\ login[l].at = "check"
  /\ login' = [login EXCEPT ![l] = IF @.elapsed > Expires
                 THEN [@ EXCEPT !.at = "failed"]
                 ELSE [@ EXCEPT !.at = "asleep", !.sleep = Interval]]
  /\ UNCHANGED <<tokenFile, filePrivate, serviceVars, rejected, rejections>>

Poll(l) ==
  /\ login[l].at = "asleep" /\ login[l].sleep = 0
  /\ login' \in
       {[login EXCEPT ![l].at = "check"],                       \* pending
        [login EXCEPT ![l].at = "slowed", ![l].sleep = SlowDown],
        [login EXCEPT ![l].at = "failed"],     \* expired, denied, an error
        [login EXCEPT ![l].at = "authorized"]}
  /\ UNCHANGED <<tokenFile, filePrivate, serviceVars, rejected, rejections>>

SlowedDown(l) ==
  /\ login[l].at = "slowed" /\ login[l].sleep = 0
  /\ login' = [login EXCEPT ![l].at = "check"]
  /\ UNCHANGED <<tokenFile, filePrivate, serviceVars, rejected, rejections>>

(* Each step of save_token may fail: no directory or no file, a full disk, a
   file of another owner.  poll_device_flow drops the error, and the login
   tells its operator that it is authorized, as if all was saved. *)
SaveFails(l) ==
  /\ login' = [login EXCEPT ![l].at = "unsaved"]
  /\ UNCHANGED <<tokenFile, filePrivate>>

(* save_token: write() truncates the file and then writes it, and the mode
   is set afterwards. *)
Truncate(l) ==
  /\ login[l].at = "authorized"
  /\ \/ /\ tokenFile' = Torn
        /\ filePrivate' = (filePrivate /\ tokenFile # Absent)
        /\ login' = [login EXCEPT ![l].at = "truncated"]
     \/ SaveFails(l)
  /\ UNCHANGED <<serviceVars, rejected, rejections>>

(* Mutant: the mode is left as the file was made. *)
Fill_NoMode(l) ==
  /\ login[l].at = "truncated"
  /\ \/ /\ tokenFile' = l /\ UNCHANGED filePrivate
        /\ login' = [login EXCEPT ![l].at = "done"]
     \/ SaveFails(l)
  /\ UNCHANGED <<serviceVars, rejected, rejections>>

Fill(l) ==
  /\ login[l].at = "truncated"
  /\ \/ /\ tokenFile' = l /\ UNCHANGED filePrivate
        /\ login' = [login EXCEPT ![l].at = "written"]
     \/ SaveFails(l)
  /\ UNCHANGED <<serviceVars, rejected, rejections>>

SetMode(l) ==
  /\ login[l].at = "written"
  /\ \/ /\ filePrivate' = TRUE /\ UNCHANGED tokenFile
        /\ login' = [login EXCEPT ![l].at = "done"]
     \/ SaveFails(l)
  /\ UNCHANGED <<serviceVars, rejected, rejections>>

Killed(l) ==
  /\ LoginRuns(l)
  /\ login' = [login EXCEPT ![l].at = "killed"]
  /\ UNCHANGED <<tokenFile, filePrivate, serviceVars, rejected, rejections>>

-----------------------------------------------------------------------------
(* The service. *)

(* A token whose text cannot be parsed counts as none. *)
LoadCachedToken == IF tokenFile \in Logins THEN tokenFile ELSE 0

(* build_providers: a new process with empty memory. *)
StartService ==
  /\ githubToken' = LoadCachedToken
  /\ copilotToken' = {}
  /\ call' = [c \in TokenCalls |-> Idle]
  /\ UNCHANGED <<tokenFile, filePrivate, login, rejected, rejections>>

Fresh == {t \in copilotToken : t.left > Margin}

(* get_copilot_token up to its request: the lock is released before it. *)
GetToken(c) ==
  /\ call[c].at = "idle"
  /\ call' = [call EXCEPT ![c] =
       IF Fresh # {} THEN [at |-> "send", got |-> Fresh]
       ELSE [at |-> IF githubToken = 0 THEN "failed" ELSE "fetch", got |-> {}]]
  /\ UNCHANGED <<tokenFile, filePrivate, githubToken, copilotToken, login, rejected, rejections>>

(* GitHub answers: a token, with or without an expiry, a 401 when it does not
   accept the GitHub token, or another failure. *)
FetchAnswered(c) ==
  /\ call[c].at = "fetch"
  /\ call' \in {[call EXCEPT ![c].at = "failed"]} \union
       {[call EXCEPT ![c] = [at |-> "answered", got |-> {[left |-> n, ok |-> TRUE]}]] :
          n \in IF githubToken \in rejected THEN {} ELSE {Life, Guess}}
  /\ UNCHANGED <<tokenFile, filePrivate, githubToken, copilotToken, login, rejected, rejections>>

(* The rest of get_copilot_token: whatever other calls stored meanwhile is
   replaced. *)
StoreToken(c) ==
  /\ call[c].at = "answered"
  /\ copilotToken' = call[c].got
  /\ call' = [call EXCEPT ![c].at = "send"]
  /\ UNCHANGED <<tokenFile, filePrivate, githubToken, login, rejected, rejections>>

(* chat, chat_stream, embeddings: a 401 does not clear the cached token. *)
SendRequest(c) ==
  /\ call[c].at = "send"
  /\ \E answer \in {"answer", "failed"} :
       /\ answer = "answer" => \A t \in call[c].got : t.ok /\ t.left > 0
       /\ call' = [call EXCEPT ![c].at = answer]
  /\ UNCHANGED <<tokenFile, filePrivate, githubToken, copilotToken, login, rejected, rejections>>

CallReturns(c) ==
  /\ call[c].at \in {"answer", "failed"}
  /\ call' = [call EXCEPT ![c] = Idle]
  /\ UNCHANGED <<tokenFile, filePrivate, githubToken, copilotToken, login, rejected, rejections>>

-----------------------------------------------------------------------------
(* GitHub and time. *)

Dropped(tokens) == {[t EXCEPT !.ok = FALSE] : t \in tokens}

RejectIssuedTokens ==
  /\ rejections < MaxRejections
  /\ rejections' = rejections + 1
  /\ copilotToken' = Dropped(copilotToken)
  /\ call' = [c \in TokenCalls |-> [call[c] EXCEPT !.got = Dropped(@)]]
  /\ UNCHANGED <<tokenFile, filePrivate, githubToken, login, rejected>>

RejectGithubToken(l) ==
  /\ login[l].at \in {"done", "unsaved", "killed"} /\ l \notin rejected
  /\ rejected' = rejected \union {l}
  /\ UNCHANGED <<tokenFile, filePrivate, serviceVars, login, rejections>>

Less(n) == IF n = 0 THEN 0 ELSE n - 1
Aged(tokens) == {[t EXCEPT !.left = Less(@)] : t \in tokens}

(* elapsed is not counted past the point where it is too late. *)
Tick ==
  /\ copilotToken' = Aged(copilotToken)
  /\ call' = [c \in TokenCalls |-> [call[c] EXCEPT !.got = Aged(@)]]
  /\ login' = [l \in Logins |-> IF ~LoginRuns(l) THEN login[l] ELSE
       [login[l] EXCEPT !.elapsed = IF @ > Expires THEN @ ELSE @ + 1, !.sleep = Less(@)]]
  /\ UNCHANGED <<tokenFile, filePrivate, githubToken, rejected, rejections>>

LoginStep(l) ==
  CheckTime(l) \/ Poll(l) \/ SlowedDown(l) \/ Truncate(l) \/ Fill(l) \/ SetMode(l)

CallStep(c) == FetchAnswered(c) \/ StoreToken(c) \/ SendRequest(c) \/ CallReturns(c)

TokenNext ==
  \/ \E l \in Logins : StartDeviceFlow(l) \/ LoginStep(l) \/ Killed(l) \/ RejectGithubToken(l)
  \/ \E c \in TokenCalls : GetToken(c) \/ CallStep(c)
  \/ StartService \/ RejectIssuedTokens \/ Tick

-----------------------------------------------------------------------------
(* Properties. *)

CopilotTokens == [left : 0..Life, ok : BOOLEAN]

(* What the file and the memory of the service can hold: a token in the
   service is one that a login was granted, and at most one Copilot token is
   cached (copilot.rs:53-60). *)
TokenTypeOK ==
  /\ tokenFile \in Logins \union {Absent, Torn}
  /\ filePrivate \in BOOLEAN
  /\ githubToken \in Logins \union {0}
  /\ copilotToken \subseteq CopilotTokens /\ \A s, t \in copilotToken : s = t
  /\ call \in [TokenCalls -> [at : {"idle", "fetch", "answered", "send", "answer", "failed"},
                              got : {{}} \union {{t} : t \in CopilotTokens}]]
  /\ login \in [Logins -> [at : {"new", "check", "asleep", "slowed", "authorized", "truncated",
                                 "written", "done", "unsaved", "failed", "killed"},
                           elapsed : 0..(Expires + 1),
                           sleep : 0..(Interval + SlowDown)]]

(* A login that may have left the file torn or readable by others: it is in
   the middle of save_token, or it was killed, or one of the steps failed. *)
MayHaveBroken(l) == login[l].at \in {"truncated", "written", "killed", "unsaved"}

(* A token file that is not whole, or not private, is the work of a login in
   the middle of its save, killed, or whose save failed; and the next login
   that saves its token sets the file right, whatever state the one before it
   left it in (copilot.rs:95-111).  Otherwise the file is absent, or holds a
   whole token with mode 0600.  Relates the file to the history of every
   login; those with greater numbers came later. *)
TokenFileSettles ==
  \/ tokenFile = Absent
  \/ tokenFile # Torn /\ filePrivate
  \/ \E l \in Logins : MayHaveBroken(l) /\ \A k \in Logins : k > l => login[k].at # "done"

(* The tokens in the file and in the service, whatever logins are killed or
   fail to save. *)
TokenInv == TokenTypeOK /\ TokenFileSettles

(* A Copilot token that the API dropped before its time is not cleared by the
   401 it causes, but it is not used for ever: as time passes and chats ask,
   the service holds another one, unless GitHub refuses it one or fails it
   (copilot.rs:203-272, 423). *)
DroppedTokenIsReplaced ==
  (\E t \in copilotToken : ~t.ok) ~>
    \/ \A t \in copilotToken : t.ok
    \/ \E c \in TokenCalls : call[c].at = "failed" /\ call[c].got = {}

(* The login command ends whatever GitHub answers: it does not poll for ever
   (commands.rs:377). *)
LoginEnds == \A l \in Logins : LoginRuns(l) ~> ~LoginRuns(l)

=============================================================================
