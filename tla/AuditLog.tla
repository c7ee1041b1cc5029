------------------------------ MODULE AuditLog ------------------------------
(***************************************************************************)
(* The audit logger (crates/unly-audit/src/audit.rs): callers append events *)
(* to an unbounded channel, one task writes them to the audit_log table,    *)
(* and a flush is a message of the same channel that the task answers.      *)
(* An event is represented by who logged it.                                *)
(***************************************************************************)
EXTENDS Sequences

CONSTANT Sources         (* who logs events                                 *)

VARIABLES
  queue,                 (* the channel                                     *)
  database,              (* "open" or "closed"                              *)
  flushed,               (* the flush was answered                          *)
  lost                   (* history: whose events were never tried to be
                            inserted into an open database                  *)

auditVars == <<queue, database, flushed, lost>>

AuditInit ==
  /\ queue = <<>> /\ database = "open" /\ flushed = FALSE /\ lost = {}

(* Never blocks, and never fails while the task runs. *)
Log(source) ==
  /\ queue' = Append(queue, source)
  /\ UNCHANGED <<database, flushed, lost>>

(* The event "exit" and the flush that waits for it, as main sends them. *)
LogAndFlush(source) ==
  /\ queue' = queue \o <<source, "flush">>
  /\ UNCHANGED <<database, flushed, lost>>

(* The task inserts the oldest event.  An error is printed, not retried. *)
Write ==
  /\ queue # <<>> /\ Head(queue) # "flush"
  /\ queue' = Tail(queue)
  /\ lost' = IF database = "open" THEN lost ELSE lost \union {Head(queue)}
  /\ UNCHANGED <<database, flushed>>

AnswerFlush ==
  /\ queue # <<>> /\ Head(queue) = "flush"
  /\ queue' = Tail(queue)
  /\ flushed' = TRUE
  /\ UNCHANGED <<database, lost>>

CloseDatabase ==
  /\ database' = "closed"
  /\ UNCHANGED <<queue, flushed, lost>>

(* The task ends with the process. *)
LoseQueue ==
  /\ lost' = lost \union {queue[i] : i \in DOMAIN queue}
  /\ queue' = <<>>
  /\ UNCHANGED <<database, flushed>>

Writer == Write \/ AnswerFlush

AuditTypeOK ==
  /\ queue \in Seq(Sources \union {"flush"})
  /\ database \in {"open", "closed"}
  /\ flushed \in BOOLEAN
  /\ lost \subseteq Sources \union {"flush"}

=============================================================================
