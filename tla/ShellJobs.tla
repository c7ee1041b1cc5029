----------------------------- MODULE ShellJobs -----------------------------
(***************************************************************************)
(* The tools shell and bash (crates/unly-tools/src/builtin/shell.rs): a     *)
(* command is run and awaited, or started in the background, where a task   *)
(* awaits it and keeps its result in the table BASH_JOBS, which the mode    *)
(* status reads.  A command is a process of its own: it survives the call   *)
(* that awaits it, and the service.                                         *)
(*                                                                          *)
(* A command is a pipeline.  It ends "ok", or with a stage before the last  *)
(* one failed ("early"), with the last one failed ("last"), or by a signal. *)
(***************************************************************************)
EXTENDS Naturals

CONSTANTS
  Commands,        (* calls with a command; the id of a started job        *)
  MaxStops         (* bound: how often the service ends                    *)

VARIABLES
  job,             (* BASH_JOBS: [status, code], "none" when not in it     *)
  task,            (* the task or call that awaits the command             *)
  process,         (* its process                                          *)
  tool,            (* the tool it was given to, and the mode               *)
  answer,          (* history: what the last answer about it said          *)
  stops            (* bounded by MaxStops                                  *)

jobVars == <<job, task, process, tool, answer, stops>>

NoJob == [status |-> "none", code |-> "none"]
RunningJob == [status |-> "running", code |-> "none"]

JobsInit ==
  /\ job = [c \in Commands |-> NoJob]
  /\ task = [c \in Commands |-> "none"]
  /\ process = [c \in Commands |-> "none"]
  /\ tool = [c \in Commands |-> [name |-> "none", mode |-> "none"]]
  /\ answer = [c \in Commands |-> NoJob]
  /\ stops = 0

Answers(c, what) == answer' = [answer EXCEPT ![c] = what]

-----------------------------------------------------------------------------
(* Calls. *)

(* Neither in the allowlist nor approved: nothing is started. *)
NotAllowed(c, name, mode) ==
  /\ tool[c].name = "none"
  /\ tool' = [tool EXCEPT ![c] = [name |-> name, mode |-> mode]]
  /\ Answers(c, [status |-> "refused", code |-> "none"])
  /\ UNCHANGED <<job, task, process, stops>>

(* Mutant: the task makes the entry when it has the result, and not before. *)
StartInBackground_NoEntry(c, name) ==
  /\ tool[c].name = "none"
  /\ tool' = [tool EXCEPT ![c] = [name |-> name, mode |-> "start"]]
  /\ task' = [task EXCEPT ![c] = "spawned"]
  /\ UNCHANGED <<job, process, answer, stops>>

(* Mode start: the entry is made before the task. *)
StartInBackground(c, name) ==
  /\ tool[c].name = "none"
  /\ tool' = [tool EXCEPT ![c] = [name |-> name, mode |-> "start"]]
  /\ job' = [job EXCEPT ![c] = RunningJob]
  /\ task' = [task EXCEPT ![c] = "spawned"]
  /\ UNCHANGED <<process, answer, stops>>

(* Mode run. *)
RunCommand(c, name) ==
  /\ tool[c].name = "none"
  /\ tool' = [tool EXCEPT ![c] = [name |-> name, mode |-> "run"]]
  /\ task' = [task EXCEPT ![c] = "spawned"]
  /\ UNCHANGED <<job, process, answer, stops>>

(* Mode status: a job that is not in the table is "not found". *)
AskStatus(c) ==
  /\ tool[c].mode = "start" /\ answer[c].status # "refused"
  /\ Answers(c, IF job[c] = NoJob THEN [status |-> "not found", code |-> "none"] ELSE job[c])
  /\ UNCHANGED <<job, task, process, tool, stops>>

(* Mutant: the task of a started job ends with the agent that started it. *)
CallDropped_AnyMode(c) ==
  /\ task[c] # "none"
  /\ task' = [task EXCEPT ![c] = "none"]
  /\ UNCHANGED <<job, process, tool, answer, stops>>

(* The registry's time limit or an abort drops a call in mode run, but not
   the process, and not the task of a started job. *)
CallDropped(c) ==
  /\ tool[c].mode = "run" /\ task[c] # "none"
  /\ task' = [task EXCEPT ![c] = "none"]
  /\ UNCHANGED <<job, process, tool, answer, stops>>

-----------------------------------------------------------------------------
(* The command. *)

(* bash sets pipefail, shell does not. *)
Succeeded(name, end) == end \in IF name = "shell" THEN {"ok", "early"} ELSE {"ok"}

(* There is no exit code after a signal. *)
ResultOf(c) ==
  [status |-> IF Succeeded(tool[c].name, process[c]) THEN "completed" ELSE "failed",
   code |-> CASE process[c] = "signal" -> "none"
              [] Succeeded(tool[c].name, process[c]) -> "zero"
              [] OTHER -> "other"]

Report(c, result) ==
  /\ task' = [task EXCEPT ![c] = "none"]
  /\ IF tool[c].mode = "start"
     THEN job' = [job EXCEPT ![c] = IF @ = NoJob THEN @ ELSE result] /\ UNCHANGED answer
     ELSE Answers(c, result) /\ UNCHANGED job
  /\ UNCHANGED <<tool, stops>>

(* output() starts the process, or fails. *)
Spawn(c) ==
  /\ task[c] = "spawned"
  /\ \/ /\ task' = [task EXCEPT ![c] = "awaiting"]
        /\ process' = [process EXCEPT ![c] = "running"]
        /\ UNCHANGED <<job, tool, answer, stops>>
     \/ Report(c, [status |-> "failed", code |-> "other"]) /\ UNCHANGED process

ProcessEnds(c) ==
  /\ process[c] = "running"
  /\ \E end \in {"ok", "early", "last", "signal"} : process' = [process EXCEPT ![c] = end]
  /\ UNCHANGED <<job, task, tool, answer, stops>>

Collect(c) ==
  /\ task[c] = "awaiting" /\ process[c] # "running"
  /\ Report(c, ResultOf(c))
  /\ UNCHANGED process

(* The service ends and starts again: table and tasks are gone. *)
ServiceStops ==
  /\ stops < MaxStops /\ stops' = stops + 1
  /\ job' = [c \in Commands |-> NoJob]
  /\ task' = [c \in Commands |-> "none"]
  /\ UNCHANGED <<process, tool, answer>>

JobStep(c) == Spawn(c) \/ Collect(c)

JobsNext ==
  \/ \E c \in Commands, name \in {"shell", "bash"} :
       \/ StartInBackground(c, name) \/ RunCommand(c, name)
       \/ \E mode \in {"run", "start"} : NotAllowed(c, name, mode)
  \/ \E c \in Commands : AskStatus(c) \/ CallDropped(c) \/ JobStep(c) \/ ProcessEnds(c)
  \/ ServiceStops

(* A job's task is polled; that the command itself ends is not asked. *)
JobsFairness == \A c \in Commands : WF_jobVars(JobStep(c))

-----------------------------------------------------------------------------
(* Properties. *)

Ended(c) == process[c] \in {"ok", "early", "last", "signal"}

(* What was answered about a command, directly or by mode status, is true of
   its process, of this service or of one before it: "completed" only after
   every stage that the tool looks at succeeded, "failed" never about one that
   succeeded or still runs, an exit code only if there is one, and nothing
   but a refusal about a command that was not allowed (shell.rs:149-171,
   302-327, 449-474). *)
AnswersAreTrue ==
  \A c \in Commands :
    /\ answer[c].status = "completed" =>
         Ended(c) /\ process[c] # "signal" /\ (process[c] = "ok" \/ tool[c].name = "shell")
    /\ answer[c].status = "failed" =>
         \/ process[c] = "none"
         \/ Ended(c) /\ process[c] # "ok" /\ ~(process[c] = "early" /\ tool[c].name = "shell")
    /\ answer[c].code # "none" => process[c] \notin {"running", "signal"}
    /\ answer[c].status = "refused" => process[c] = "none"

(* A job that was started is known as long as the service runs, and what is
   said of its end is said again: a status never goes back to "running", and
   never changes from one end to another (shell.rs:268-328). *)
EndsAreFinal ==
  /\ stops = 0 => \A c \in Commands : answer[c].status # "not found"
  /\ \A c \in Commands : answer[c].status \in {"completed", "failed"} /\ tool[c].mode = "start"
       => job[c] \in {answer[c], NoJob} /\ (job[c] = NoJob => stops > 0)

(* What is said of a command, at any time, is true and stays said. *)
JobsInv == AnswersAreTrue /\ EndsAreFinal

(* The end of a command reaches the table, or the service ended first: the
   task is not tied to the call, the turn or the agent that started it
   (shell.rs:291). *)
EndIsStored ==
  \A c \in Commands :
    tool[c].mode = "start" /\ Ended(c) ~> job[c].status # "running"

=============================================================================
