# Unly: a verification project

Unly is a Telegram front end for a language-model agent: a bot keeps a
conversation per chat, a runtime asks a model provider and runs the tool calls
the model makes, calls that need it wait for the user's approval, subagents and
scheduled jobs run turns of their own in the background, and an audit log
records what happened. This directory holds TLA+ models of that program, TLC
configurations that check them on small instances, and TLAPS proofs that hold
for every value of the constants.

Paths below are relative to `crates/` unless they start elsewhere. "bot" is
`unly-telegram/src/bot.rs`, "runtime" `unly-agent/src/runtime.rs`, "subagent"
`unly-agent/src/subagent.rs`, "scheduler" `unly-scheduler/src/scheduler.rs`,
"orchestration" `unly-tools/src/builtin/orchestration.rs`.

## 1. Inventory

| Component | State it keeps | Operations | Depends on, is used by |
|---|---|---|---|
| Chat sessions (bot, `session.rs`) | session per chat (context, model, pending approvals), global approval mode, pending subagents, "skip the history once" marks | text messages, slash commands, buttons, approvals, the background save of each turn, restoring a conversation from the database | calls the runtime in a task of its own, receives its events on a channel; called by the Telegram dispatcher, one update of a chat at a time |
| Agent runtime (runtime, `context.rs`) | context: messages, turn count, pending approvals, queued files; loop counters of a turn | `process`, `process_stream_input`, `process_approved`, the tool loop, trimming, prompt compression, retries | calls the provider and the tool registry; called by chats, subagents, jobs |
| Subagents (subagent) | semaphore, process-wide map of task handles, one row per subagent | spawn, run, stop, list, logs; the poller that notifies the chat | runs turns of the runtime; called by the user and by the `spawn_subagent` tool |
| Scheduler (scheduler, `job.rs`, `repo/job.rs`) | table of jobs behind a read/write lock, last dispatch per job, rows | tick, dispatch, job run, restore at start | its jobs run turns of the runtime, which may call `cron_job` on the same table |
| Tool registry (`registry.rs`, `policy.rs`) | tools, a semaphore | execute under a permit and a time limit | every turn; the tool `cron_job` with `run_now` runs a turn inside a call |
| Audit log (`audit.rs`) | unbounded channel, writer task | log, flush | registry, runtime, commands |
| Start and shutdown (`unly-cli/src/commands.rs`) | the process | start the parts, Ctrl-C, drain, flush, close | everything |
| Shell tools (`builtin/shell.rs`) | table of background commands | run, start in background, ask for the status | called through the registry; its tasks outlive calls and turns |
| File tools (`builtin/fs.rs`) | the files of the host | read, list, stat, grep, write, copy, move, mkdir, delete | called through the registry by turns that run at the same time |
| Skill tools, skills and plugins (`builtin/skills.rs`, `unly-plugins`) | directories with a text and a marker "disabled" | install, create, enable, disable, remove; load at the start and again before every turn | tools of the agent and the command line change what turns load |
| Other tools (git, http, telegram) | none | I/O, queue a file | registry |
| Providers (`copilot.rs`, `openai_compat.rs`) | token file, token in memory with its expiry | device login, exchange, chat, stream, list of models | runtime, setup wizard |
| Memory (`memory.rs`, runtime) | entries per scope, files of the workspace | store a turn, search, rank, cut | runtime |
| Workspace (`workspace.rs`) | `BOOT.md`, its marker, MEMORY.md, IDENTITY.md, SOUL.md | note, finish the first boot | handlers of all chats |
| Installation (`update.rs`, `unly-cli/src/commands.rs`) | executable, temporary file, unit of the service | update, service commands, removal | the operator |
| Telegram presentation (bot) | none | split, convert to HTML, send, send again as plain text | chats |
| Database layer | rows | connection, schema, repositories | all with rows above |
| Configuration, core types, access list, example plugin | - | read once, data types | - |

`PROJECT.json` lists each with its sources and status.

What is hard in this code:

- **Two writers of one session.** The handler of a message and the background
  task of the turn it started both store a context, the task long after the
  handler may have returned, and commands store in between (bot 998, 1045,
  1094). What makes it correct: approvals run once and only when they were
  asked about; a turn sees what happened since the last reset and nothing else, as
  far as the limits on messages and a restart allow.
- **Partial batches and budgets.** A batch of tool calls may be run in part,
  asked about in part, and cut by a budget; retries, compression rounds and
  tool rounds share counters (runtime 480-630). Correct: each call once, none
  unapproved, the loop ends.
- **Tasks and rows.** A subagent is a task, an entry in a map and a row, which
  are written in different orders by the task, a stop, a timeout of the
  requesting call and a restart. Correct: permits come back, no task gets out of
  reach of a stop, results are final, a stop is a stop.
- **Windows of ticks and a lock held across an await.** The scheduler keeps the
  table's read lock while it waits for a permit (scheduler 190). Correct: a
  tick ends unless its own jobs do not; a time is dispatched once; a disabled job stays off.
- **Nested calls under one semaphore.** A `run_now` call keeps its permit
  while the turn it awaits needs permits. Correct: permits are conserved,
  nothing waits for ever, and nothing outlives the call that awaits it.
- **Files that several processes rewrite.** The workspace, the directories of the
  extensions, the files of the tools, the token file and the executable are
  looked at, emptied, filled and renamed in separate steps, without a lock, by
  handlers, turns, commands and updates at once; each step may fail or be the
  last. Correct: nothing is lost that nobody was asked to give up, what was
  reported is so, and what is read is whole.
- **Text cut at any place.** A stream arrives in chunks that end anywhere, an
  answer leaves in chunks that may end within a construct of Markdown.
  Correct: all of the text and nothing else.
- **Shutdown.** Handlers, background tasks and the main task log events while
  the flush travels through the same channel.

The list, line by line, is under `hazards` in `PROJECT.json`, each with the
properties that would catch it. Hazards that no property covers: approved calls
take another path for their results (runtime 755); `trim_to` may leave a tool
message without the message that asked for it (`context.rs:157`); `max_turns`
refuses every message until a reset (runtime 432); the poller of a subagent gives
up after 360 s, while the subagent may work for 600 s, and never reports a
cancelled one (bot 2902); a `try_read` that fails passes a job over (scheduler
165); a disabled job is not in the table after a restart (orchestration 491);
`bash` has no time limit (`registry.rs:120`). They are in the models where their
module has the line, and their properties would restate the line.

## 2. Modules

| Module | Models | Its processes and state |
|---|---|---|
| `ChatSession` | session store, handlers, background saves | one handler per chat (`hpc`), one task per turn (`tpc`) |
| `ChatSessionProofs` | theorems of `ChatSession` | |
| `AgentTurn` | the loop of the runtime over one context | one program counter (`pc`) |
| `TurnOutcome` | what a turn promises its callers: the abstract specification of `AgentTurn` | five variables |
| `AgentTurnProofs` | theorems of `AgentTurn`, the refinement of `TurnOutcome` | |
| `Subagents` | the subagent manager, its callers and rows | request (`spc`), task (`tpc`), statement under way (`write`), map (`tracked`) |
| `BackgroundProofs` | theorems of `Subagents` and `ShellJobs` | |
| `Scheduler` | ticks, table, rows, `cron_job`, job runs, restarts | loop, runs, calls |
| `SchedulerProofs` | theorems of `Scheduler` | |
| `AuditLog` | the audit channel and its writer | a component used by `ToolCalls` |
| `ToolCalls` | the registry's permits and limits, nested turns, shutdown; composes `AuditLog` | one record per turn, the queue of the semaphore |
| `ToolCallsProofs` | theorems of `ToolCalls` with `AuditLog` | |
| `BootMode` | the first boot: notes, its end over four files, two chats | a handler per chat (`bootHandler`), the files |
| `FileTools` | the nine file tools, call by call and step by step | `entry`, `text`, one record per call |
| `Installation` | `unly update`, the commands about the service, the removal | one record per update, the operator's command |
| `WorkspaceProofs` | theorems of `BootMode` and `Installation` | |
| `Extensions` | directories of skills and plugins, their tools, the loads of turns | one record per actor, `load` |
| `BuiltinToolsProofs` | theorems of `Extensions` and `FileTools` | |
| `Ordering` | what a sort and a sum give | |
| `Memory` | storing a turn, searching, what a turn is shown | a turn per chat, `rows` |
| `CopilotToken` | login, token file, token in the service, its renewal | one record per login and per call |
| `ModelStream` | the reading of a whole reply and of a stream | `wire`, `buf`, the two accumulators |
| `ModelMenu` | the lists of models and the choice of the wizard | four steps |
| `ShellJobs` | commands of `shell` and `bash`, the table of background ones | job, task and process of each command |
| `ReplyText` | splitting, conversion and sending of an answer | the chunk under way |
| `RequestProofs` | theorems of `CopilotToken`, `ModelStream`, `ModelMenu`, `Memory` and `ReplyText` | |
| `MC*` | instance values for TLC; `MCWorkspace`, `MCTurnCalls`, `MCBackground`, `MCToolCalls` put components side by side (section 3) | `part` |

Definitions keep the source's names where they can. A definition whose name
ends in an underscore and a word (`Reset_NoSkip`) is a mutant: the definition
as a plausible bug would have it. It stands just above the definition it
mutates, is used by no specification, and exists to show that the property
named with it in `PROJECT.json` notices that bug.

### ChatSession

A context is the set of turns it holds, the turns whose tool calls have no
answer yet (`open`), the turns whose calls wait for approval (`pend`), and the
model. This is enough to tell a stale context from a fresh one and to say which
calls an approval runs; message texts are not kept. A chat's handler is one
process because the dispatcher handles updates of a chat in order. Its steps are
the awaits of `handle_message`: `RequestSubagent`/`TypingFails`/`BeginTurn`, the
`Receive*` actions (one per kind of event on the channel, and the closed
channel), `RunApproved`, `StoreApproved`. The background task of a turn answers,
asks or fails, and then stores its own clone (`TaskStores`) at any later time.
Commands and buttons (`Reset`, `SetModel`, `ApprovalMode`, `Approve`, `Deny`,
`ApproveSubagent`, `DenySubagent`) are atomic: each takes the lock of the store
once. `Restart` drops everything but the database, the mark of a reset too; the
next message restores what the database has (`Histories`, `Restored`). Lists of
messages are cut in three places: to the window before a request, in the compressed
prompt, and to 40 rows when they are read. `Remains` is what such a cut may leave of
the turns: a turn has few messages or many, so any number of the oldest turns may
go, as long as there are `Held` later ones.

`ledger` is history: which prompts were shown (`seen`) or could not be sent
(`unshown`), which calls ran, which were denied, what the conversation is since the
last reset (`since`), and of it what a restart or a failed query lost (`lost`) or
brought back from before (`back`). No guard reads it.

### AgentTurn and TurnOutcome

`messages` is the actual list, with a role, the calls made or answered, and
whether the text is longer than all caps of the compression, for trimming and
compression work on positions and lengths. The loop counters are the program's
(`loopCount`, `retries`, `forced`, `round`). A response of the provider is any
batch of calls up to `MaxBatch` of the given kinds: `send` queues a file,
`privileged` is a call the policy asks about. Approval modes are the three
values of the override (automatic, manual, none) and a subagent's permission.
`OutcomeSpec` says that `AgentTurn` implements `TurnOutcome` under the mapping
of `pc` to a phase: one outcome per turn, each call at most once, and calls
that were asked about only after `Approve`.

### Subagents

Each statement to the database is a step of its own, so that a stop, a timeout
or a crash falls between a task's decision and its write. `write` is the
statement a task has sent; when the task is aborted the statement may still be
carried out (`StrayWrite`). `spawn_background` is `Request`, `InsertRow`,
`StartTask`, `TrackTask`; `AbandonRequest` is the time limit of the tool call
that made it. The task is `Acquire`, `MarkRunning`, `WorkEnds`, `WriteEnd`,
`Leave`; `stop_subagent` is `StopAbort`, then `StopWrite`. `Holders` is the set
of tasks that hold a permit.

### Scheduler

Time is discrete. The period is two units and the margin of the window one, so
the windows of two ticks overlap as in the code, where they are 61 s every 60 s. A
tick is `Loop`: it wakes (late if it must), takes the read lock, goes through
the jobs in any order and waits for a permit per due job. Calls of `cron_job`
write the row and the table in the order of the code, taking the write lock in
between, and end early when the tool's time limit strikes. A job's agent may
make such calls, which is the way to the lock inversion of scheduler 190. A
restart restores the enabled rows.

### ToolCalls and AuditLog

A turn is of a handler, of a background task or of a `run_now` call; `above` is
the set of turns whose calls await it. `waiting` and `free` are the semaphore.
`TimesOut` drops a call and with it every turn below it, wherever those
are: in the queue, in a call, or between calls. `bash` and `shell` are
distinguished by the time limit: `bash` is exempt from the registry's. The main
task goes from serving through draining (it waits for the handlers), flushing
and closing to its end; background tasks are aborted by then.

### BootMode

A note is a chat and the number of its message, a summary the set of the notes
it was made from: enough to say whether an answer of a user is still somewhere.
The handler's steps are the awaits of bot 791-834 and of `finalize_boot`: the
model classifies (or fails, which counts as no), the transcript is read, the
summary is made with the model or from the first 20 lines, appended to
MEMORY.md, and written into the two prompt files, each read, emptied and filled.
Either reading of BOOT.md may fail; one that fails in the summary made without the
model leaves a summary of nothing, and the finish goes on to remove the file.
`wizard` is `unly setup` run again beside the bot: over a configuration it asks,
removes the whole workspace (`SetupRemoves`; of a removal that fails half way any
part may be left), and after its questions looks which files are missing and writes
those. Looking and writing are each taken in one step, and only the files of the
first boot are followed; a MEMORY.md without a summary counts as missing, for what
the wizard writes there is the same.
`late`, `erased`, `overlapped` and `broken` are history and name the ways in which
the code does lose something.

### Extensions

An operation looks at the directory and then works in steps of the file system, the
marker of enabling and disabling too (`AlreadySo` or `ToBeMarked`, then `SetMarker`);
`BreaksOff` is an error or the end of the process in any of them. A turn loads
each directory in two steps (text, then marker). `told` is what the operations
on a directory reported last, "mixed" as soon as two overlapped.

### FileTools

A tree of two names and one below each is the least in which a directory can be
copied over, moved into, or deleted while something is put in it. A file is an
inode, so a call goes on writing to what it opened. A text is the number of the
call that wrote it. Copying reads the source after the destination was emptied,
as `std::fs::copy` does. What a text may be lost to is said with the moves of the
others: `Homes(p, D)` are the places between which the moves of the calls in `D`
may have taken what was at `p`, `GivenUp(p, D)` that one of them was asked to
overwrite or delete such a place. `IsSo(c)` is what the report of `c` says.

### CopilotToken, ModelStream, ModelMenu

`CopilotToken` keeps GitHub's token by the number of its login, and a Copilot
token as the ticks to its stated expiry and whether the API still takes it. Each
step of the save may fail; such a login ends `unsaved`, though it told its operator
that it is authorized.
`ModelStream` models the unfold and the loop over it, with bodies as sequences
of symbols that chunks cut anywhere, within a character too; its properties place
each character of text by counting the text before it. `ModelMenu` is the
sequence of filters and sorts of `select_model_from_provider`. The sorts are those
of `Ordering`: `InOrder(S, R)` has at `k` the element that `k - 1` others come
before, and a stable sort arranges the places of a list in that way.

### ShellJobs

A command has an entry in the table, a task that awaits it and a process, and
each can be gone while the others are not. It ends in one of four ways, which
`shell` and `bash` tell apart differently (`pipefail`).

### Memory

The similarity of two texts is a constant operator; rows are kept in the order
in which they were written, so that the stable sorts, the cut to `TopK` and the
duplicates are those of the code (`Ranked`, `Lines`, `AddLine` go through them in
rounds). Embedding, reading and writing may each fail.

### Installation

A file is an inode, so an update that is overtaken goes on writing to a file that
was renamed. `crossed` is history: two updates past their download, or the
program removed under one. sudo may refuse each part of a command; `abandoned` is
history too: the unit was removed although sudo had refused to disable it, and the
service stays enabled without a unit that a later removal would look for.

### ReplyText

A text is a sequence of symbols, one per character; what is sent keeps the
position each character came from, so that the property can say which letters
arrived. Each construct of the converter is an operator of its own that returns
what it makes of the text and where it goes on; `Piece` takes the first that
applies, `TakePiece` is a round of the loop and `Convert` the loop.
`WellFormed` is what Telegram takes as HTML, a stack of open tags, and is external, as
is the length of a message (`TooLong`). The code takes the limit to be on the HTML as
it is sent; Telegram may count what is left without the tags, so the model lets it
take or refuse HTML that is too long as it is sent, and refuses the second attempt,
in which the tags and escapes are text.

## 3. Runs

A *pass* run is finite, complete and without error; a *violation* run shows a
behaviour that a document or a comment of the repository excludes.

Components that do not interact share a run: `part`, chosen in the initial state,
says which of them a behaviour is about, and the state of the others stays as it
is at first. They share no variable, so the graph of such a run is the union of
the graphs of its parts, and each part is checked exactly as it would be alone.
The next-state relation of each part is that of its module. Their properties are
conjunctions of named parts, defined in the module whose code they are about
(`BootInv` of `BootMode`, for instance, is `BootTypeOK`, `NotesAreKept`,
`PromptFilesAgree` and `PreferencesAreRemembered`).

| Run | Properties | Shows |
|---|---|---|
| `session_store` | `TypeOK` `PendingIsOpen` `SubagentHasSession` `NothingRunsUnasked` `ChatsAreIsolated` | two chats, impatient users, failing typing calls, approval prompts and statements, restarts |
| `session_turns` | `TurnsAreSeen` `ModelSticks` `ApprovalsSettleOnce` `HandlerReturns` | one chat, three turns, a user who waits for the background save; fair |
| | `BootInv` | two chats in the first boot, three messages and new setups in all, one fault |
| | `MemoryInv` | two chats of one user, turns over what was said before |
| | `FilesInv` | two calls of any file tools over six trees |
| | `InstallInv` | two updates, three releases, four commands about the service, five releases and commands in all |
| `session_auto_rerun` (violation) | `ApprovalsSettleOnce` | calls approved automatically run a second time |
| `turn_calls` | `TurnInv` `GatedCallsRunApproved` `OnlyOnce` `QuestionKept` | two turns, batches of two, three modes, errors of the provider and its streams |
| | `ExtInv` | a skill and a plugin, a tool call and the command line at work while two turns load them |
| `turn_live` | `OutcomeSpec` `TurnEnds` | one turn, every fault, fair; the refinement and the end of turns |
| `turn_prompt_limit` (violation) | `TurnEnds` | the loop asks for ever after a prompt that is too long |
| `subagents_rows` | `TypeOK` `TasksWithinReach` `NoticeTrue` `FinishedRowsFinal` | two subagents, every fault |
| `subagents_live` | `ChildrenBounded` `StoppedStaysStopped` `ActiveRowsHaveTasks` `BackgroundEnds` | three subagents of a user, one permit; fair |
| | `JobsInv`, `BackgroundEnds` | two commands of either tool and mode, dropped calls, the end of the service; fair |
| | `MenuInv` | every list of up to three ids, every configuration |
| | `ReplyInv` | about 3000 texts of up to three pieces of Markdown, and code blocks with what may stand around them, sent with at most one failed request |
| `subagents_depth` (violation) | `DepthBounded` | nesting is not limited |
| `scheduler_tick` | `FiringInv` `OffStaysOff` `TickEnds` | two jobs, one permit, calls of `cron_job`, faults, a restart; fair |
| `scheduler_overlap` (violation) | `ConcurrentJobsBounded` | the limit on jobs does not hold across ticks |
| `tools_calls` | `CallsInv` `InnerTurnsAwaited` `AuditComplete` `WaitsEnd` | nested calls, limits, aborts, shutdown; fair |
| | `TokenInv`, `WaitsEnd` | a login that may be killed or fail to save, and two calls that share a token the API may drop; or two such logins one after the other and starts of the service; fair |
| | `StreamInv`, `WaitsEnd` | five bodies, cut anywhere, replies with up to two calls; fair |

`TurnInv` is `TypeOK`, `ToolBudget` and `RequestBudget`; `OnlyOnce` is
`CallsRunOnce` and `MediaSentOnce`; `TurnsAreSeen` is `NoLostTurn` and
`NoForgottenTurn`; `FiringInv` is `TypeOK`, `FiredOnce` and `NoCatchUp`;
`CallsInv` is `TypeOK` and `PermitsConserved`. The liveness properties of two
parts are conjoined in the MC module: `BackgroundEnds` (`SubagentEnds`,
`EndIsStored`), `WaitsEnd` (`CallsEnd`, `DroppedTokenIsReplaced`, `LoginEnds`,
`ReadingEnds`).

### Bounds, and why they are enough

- `session_store`: two chats, because the approval mode is global and isolation
  needs two; two turns, because a stale save needs one turn to be stale and one
  to be undone. `session_turns`: three turns in one chat reach a reset, model
  change or approval between two turns and a turn after both; two models. `Held` is
  1, so that every list may have lost all but its last turn.
- First boot: two chats with three messages (or setups) between them reach a note during a finish, two
  finishes at once and a finish after a failed one; `MaxLines` is 1, so that the
  summary without the model leaves a note out.
- Files: two calls are a writer and whoever it meets; the six trees hold files,
  empty files and directories at both levels. Installation: two updates and
  three releases reach an update that overtakes one; four commands an install, an
  `enable`, a removal that is refused in part and one after it. `MaxChanges` bounds
  releases and commands together.
- `turn_calls`: two turns of batches of two calls and three ids reach a batch
  asked about in part, an approval, a denial, a budget that ends within a
  batch, and a second turn over a context that the first left. `MaxCalls` is 2
  and the window 5 messages: two calls and the confirmation fill it, so the question
  is kept to the last place, and lost beyond (`QuestionKept` says where).
  `turn_live`: one turn with a window of 3, so that trimming happens within the
  turn, and with failing tools, whose outcome the properties of `turn_calls` do
  not depend on. `Keep` scales the code's 24, 16, 10 to 4, 3, 2.
- Extensions: three operations and two loads reach create, disable and remove
  around a load, and two actors in one directory. Memory: texts of length 0, 1
  and 3 against limits of 2, 4 and 5 reach every cut; three earlier turns fill
  `TopK`.
- Streams: bodies with a character of two bytes, with and without [DONE] and a
  last line's end. Answers: `ChunkLimit` is 9 and the code blocks have 7 and 12
  characters, so that a chunk ends before, within and behind each of their parts;
  `MessageLimit` is 15, which two escapes before a block exceed.
- `subagents_rows`: two subagents are a parent and a child, or a holder of the
  permit and one that waits. `subagents_live`: three, so that the children's
  limit of 2 bites and two wait behind one permit. Two background commands.
- `scheduler_tick`: the clock runs to 4, two periods; times 2 and 3 of one job
  lie in adjacent, overlapping windows; two calls, one restart, two job runs.
- `tools_calls`: two permits and two inner turns are the least in which
  `run_now` calls hold every permit while the turns they await need one. Seven
  turns and calls in all are the bound `MaxBegun`. A token lives three ticks, or
  two when the answer names no expiry, with a margin of one. Two logins and two calls
  of the service in one behaviour would be some millions of states, so they are taken
  apart (`TokenPart`): calls neither read nor write what logins change, but for the
  token that a start of the service reads.
- Counters that only bound the model (`MaxTurns` of `ChatSession`, `MaxSubs`,
  `MaxOps`, `MaxRuns`, `MaxRestarts`, `MaxTime`, `MaxBegun`, `MaxIds`,
  `MaxBatch`, `MaxMessages`, `MaxFaults`, `MaxVersion`,
  `MaxCommands`, `MaxChanges`, `MaxLoads`, `MaxMemories`, `MaxListed`, `MaxRejections`,
  `MaxStops`, `MaxFailures`) are constants marked "bound" where they are
  declared. The others are settings of the program.

### Assumptions of a run that a reader should know

- `session_turns` has a patient user: one who acts only when no background save
  of the chat is outstanding. With an impatient one, `NoLostTurn`,
  `NoForgottenTurn` and `ModelSticks` fail for the reason in section 5: the
  task stores a clone. `TurnsAreSeen` does not count the turns that the limits may
  have cut away, nor what a restart loses or brings back (section 5).
- `NothingRunsUnasked` counts a prompt as asked when the request to send it was made,
  for the code does not look at its outcome (section 5).
- `QuestionKept` speaks of the requests for which no limit is smaller than what the
  turn itself has appended; section 5 has the shipped numbers.
- `TokenFileSettles` excludes a login that failed to save or was killed, until the next
  one that saves.
- `ActiveRowsHaveTasks` and `StoppedStaysStopped` are checked without restarts,
  database errors and stops before the task is tracked; section 5 names what
  happens with them. `ChildrenBounded` is checked for a user's requests, which
  a chat makes one at a time.
- `OffStaysOff` speaks of calls that no other call on the same job overlaps and
  that reported success.
- `RequestBudget` counts provider requests of one turn; compression rounds
  with texts above the cap are excluded there and shown in `turn_prompt_limit`.
- `PromptFilesAgree` excludes two finishes at once and a finish that broke off in
  a prompt file, `NotesAreKept` notes taken during a finish, those past the 20
  lines, all of them when BOOT.md cannot be read for the summary, and those that a
  setup removed with the workspace. `InstalledIsWhole` and `UpdatedIsInstalled` exclude two updates at once,
  `SaidIsSo` commands that sudo refused and
  what a refused removal left enabled. In each case the code does lose or
  misreport something (section 5); the properties say that nothing else does.
- `SuccessIsTrue` speaks of calls whose paths no other call touches, and excludes
  a copy onto itself. `NextTurnShowsIt` speaks of directories that nobody worked
  on while the turn loaded them.
- `ChunksAreValid` excludes texts with tags of their own, `LettersArrive` the rest
  of a line behind a fence, which may be the name of a language, and `NothingCutOff`
  chunks that as HTML are longer than a message (section 5).

### Fairness and deadlock

Weak fairness stands for: Tokio runs every task that is ready; HTTP requests,
tool calls and subagents have time limits; the database answers. Turns and jobs have
no limit (`bash` is exempt from that of the tools, registry 120, and a turn may
compress without end, runtime 480), so nothing assumes that a background turn or the
callback of a job ends: `HandlerReturns` and `TickEnds` say what follows when it does
not. A request for a
stream has a time limit, so its reading goes on; the login, the calls that need
a token and the clock go on in `CopilotToken`; the task of a background command
is polled, though its command need not end. Strong
fairness on `Acquire` in `Subagents` stands for the semaphore's first come, first
served order, which the model does not keep otherwise; `ToolCalls` keeps the
queue and needs none. Nothing is assumed of users. `CallsEnd` assumes that a
`bash` command ends, for nothing in the code ends it; `shell` is endless in the
run and is ended by the limit. In a run of several parts the fairness of one is
disabled in the behaviours of the others, and asks nothing of them.

Deadlock is checked where the model can always go on. It is not in the
`subagents_*` runs (every subagent of the bound has been used), in
`scheduler_*` (the clock has reached its bound) and in `tools_calls` (the process
has ended). In `session_turns` and `turn_calls` it is checked for the chat and
for the loop of the runtime; the other parts of these two runs may stop, and are
given a step that changes nothing.

## 4. Proofs

TLAPS checks each theorem for every value of the constants that satisfies the
named assumption of its module (`ConstantsOK`, `TurnConstants`,
`SubagentConstants`, `SchedulerConstants`, `ToolCallsConstants`, `BootAssumption`,
`InstallAssumption`, `FilesAssumption`, `TokenAssumption`, `StreamAssumption`,
`MenuAssumption`, `MemoryAssumption`, `ReplyAssumption`; `ShellJobs` and `Extensions`
have none), which TLC evaluates in every run of the module. The
assumptions say that constants have their types, that `None` is none of the values
it is to be told from, and that actors of different kinds are different. Three say
something of the data: a tree at the start hangs together (`FilesAssumption`), in
a body text stands only behind `data:`, up to the end of the line and before `[DONE]`
(`StreamAssumption`), and two spellings of a model's id have one rank and one use
(`MenuAssumption`), because the code computes both from the lower-case id. The
bounds of the runs are among these constants, so that a theorem holds for any
number of chats, turns, jobs, commands or failures, and for answers, streams and
lists of any length.

A theorem that needs more of a constant than that says so in its own ASSUME. Each
such condition excludes a behaviour that the code has and section 5 names. For
`ModelKept`, `ModeKept` and `"limit" \notin Faults` TLC finds
the property violated without it.

Each proof has the same shape: a strengthening of the property that is inductive,
one lemma per group of actions that it is kept, and a temporal step.

What a loop makes of data needs induction, and the theorems of the library about it
take an operator as their parameter, which the provers cannot instantiate. Two of
its facts do not: that `<` on `Nat` is well-founded, and that a well-founded relation
has minimal elements. From them `RequestProofs` has, in this order: a set of numbers
has a first one (`FirstPlace`); a set that holds 0 and the successor of each of its
numbers holds them all (`NatSets`, `UpTo`), which is induction with a set in place of
the predicate; a recursive function over `0..N` exists (`Recursion`). With these come
sums (`TotalIs`), sorts (`InOrderSorts`: `InOrder` has every element once, in the
order) and every loop that a model writes as a recursive function over its rounds.

`ChatSessionProofs`:

- `TypeCorrect`: `Spec => []TypeOK`. One lemma per group of actions.
- `PendingOpen`: every copy of a context lists only pending approvals that are
  open in that same copy. `PendingIsOpen` with `TypeOK` is inductive because it
  already speaks of all three kinds of copies; one about the store alone would
  not be, for `TaskStores` puts a clone there.
- `WaitingSubagentHasSession`: an entry of `pending_subagents` has a session.
- `OnlyAskedCallsRun`: no call that was to be approved runs before its prompt was
  sent or could not be sent. The invariant (`SeenInv`) says where an approval that has
  not been asked about can be:
  only in the one turn the handler is receiving events of (`InFlight`), in its
  task's clone or in what that task has stored. The facts about `hturn` and
  `chan` in it say that no second turn of the chat has such a clone.
- `ChatsStayApart`: `ChatsAreIsolated` needs `Names` (a turn that is named
  anywhere belongs to a chat, and keeps it) and `Owned` (every set of turns
  belongs to one chat, the rows of the database and the history included).
- `TurnsSeeTheConversation` (`PatientUser`, whatever fails) and `TheChosenModelRuns`
  (`PatientUser`, `ModelKept`) come from one invariant, `Patient`. `Flow` says that
  a chat has at most one task that is not over, and `Fresh` which of the copies of
  a context is the true one at each place of the handler and the task: the
  session's when the chat is quiet, the handler's while approved calls run, the
  task's until it has stored.
- `ApprovalsAreSettledOnce` (`PatientUser`, `ModeKept`) adds `Live`: in every copy
  from which an approval can still be taken, what is pending is neither run nor
  denied. `ModeKept` is needed because the mode is global: switching it in one
  chat runs what another chat has just been asked about, the finding of
  `session_auto_rerun`.

`AgentTurnProofs`:

- `TurnsAreTyped`, `TurnsAreBounded`: the tool budget is `Spent` (what ran in the
  turn has counted in `loopCount` first), the request budget `Paid`: a request is
  paid for by a tool call, the one confirmation or the answer, each with two
  retries, and the batch that has just arrived by its first call. Compression
  rounds are paid for by nothing (`turn_prompt_limit`), hence the condition.
- `GatedCallsWait`, `NothingHappensTwice`: `Kept` says that a call is in one
  place (the batch at work, the calls asked about, the calls that wait for the
  user), that what is in none is older than the next id, that the gated calls of
  a batch at work are those the mode denies, and that a file is queued by a call
  that ran.
- `TheQuestionStays`: `Asked` counts the messages behind the question. The loop
  appends two per tool call and for the confirmation, and one more for a response
  that has not been looked at. Both that count and the limits only grow within a turn
  (`RoomBefore`), so where there is room now there was room at every cut before. The
  theorem has no condition on the window: the property says for which requests the
  question is there.
- `TurnsHaveTheirOutcome`: `Spec => OutcomeSpec`, step by step. It rests on `Kept`:
  that a batch at work is runnable in `TurnOutcome` is that its calls are new or
  approved.

`BackgroundProofs`, of `Subagents`:

- `TypeCorrect`: `Spec => []TypeOK`.
- `StepEffects`: what each step does to the row, the request, the task and the
  statement of the one subagent it is about, and that it does nothing to the
  others. The invariants below that speak of every subagent are proved from it.
- `TasksAreWithinReach`: a task that has not come to its end has its handle in the
  map, or its request is about to enter it. The request starts the task before it
  enters the handle, and a stop takes the handle out, so a stop that comes too early
  must leave the entry to come, and one that finds the handle must end the task.
- `ResultsFinal`: `Spec => FinishedRowsFinal`, an action property, with every
  fault of the model. `ResultInv` says that when a row shows a result its task
  has nothing left to write and is leaving, that a task exists only after its
  row, that its first statement is "running", and that only started tasks are
  tracked. Without the third conjunct a late first statement could overwrite a
  result; without the last, a stop could abort a task that never started.
- `NoticesTrue`: what the user was told stays what the row says, from the two
  facts that a notice is read from the row and that results are final.
- `ChildrenLimit` (no failing count, requests of one way): the invariant counts
  the request that has read the count together with the rows, which is why the
  test before the INSERT is enough when a parent makes one request at a time.
- `StopsAreFinal` (no stop before the handle is entered, no statement that
  outlives its task): `StopInv` says that whoever is being stopped is past the
  spawn and has no task, so that nothing is left to write the row.
- `ActiveRowsAreAlive` (users' requests, a database that answers, no restart):
  `ActiveInv` names who will close a row: the request, the task or a stop.

Of `ShellJobs`:

- `AnswersStayTrue`: `JobsInv`. `Tells` says for each command how the entry, the
  task, the process and the last answer go together, with or without the caller.

`SchedulerProofs`:

- `FiringIsRight`: `FiringInv`. `FiringIInv` adds that a tick is at least a period
  behind the start of the process, and that what was dispatched is not behind
  `last`, from which `FiredOnce` follows although the windows overlap.
- `OffIsOff`: `OffStaysOff`. A call that nothing overlapped wrote the row before
  it waited for the lock (`TurningOff`), two calls on one job are marked as
  overlapping (`OverlapsAreMixed`), and nobody is at work on a job recorded as off.

`ToolCallsProofs`:

- `CallsAreRight`: `CallsInv`. That no permit is free while a call waits needs the
  queue (`QueueOK`: who waits is in it once) and what a release gives back;
  `ReleaseKeepsPermits` counts the calls that end together when one above them is
  dropped.
- `NoTurnIsLeftBehind`: `InnerTurnsAwaited`, from `Chains`: `above` is transitive,
  and the turns above a turn are ordered.
- `NoEventIsLost`: `AuditComplete`. Before the flush is sent nothing is lost;
  behind it stand only events of background tasks, because the handlers have
  returned and with them every call within their turns (`AuditIInv`).

`WorkspaceProofs`:

- `NoAnswerIsLost`: `BootInv`. `Covers` says what a chat that finishes has: what
  it read covers what stands in BOOT.md except the notes that came later, and once
  it remembered that, MEMORY.md does, which is what lets it remove the file.
  `OneFinishes` follows the two prompt files through the steps of one finish
  (`Halfway`: which of them is the old one, the new one or in the handler's
  hands), and is asked for only while no two finishes overlapped and none broke
  off.

- `InstallationIsAsSaid`: `InstallInv`. `Places` holds whatever crosses: an inode
  that ran is never the temporary file again. `Uncrossed` says that the update
  past its download has the temporary file for itself and replaces something
  older; `ServiceKept` follows the operator's command step by step.

`BuiltinToolsProofs`:

- `ExtInvHolds`: `ExtInv`, with any number of tools and commands at work. `WorkInv`
  says that two operations on one directory know of each other (`NotAlone`), that one
  that is alone finds what it left (`FindsWhatItLeft`), and so that what was reported
  of a directory nobody works on is so. `LoadInv` says the same of a load: what it has
  seen of a directory nobody has touched since it began is so.
- `FilesInvHolds`: `FilesInv`, for any number of calls on any tree. Every file has one
  place (`OnePlace`), and is `Near` the place where it was at first and those where
  its writers found it: no set of places that the moves done so far respect tells them
  apart (`FilesAreNear`). So a call that takes a text away was asked to give up a place
  where the moves of others may have taken it. `Phase` follows a call that nobody
  disturbs from its first step to what it reports.

`RequestProofs`:

- `TokenInvHolds`, `TokensAreGrantedHolds`: one login runs at a time (it is the
  operator's command), and between its write and its chmod the file is its own
  (`WrittenIsThere`), and the one that saves is the last that began (`LaterAreNew`); so
  who finds the file torn or readable by others finds the trace of a login that is at
  work, was killed or failed to save, and none after it saved. A token comes from a
  login that GitHub authorized and that came as far as its save.
- `StreamInvHolds`: `StreamInv`. The body is what was taken, the buffer and the wire
  (`BodyInParts`), lines are taken whole (`LinesAreWhole`), and what was taken is
  text as it was sent, place for place (`TextIsTaken`). That a chunk ended within a
  character must be noticed when its first byte is read, not when the damage shows
  (`CutIsNoticed`).
- `MenuInvHolds`: `MenuInv`. Nothing happens between the steps but what
  `MenuIsOfTheList` says; the proof is about the list. `StableSortIs`, `RetainedIs`,
  `DedupIs` and `ChattingIs` say what each stage keeps and loses; that `dedup_by`
  leaves one of each name needs that the list was sorted by name before.
- `MemoryInvHolds`: `MemoryInv`. Rows belong to the chat or the user they are stored
  for (`RowsAreOwn`), hold no secret (`NoSecretIsKept`), and a turn has the lines of
  what it found (`ShownAreLines`); `LinesOfFound` says of every search that its lines
  are at most `TopK`, within the limits, without a repetition, and that what was
  found and is not among them is no better.
- `ReplyInvHolds`: `ReplyInv`, for texts of any length and any limit of the chunks.
  Each construct is shown to be `Good`: it goes on behind where it began, and what it
  makes is taken by Telegram by itself, shows every letter it passed but those that
  may name a language, and adds none. `WellFormedConcat` puts two such pieces
  together, `ConvertIs` all of them; `LetterOfChunk` goes from a letter of the answer
  to one of its chunk, wherever `NextChunkIs` has cut it.

What the proofs changed in the models: `SaidIsSo` was not inductive, and the
counterexample was real but needed four commands where the run had two, so the
property now names it (`abandoned`), the bound is four, and section 5 has the
behaviour. `TurnOutcome`'s `Ask` allowed a request for approval of no call, which
no step of `AgentTurn` makes. `TextSurvives` was false for three calls, where the run
has two: a text that is moved twice may be overwritten where no call that overwrites
knew of it, so what is given up is now closed under the moves of others (`Homes`).
Where an excerpt of the code is a chain of tests, two of the models had a CASE with
arms that overlap (`AddLine`, `OwnTag`), which leaves open which of them is taken; they
are IFs now. Sorts, sums and loops are written so that they can be reasoned about,
and give in every run what they gave before.

Only model-checked: liveness (`HandlerReturns`, `TurnEnds`, `BackgroundEnds`,
`TickEnds`, `WaitsEnd`), which needs fairness and `ENABLED`, out of the prover's reach.
What a violation run checks does not hold under the constants of that run.

## 5. Where the code and its documents disagree

Shown by a violation run (`findings` in `PROJECT.json` quotes the lines):
automatic approvals run twice (`session_auto_rerun`), the runtime asks for ever
(`turn_prompt_limit`), nesting is not limited (`subagents_depth`), concurrent
jobs are not limited across ticks (`scheduler_overlap`).

Met while modelling, and kept in the models as the code has it:

- A background save undoes a `/reset`, a model change or an approval that
  happened while its turn ran (bot 998).
- An approval prompt that cannot be sent is only logged (bot 1137-1144): the calls stay
  pending, and a later "yes" runs calls the user was never shown.
- A turn that works without end keeps its chat's handler (bot 1006), and a job that
  does keeps the tick of the scheduler (scheduler 202): neither has a time limit.
- With the shipped window of 20 messages (`unly-config/src/config.rs:43`) and 10 calls
  (`config.rs:285`) the question of the user is cut away when ten calls were made one
  at a time, and the last request of the turn is made without it.
- `/spawn_subagent` and a failed typing call consume the mark that a reset
  leaves (bot 911, 939; the comment at bot 883 says history is skipped once), and the
  message after that restores what was reset. A restart does the same: the mark is only
  in memory, and of the rows before and after the reset the last 40 come back.
  `/model` before the first message is not kept (bot 396-399).
- The reply is sent before the session is stored (bot 1045);
  `docs/architecture.md:157-158` has the other order.
- Approvals by text or button are not audited; `README.md:21` promises an audit
  trail. Calls that run into their time limit, and approved calls
  (`process_approved`), are not audited either (`docs/security.md:65`).
- Files that an approved call returns are never sent (`builtin/telegram.rs:5-8`
  says the tool queues them). `continue_from_tools` does not trim
  (`docs/setup.md:85`). `max_turns` refuses further messages; the comment at
  `unly-config/src/config.rs:246` speaks of truncation.
- The number of children is read before the row is inserted, so a user's
  request and a tool call at the same time may exceed the limit
  (`config.rs:240`). Rows stay active after a restart (`README.md:247`). A stop
  between the INSERT and the entry in the map marks the row as cancelled and
  lets the task run (bot 1574). Subagents that a tool spawned are never
  reported (bot 99).
- `bash` is exempt from the tools' time limit (`docs/security.md:32`). The
  command of a `shell` call that ran into its limit goes on. The `finished_at`
  of a background command is read before the command runs (`shell.rs:301, 448`),
  and the table of background commands is never pruned. A command keeps running
  when the service ends; after a restart its status is "not found".
- After a restart `cron_job enable` changes the row of a disabled job, but the
  table does not have the job until the next restart (orchestration 491). The
  CLI's `job enable` and `job disable` only print (`commands.rs:549-551`).
- A note that another chat takes while the first boot is being finished goes
  with BOOT.md. A BOOT.md that cannot be read when the summary is made without the
  model counts as empty (bot 2841) and is removed: every answer is lost. `unly setup`
  over a configuration removes the workspace beside a running bot
  (`commands.rs:700-725`). Two finishes at once can leave IDENTITY.md and SOUL.md with
  different preferences or one of them emptied; so can one that fails between
  the two writes of a file (`workspace.rs:133-162`).
- A skill that is in the prompt when the service starts stays there after it is
  disabled: only the section that a turn appends is made anew, while the tool
  says that the skill "will not be injected into the system prompt"
  (`skills.rs:288`). A directory that was half copied or half removed is refused
  by the next install and is not reported. A value of one quote in the front
  matter panics (`frontmatter.rs:71`) where the loader promises to skip parse
  errors (`skill_loader.rs:23`).
- `fs_copy` onto itself empties the file and reports success. A copy and a move
  onto the same destination can lose the copied text with both reported as
  successes. fs_read, fs_list and fs_write refuse any name that contains "..",
  the other tools only components that are "..".
- The exit status of `install` and `rm` is not looked at: "Installed systemd
  service" is printed though sudo refused (`commands.rs:1266`), and so is the
  removal (`commands.rs:1509`). A removal whose `disable` was refused still removes
  the unit; the next `uninstall` finds none and reports success, and the service
  stays enabled. Two updates at once share one temporary file
  (`update.rs:99`), and one can install the half written file of the other. An
  update of a program whose file was replaced writes another file beside it,
  and reports success.
- A 401 does not clear the cached Copilot token (`copilot.rs:420`); it is used
  until its stated expiry.
- A login whose save fails reports success all the same (`copilot.rs:179`), and may
  leave the file empty or readable by others until the next login.
- Characters that a chunk of a stream splits are damaged (`copilot.rs:528`,
  `openai_compat.rs:286`); a last line without its end is not read; the response
  that `Done` carries is dropped by the runtime.
- What a turn is shown of the memory is cut to `top_k` before duplicates go
  (runtime 990), and as a turn is stored for its chat and its user, half of the
  lines may go. `expires_at` is always `None`, so `prune` deletes nothing. `unly
  memory list` cuts at byte 100, which panics within a character
  (`commands.rs:622`).
- The limit of 3600 for a chunk is meant "to stay safely under Telegram's
  4096-character HTML message limit" (bot 2779-2781), but a chunk of some hundred
  escaped characters is longer than that as HTML. If Telegram refuses it, the second
  attempt sends the same text (bot 2971), is refused too, and ends the answer: neither
  the chunk nor those behind it arrive.
- "No HTML tag can ever straddle a chunk boundary" (bot 2561-2562) and each chunk
  "yields self-contained valid HTML" (bot 2778-2779) do not hold for tags that
  the text itself has: a chunk that ends between them is refused, and arrives as
  plain text with all its tags. The closing fence of a code block that is longer
  than a chunk opens a block in the next chunk, and what follows it on its line
  is dropped as the name of a language. A text that begins with three newlines
  and goes on for a chunk without one begins with a blank chunk, which Telegram
  refuses twice, and nothing of it arrives.

## 6. Not modelled, and why

- Configuration, core types, the access list and the example plugin keep no
  state over time; their numbers are constants of the modules.
- What git, HTTP and shell commands do to the world is I/O; the models keep that
  such a call takes time, holds a permit and may fail, and how it ends.
- `install.sh`, the text of the unit and the schema of the database are scripts
  that run once.
- The vectors behind a similarity are out of TLC's reach: the similarity is a
  constant. Cron expressions are sets of due times.
- A shutdown is Ctrl-C, as in the code. SIGTERM, which is how systemd stops the
  service, is not handled: the process dies at once, with what the audit log had queued.
- Lists, status texts, menus and logs only read. The heartbeat of a subagent
  touches a timestamp that nothing reads back.
- The parsing of JSON and of front matter, and the format of requests, are data:
  a reply, a line of a stream or a directory is what the parser makes of it.

## 7. Plan

Done, in this order: `ChatSession` and its proofs, `AgentTurn` with
`TurnOutcome`, `Subagents` and its proofs, `Scheduler`, `AuditLog` and
`ToolCalls`; then `CopilotToken`, `ModelStream`, `ModelMenu`, `BootMode`,
`Extensions`, `ShellJobs`, `Installation`, `FileTools`, `Memory`, `ReplyText`.

A composition still worth having: `ChatSession` with `TurnOutcome`, the task of a
turn as the abstract outcome instead of a free choice.

Proved: every invariant and every action property that a passing run checks, and the
refinement of `TurnOutcome`. What a further theorem could be about is the composition
above.
