----------------------------- MODULE ToolCalls -----------------------------
(***************************************************************************)
(* Tool calls under the permits of the registry                            *)
(* (crates/unly-tools/src/registry.rs), the tools as the registry sees     *)
(* them (crates/unly-tools/src/builtin), the audit events of the calls,    *)
(* and the shutdown of the process (crates/unly-cli/src/commands.rs).      *)
(*                                                                         *)
(* An agent is a turn: of a message handler, of a background task (a       *)
(* subagent or a scheduled job), or of the job that a cron_job call with   *)
(* the action run_now runs before it returns.  A turn makes one call at a  *)
(* time.  How a turn chooses its calls is AgentTurn's subject.             *)
(***************************************************************************)
EXTENDS AuditLog, Naturals, FiniteSets, SequencesExt

CONSTANTS
  Handlers,        (* turns of message handlers                            *)
  Tasks,           (* turns of background tasks                            *)
  Inner,           (* turns of run_now                                     *)
  None,            (* no tool                                              *)
  Permits,         (* max_concurrent_executions                            *)
  Tools,           (* the kinds of tools that are called                   *)
  Endless,         (* tools whose work need not end                        *)
  MaxBegun         (* bound: turns of handlers and tasks, and calls        *)

Agents == Handlers \union Tasks \union Inner

ASSUME ToolCallsConstants ==
  /\ IsFiniteSet(Agents)
  /\ Handlers \intersect (Tasks \union Inner) = {} /\ Tasks \intersect Inner = {}
  /\ Permits \in Nat \ {0} /\ MaxBegun \in Nat
  /\ Tools \subseteq {"short", "shell", "bash", "run_now"}
  /\ Endless \subseteq Tools
  /\ None \notin Tools
  /\ Sources = {"handler", "task", "main"}

VARIABLES
  agent,           (* agent -> its turn                                    *)
  waiting,         (* the queue of the semaphore                           *)
  free,            (* its permits                                          *)
  main,            (* the main task                                        *)
  begun            (* counter for the bound                                *)

vars == <<agent, waiting, free, main, begun, auditVars>>

Off == [pc |-> "off", tool |-> None, above |-> {}]

Turn(above) == [pc |-> "turn", tool |-> None, above |-> above]

Init ==
  /\ agent = [a \in Agents |-> Off]
  /\ waiting = <<>> /\ free = Permits
  /\ main = "serving" /\ begun = 0
  /\ AuditInit

Running(a) == agent[a].pc = "running"

(* Who a call or an event is on behalf of. *)
Source(a) ==
  IF \E h \in Handlers : h = a \/ h \in agent[a].above THEN "handler" ELSE "task"

(* The turns that are awaited by the call of a, directly or not. *)
Below(a) == {b \in Agents : a \in agent[b].above}

-----------------------------------------------------------------------------
(* Turns. *)

(* An update is dispatched until the shutdown is requested. *)
HandlerBegins(h) ==
  /\ main = "serving" /\ agent[h] = Off /\ begun < MaxBegun
  /\ begun' = begun + 1
  /\ agent' = [agent EXCEPT ![h] = Turn({})]
  /\ UNCHANGED <<waiting, free, main, auditVars>>

(* Background tasks run until the process ends. *)
TaskBegins(t) ==
  /\ main # "gone" /\ agent[t] = Off /\ begun < MaxBegun
  /\ begun' = begun + 1
  /\ agent' = [agent EXCEPT ![t] = Turn({})]
  /\ UNCHANGED <<waiting, free, main, auditVars>>

(* A handler that has a reply, or none, says so in the audit log; one that
   asks for an approval does not. *)
TurnEnds(a) ==
  /\ a \notin Inner /\ agent[a].pc = "turn"
  /\ agent' = [agent EXCEPT ![a] = Off]
  /\ (a \in Handlers /\ Log("handler")) \/ UNCHANGED auditVars
  /\ UNCHANGED <<waiting, free, main, begun>>

(* A tool that is not found is not audited, a call that needs an approval
   is: the event goes before the turn's next call. *)
Refused(a) ==
  /\ agent[a].pc = "turn" /\ begun < MaxBegun
  /\ begun' = begun + 1
  /\ Log(Source(a)) \/ UNCHANGED auditVars
  /\ UNCHANGED <<agent, waiting, free, main>>

(* The call takes a permit, or its place in the queue. *)
Execute(a, tool) ==
  /\ agent[a].pc = "turn" /\ begun < MaxBegun
  /\ begun' = begun + 1
  /\ IF free > 0
     THEN /\ agent' = [agent EXCEPT ![a].pc = "running", ![a].tool = tool]
          /\ free' = free - 1
          /\ UNCHANGED waiting
     ELSE /\ agent' = [agent EXCEPT ![a].pc = "queued", ![a].tool = tool]
          /\ waiting' = Append(waiting, a)
          /\ UNCHANGED free
  /\ UNCHANGED <<main, auditVars>>

(* run_now: the executor of cron jobs runs a turn within the call. *)
RunNow(a, b) ==
  /\ Running(a) /\ agent[a].tool = "run_now" /\ Below(a) = {}
  /\ agent[b] = Off
  /\ agent' = [agent EXCEPT ![b] = Turn(agent[a].above \union {a})]
  /\ UNCHANGED <<waiting, free, main, begun, auditVars>>

-----------------------------------------------------------------------------
(* The end of a call. *)

(* The calls of back return and the turns of gone are dropped; of the given
   permits each goes to the next in the queue left. *)
HandOver(back, gone, left, given) ==
  LET take == IF given < Len(left) THEN given ELSE Len(left)
      next == {left[i] : i \in 1..take}
  IN
  /\ waiting' = SubSeq(left, take + 1, Len(left))
  /\ free' = free + given - take
  /\ agent' = [a \in Agents |->
       IF a \in gone THEN Off
       ELSE IF a \in back THEN Turn(agent[a].above)
       ELSE IF a \in next THEN [agent[a] EXCEPT !.pc = "running"]
       ELSE agent[a]]

Held(turns) == Cardinality({a \in turns : Running(a)})

(* The queue without the calls of the given turns.  Of turns that are dropped
   together at most one waits: those above it are running. *)
QueueWithout(turns) ==
  LET places == {i \in DOMAIN waiting : waiting[i] \in turns}
  IN  IF places = {} THEN waiting ELSE RemoveAt(waiting, CHOOSE i \in places : TRUE)

(* Mutant: a permit is given back when a call returns, not when it is
   dropped. *)
Release_ReturnsOnly(back, gone) == HandOver(back, gone, QueueWithout(gone), Held(back))

(* A permit and a place in the queue end with the call they belong to. *)
Release(back, gone) == HandOver(back, gone, QueueWithout(gone), Held(back \union gone))

(* The tool is done; run_now is when its turn is, or at once when the job is
   not found.  The call is audited unless process_approved makes it. *)
Returns(a) ==
  /\ Running(a) /\ \A b \in Below(a) : agent[b].pc = "turn"
  /\ Release({a}, Below(a))
  /\ Log(Source(a)) \/ UNCHANGED auditVars
  /\ UNCHANGED <<main, begun>>

(* Mutant: the turn of run_now was spawned, and is not dropped. *)
TimesOut_Detached(a) ==
  /\ Running(a) /\ agent[a].tool # "bash"
  /\ Release({a}, {})
  /\ UNCHANGED <<main, begun, auditVars>>

(* Mutant: shell has no time limit, like bash. *)
TimesOut_ShellExempt(a) ==
  /\ Running(a) /\ agent[a].tool \notin {"bash", "shell"}
  /\ Release({a}, Below(a))
  /\ UNCHANGED <<main, begun, auditVars>>

(* The time limit starts with the permit; bash has none.  Not audited. *)
TimesOut(a) ==
  /\ Running(a) /\ agent[a].tool # "bash"
  /\ Release({a}, Below(a))
  /\ UNCHANGED <<main, begun, auditVars>>

(* A subagent is stopped or reaches its own time limit. *)
TaskAborted(t) ==
  /\ agent[t] # Off
  /\ Release({}, {t} \union Below(t))
  /\ UNCHANGED <<main, begun, auditVars>>

-----------------------------------------------------------------------------
(* The shutdown. *)

CtrlC ==
  /\ main = "serving"
  /\ main' = "draining"
  /\ UNCHANGED <<agent, waiting, free, begun, auditVars>>

(* Mutant: main does not wait for the handlers. *)
Drained_AtOnce ==
  /\ main = "draining"
  /\ LogAndFlush("main")
  /\ main' = "flushing"
  /\ UNCHANGED <<agent, waiting, free, begun>>

(* The dispatcher returns when its handlers have. *)
Drained ==
  /\ main = "draining"
  /\ \A h \in Handlers : agent[h] = Off
  /\ LogAndFlush("main")
  /\ main' = "flushing"
  /\ UNCHANGED <<agent, waiting, free, begun>>

Close ==
  /\ main = "flushing" /\ flushed
  /\ CloseDatabase
  /\ main' = "closed"
  /\ UNCHANGED <<agent, waiting, free, begun>>

Exit ==
  /\ main = "closed"
  /\ main' = "gone"
  /\ agent' = [a \in Agents |-> Off]
  /\ waiting' = <<>> /\ free' = Permits
  /\ LoseQueue
  /\ UNCHANGED begun

WriteEvent == Writer /\ UNCHANGED <<agent, waiting, free, main, begun>>

Next ==
  \/ \E h \in Handlers : HandlerBegins(h)
  \/ \E t \in Tasks : TaskBegins(t) \/ TaskAborted(t)
  \/ \E a \in Agents : Refused(a) \/ TurnEnds(a) \/ Returns(a) \/ TimesOut(a)
  \/ \E a \in Agents, tool \in Tools : Execute(a, tool)
  \/ \E a \in Agents, b \in Inner : RunNow(a, b)
  \/ WriteEvent
  \/ CtrlC \/ Drained \/ Close \/ Exit

Spec == Init /\ [][Next]_vars

(* Tools return, except the endless ones, time limits strike, turns end, and
   the audit task and the shutdown proceed. *)
Fairness ==
  /\ \A a \in Agents : WF_vars(Returns(a) /\ agent[a].tool \notin Endless)
  /\ \A a \in Agents : WF_vars(TimesOut(a)) /\ WF_vars(TurnEnds(a))
  /\ WF_vars(WriteEvent) /\ WF_vars(Drained) /\ WF_vars(Close) /\ WF_vars(Exit)

FairSpec == Spec /\ Fairness

-----------------------------------------------------------------------------
(* Properties. *)

(* The type of every variable. *)
TypeOK ==
  /\ agent \in [Agents -> [pc : {"off", "turn", "queued", "running"},
                           tool : Tools \union {None}, above : SUBSET Agents]]
  /\ waiting \in Seq(Agents)
  /\ free \in 0..Permits
  /\ main \in {"serving", "draining", "flushing", "closed", "gone"}
  /\ begun \in 0..MaxBegun
  /\ AuditTypeOK

(* Through returns, time limits and aborts of nested calls, no permit of the
   registry is lost or made: it is free or held by one running call, and no
   call waits while one is free. *)
PermitsConserved ==
  /\ free + Cardinality({a \in Agents : Running(a)}) = Permits
  /\ free > 0 => waiting = <<>>

(* The calls and the permits, in every state. *)
CallsInv == TypeOK /\ PermitsConserved

(* A turn of run_now lives only as long as the running calls that await it:
   none goes on after one of them timed out or was aborted. *)
InnerTurnsAwaited ==
  \A b \in Agents, a \in Agents :
    a \in agent[b].above => Running(a) /\ agent[a].tool = "run_now"

(* The shutdown loses no audit event of a message handler, of a call made
   within its turn, or of the shutdown itself. *)
AuditComplete == lost \subseteq {"task"}

(* A call gets its permit and comes to an end, however calls are nested and
   whatever is dropped while it waits. *)
CallsEnd ==
  \A a \in Agents :
    agent[a].pc \in {"queued", "running"} ~> agent[a].pc \in {"off", "turn"}

=============================================================================
