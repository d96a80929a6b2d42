----------------------------- MODULE ToolQueue ------------------------------
(***************************************************************************)
(* The Tool queue of one Execution Attempt and the live Interactions:      *)
(* runtime.tools, toolsBatch, onToolReport, onParallelPhaseOutput,         *)
(* executeToolBatch, executeAndCommitTool and liveInteract of              *)
(* packages/agent/src/runtime/durable-runtime.ts.                          *)
(*                                                                         *)
(* One task runs at a time, but its awaits let callers ask and hosts       *)
(* answer, which moves the revision of the Run under the task.  One step   *)
(* is one Store call with the assignment of the revision it returns.       *)
(***************************************************************************)
EXTENDS HeldRun

CONSTANT MaxReports    \* bound: reports of the external Tool Call

ASSUME MaxReportsAssumption == MaxReports \in Nat

VARIABLES
  fanout,              \* the callers are parallel Phases, not the calls of one Phase
  executionRevision,   \* the attempt's copy of the revision
  queue,               \* toolQueue: the tasks that have not begun
  job,                 \* the task that runs
  caller,              \* what each caller is waiting for
  held,                \* liveInteractions, and what became of them
  effect,              \* what Tool.execute has done outside
  aborted,             \* controller.signal.aborted
  reportsLeft          \* the bound on reports

queueVars == <<fanout, executionRevision, queue, job, caller, held, effect, aborted, reportsLeft>>

\* The Tool Calls of a caller's task.  Bound: only a serial Phase has a batch,
\* and only its Provider reports.
CallsOf(c) == {c} \X (1 .. IF c \in Bridged \/ fanout THEN 1 ELSE BatchSize)

NoJob == [step |-> "none"]
Step == {"decide", "reserveAll", "reserve", "deny", "ask", "start", "execute", "running",
         "commit", "fold", "indeterminate", "suspend", "wait", "declined", "throw"}

QueueTypeOK ==
  /\ fanout \in BOOLEAN
  /\ executionRevision \in Nat
  /\ queue \in Seq([caller: Caller, kind: {"tool", "output", "report"}])
  /\ job = NoJob \/ job \in [caller: Caller, at: 1 .. BatchSize, step: Step, next: Step,
                             revision: Nat, batch: BOOLEAN]
  /\ caller \in [Caller -> {"working", "asking", "calling", "replying",
                            "over", "suspended"}]
  /\ held \in [Question -> {"unasked", "raising", "dropped", "waiting", "answered",
                            "rejected", "over"}]
  /\ effect \in [ToolCallId -> {"none", "running", "asked", "done", "unknown"}]
  /\ aborted \in BOOLEAN
  /\ reportsLeft \in 0 .. MaxReports

QueueInit ==
  /\ fanout \in BOOLEAN
  /\ executionRevision = run.revision
  /\ queue = <<>>
  /\ job = NoJob
  /\ caller = [c \in Caller |-> "working"]
  /\ held = [q \in Question |-> "unasked"]
  /\ effect = [t \in ToolCallId |-> "none"]
  /\ aborted = FALSE
  /\ reportsLeft = IF fanout THEN 0 ELSE MaxReports

Newer(revision) == IF revision > executionRevision THEN revision ELSE executionRevision

\* cancelLiveInteractions and the abort listeners: whoever waits is rejected,
\* and a raise that is under way will find its answer rejected.
RejectLiveWaiting == [q \in Question |->  \* mutant: only those already raised
  IF held[q] = "waiting" THEN "rejected" ELSE held[q]]
RejectLive == [q \in Question |->
  CASE held[q] = "waiting" -> "rejected"
    [] held[q] = "raising" -> "dropped"
    [] OTHER -> held[q]]

-----------------------------------------------------------------------------
(* Live Interactions *)

\* liveInteract: refused at once when the Run is aborted.  The raise retries
\* with a fresh snapshot when the revision has moved, so it ends by being
\* accepted or by finding the attempt gone.
Raisable == HasToken

Raise(q) ==
  /\ held[q] \in {"raising", "dropped"}
  /\ IF Raisable
     THEN /\ RaiseInteraction(q)
          /\ executionRevision' = Newer(run.revision + 1)
          /\ held' = [held EXCEPT ![q] = IF @ = "raising" THEN "waiting" ELSE "rejected"]
     ELSE /\ UNCHANGED <<storeVars, executionRevision>>
          /\ held' = [held EXCEPT ![q] = "rejected"]
  /\ UNCHANGED <<fanout, queue, job, caller, effect, aborted, reportsLeft>>

Asked(q) == IF aborted THEN "rejected" ELSE "raising"

\* ProviderCallContext.interact.  Bound: in a fan-out, where the two questions
\* of a Provider can be open next to another's, only the Phases use it whose
\* Tools ask by a boundary.
Interact(c) ==
  /\ c \in Bridged <=> ~fanout
  /\ caller[c] = "working" /\ held[<<c, "model">>] = "unasked"
  /\ caller' = [caller EXCEPT ![c] = "asking"]
  /\ held' = [held EXCEPT ![<<c, "model">>] = Asked(<<c, "model">>)]
  /\ UNCHANGED <<fanout, storeVars, executionRevision, queue, job, effect, aborted, reportsLeft>>

\* The Provider has its answer, or handles or passes on the rejection.
InteractReturns(c) ==
  /\ caller[c] = "asking"
  /\ \/ /\ held[<<c, "model">>] \in {"answered", "rejected"}
        /\ caller' = [caller EXCEPT ![c] = "working"]
     \/ /\ held[<<c, "model">>] = "rejected"
        /\ caller' = [caller EXCEPT ![c] = "over"]
  /\ held' = [held EXCEPT ![<<c, "model">>] = "over"]
  /\ UNCHANGED <<fanout, storeVars, executionRevision, queue, job, effect, aborted, reportsLeft>>

-----------------------------------------------------------------------------
(* The queue *)

Enqueue(c, kind) == queue' = Append(queue, [caller |-> c, kind |-> kind])

\* runtime.tools and runtime.toolsBatch.
CallTools(c) ==
  /\ caller[c] = "working"
  /\ \A t \in CallsOf(c) : toolCalls[t] = "absent" /\ effect[t] = "none"
  /\ caller' = [caller EXCEPT ![c] = "calling"]
  /\ Enqueue(c, "tool")
  /\ UNCHANGED <<fanout, storeVars, executionRevision, job, held, effect, aborted, reportsLeft>>

\* onParallelPhaseOutput: a Phase of a fan-out ends with a reply.
Reply(c) ==
  /\ caller[c] = "working"
  /\ caller' = [caller EXCEPT ![c] = "replying"]
  /\ Enqueue(c, "output")
  /\ UNCHANGED <<fanout, storeVars, executionRevision, job, held, effect, aborted, reportsLeft>>

\* onToolReport, which nobody waits for.
Report(c) ==
  /\ c \in Bridged
  /\ caller[c] = "working" /\ ~aborted /\ reportsLeft > 0
  /\ Enqueue(c, "report")
  /\ reportsLeft' = reportsLeft - 1
  /\ UNCHANGED <<fanout, storeVars, executionRevision, job, caller, held, effect, aborted>>

Begin(kind) == job = NoJob /\ queue # <<>> /\ Head(queue).kind = kind /\ queue' = Tail(queue)

\* A Phase output: dropped once aborted; the Phase ends, failed if it is refused.
CommitOutput ==
  LET c == Head(queue).caller IN
  /\ Begin("output")
  /\ IF ~aborted /\ Accepts(executionRevision)
     THEN CommitPhase /\ executionRevision' = run.revision + 1
     ELSE UNCHANGED <<storeVars, executionRevision>>
  /\ caller' = [caller EXCEPT ![c] = "over"]
  /\ UNCHANGED <<fanout, job, held, effect, aborted, reportsLeft>>

\* The first report says that the call began, the second that it is over.
CommitReport ==
  /\ Begin("report")
  /\ IF ~aborted /\ HasToken
     THEN /\ RecordToolCall(IF external = "absent" THEN "in_progress" ELSE "completed")
          /\ executionRevision' = run.revision + 1
     ELSE UNCHANGED <<storeVars, executionRevision>>
  /\ UNCHANGED <<fanout, job, caller, held, effect, aborted, reportsLeft>>

\* executeToolBatch begins with the revision the attempt has now.  Several
\* calls are decided first and then reserved together, unless the policy asks
\* about one of them: then, like a single call, one after the other.
BeginTools ==
  LET c == Head(queue).caller IN
  /\ Begin("tool")
  /\ \E batch \in {Cardinality(CallsOf(c)) > 1, FALSE} :
       job' = [caller |-> c, at |-> 1, step |-> IF batch THEN "reserveAll" ELSE "decide",
               next |-> "decide", revision |-> executionRevision, batch |-> batch]
  /\ UNCHANGED <<fanout, storeVars, executionRevision, caller, held, effect, aborted, reportsLeft>>

-----------------------------------------------------------------------------
(* One Tool Call *)

At(step) == job # NoJob /\ job.step = step
Call == <<job.caller, job.at>>
Goes(step) == job' = [job EXCEPT !.step = step]

\* setRevision: the revision a Store call returned, for the task and the attempt.
Adopt(step) ==
  /\ job' = [job EXCEPT !.step = step, !.revision = run.revision + 1]
  /\ executionRevision' = run.revision + 1

Refused == UNCHANGED <<storeVars, executionRevision>> /\ Goes("throw")

\* The next call of the batch, or the end of the task, which leaves the
\* attempt with the revision of the task.
NextCall(result) ==
  IF job.at < Cardinality(CallsOf(job.caller))
  THEN /\ job' = [job EXCEPT !.at = job.at + 1, !.step = "decide", !.revision = result]
       /\ UNCHANGED caller
  ELSE job' = NoJob /\ caller' = [caller EXCEPT ![job.caller] = "working"]

ReserveAll ==
  /\ At("reserveAll")
  /\ IF Accepts(job.revision) THEN ReserveToolCalls(CallsOf(job.caller)) /\ Adopt("decide")
                              ELSE Refused
  /\ UNCHANGED <<fanout, queue, caller, held, effect, aborted, reportsLeft>>

\* beforeToolCall allows, denies (or fails, or there is no such Tool), or asks.
\* An Interaction driver refuses to ask once aborted.
Decide(choice) ==
  /\ At("decide")
  /\ choice = "ask" => ~job.batch /\ held[<<job.caller, "tool">>] = "unasked"
  /\ IF choice = "ask" /\ aborted THEN Goes("throw")
     ELSE job' = [job EXCEPT !.next = choice,
       !.step = IF toolCalls[Call] = "absent" THEN "reserve"
                ELSE IF choice = "start" /\ toolCalls[Call] = "in_progress" THEN "execute"
                ELSE choice]
  /\ UNCHANGED <<fanout, storeVars, executionRevision, queue, caller, held, effect, aborted, reportsLeft>>

Reserve ==
  /\ At("reserve")
  /\ IF Accepts(job.revision) THEN ReserveToolCalls({Call}) /\ Adopt(job.next) ELSE Refused
  /\ UNCHANGED <<fanout, queue, caller, held, effect, aborted, reportsLeft>>

Deny ==
  /\ At("deny")
  /\ IF Accepts(job.revision)
     THEN /\ SetToolCall(Call, "failed")
          /\ executionRevision' = run.revision + 1
          /\ NextCall(run.revision + 1)
     ELSE Refused /\ UNCHANGED caller
  /\ UNCHANGED <<fanout, queue, held, effect, aborted, reportsLeft>>

StartUnlogged ==  \* mutant: the Tool runs though its start was refused
  /\ At("start")
  /\ IF Accepts(job.revision) THEN SetToolCall(Call, "in_progress") /\ Adopt("execute")
     ELSE UNCHANGED <<storeVars, executionRevision>> /\ Goes("execute")
  /\ UNCHANGED <<fanout, queue, caller, held, effect, aborted, reportsLeft>>
\* startToolCall, before the effect.
Start ==
  /\ At("start")
  /\ IF Accepts(job.revision) THEN SetToolCall(Call, "in_progress") /\ Adopt("execute")
                              ELSE Refused
  /\ UNCHANGED <<fanout, queue, caller, held, effect, aborted, reportsLeft>>

Execute ==
  /\ At("execute")
  /\ effect' = [effect EXCEPT ![Call] = "running"]
  /\ Goes("running")
  /\ UNCHANGED <<fanout, storeVars, executionRevision, queue, caller, held, aborted, reportsLeft>>

\* Tool.execute returns, fails in an unknown state, or asks for input.  Left out:
\* the caller's own signal for this one Tool Call, on which the task goes on and
\* commits "failed" though the Tool may still run.
ExecuteReturns ==
  /\ At("running")
  /\ \E outcome \in {"done", "unknown", "asked"} :
       /\ outcome = "asked" => held[<<job.caller, "tool">>] = "unasked"
       /\ effect' = [effect EXCEPT ![Call] = outcome]
       /\ Goes(CASE outcome = "done" -> "commit"
                 [] outcome = "unknown" -> "indeterminate"
                 [] aborted -> "throw"
                 [] OTHER -> "suspend")
  /\ UNCHANGED <<fanout, storeVars, executionRevision, queue, caller, held, aborted, reportsLeft>>

CommitRetries ==  \* mutant: a refused result runs the Tool again
  /\ At("commit")
  /\ IF Accepts(job.revision) THEN SetToolCall(Call, "completed") /\ Adopt("fold")
     ELSE /\ UNCHANGED <<storeVars, executionRevision>>
          /\ job' = [job EXCEPT !.step = "execute", !.revision = run.revision]
  /\ UNCHANGED <<fanout, queue, caller, held, effect, aborted, reportsLeft>>
\* commitToolResult presents the revision from before the effect.  A refusal
\* lands in the same catch as a failed effect.
Commit ==
  /\ At("commit")
  /\ IF Accepts(job.revision) THEN SetToolCall(Call, "completed") /\ Adopt("fold")
     ELSE UNCHANGED <<storeVars, executionRevision>> /\ Goes("indeterminate")
  /\ UNCHANGED <<fanout, queue, caller, held, effect, aborted, reportsLeft>>

\* foldToolInteractionRecords reads the history, and only then does the task
\* return its revision: an answer adopted meanwhile is overwritten.
Fold ==
  /\ At("fold")
  /\ NextCall(job.revision)
  /\ executionRevision' = IF job'= NoJob THEN job.revision ELSE executionRevision
  /\ UNCHANGED <<fanout, storeVars, queue, held, effect, aborted, reportsLeft>>

Indeterminate ==
  /\ At("indeterminate")
  /\ IF Accepts(job.revision)
     THEN /\ CommitIndeterminate
          /\ executionRevision' = run.revision + 1
          /\ NextCall(run.revision + 1)
     ELSE Refused /\ UNCHANGED caller
  /\ UNCHANGED <<fanout, queue, held, effect, aborted, reportsLeft>>

-----------------------------------------------------------------------------
(* A Tool Call that asks *)

\* The boundary leaves the task, and the Phase, with the Tool Call pending.
Boundary == job' = NoJob /\ caller' = [caller EXCEPT ![job.caller] = "suspended"]

\* In a Provider's stream the answer is awaited in place, in the queue.
AwaitInPlace ==
  /\ held' = [held EXCEPT ![<<job.caller, "tool">>] = Asked(<<job.caller, "tool">>)]
  /\ Goes("wait")
  /\ UNCHANGED caller

\* beforeToolCall has asked: nothing has been started.
AskFirst ==
  /\ At("ask")
  /\ IF job.caller \in Bridged THEN AwaitInPlace ELSE Boundary /\ UNCHANGED held
  /\ UNCHANGED <<fanout, storeVars, executionRevision, queue, effect, aborted, reportsLeft>>

\* Tool.execute has asked: suspendToolCall takes the start back.
Suspend ==
  /\ At("suspend")
  /\ IF job.caller \in Bridged
     THEN AwaitInPlace /\ UNCHANGED <<storeVars, executionRevision>>
     ELSE /\ UNCHANGED held
          /\ IF Accepts(job.revision)
             THEN /\ SetToolCall(Call, "pending")
                  /\ executionRevision' = run.revision + 1
                  /\ Boundary
             ELSE Refused /\ UNCHANGED caller
  /\ UNCHANGED <<fanout, queue, effect, aborted, reportsLeft>>

\* Answered, the batch runs again with the revision the attempt has now.
WaitEnds ==
  /\ At("wait")
  /\ \/ /\ held[<<job.caller, "tool">>] = "answered"
        /\ job' = [job EXCEPT !.step = "decide", !.revision = executionRevision]
     \/ held[<<job.caller, "tool">>] = "rejected" /\ Goes("declined")
  /\ held' = [held EXCEPT ![<<job.caller, "tool">>] = "over"]
  /\ UNCHANGED <<fanout, storeVars, executionRevision, queue, caller, effect, aborted, reportsLeft>>

\* Declined: the Tool Call fails and the Provider goes on, unless aborted.
Declined ==
  /\ At("declined")
  /\ IF Accepts(executionRevision)
     THEN SetToolCall(Call, "failed") /\ executionRevision' = run.revision + 1
     ELSE UNCHANGED <<storeVars, executionRevision>>
  /\ job' = NoJob
  /\ caller' = [caller EXCEPT ![job.caller] =
       IF Accepts(executionRevision) /\ ~aborted THEN "working" ELSE "over"]
  /\ UNCHANGED <<fanout, queue, held, effect, aborted, reportsLeft>>

\* Any other error leaves the task.  For a Provider the Tool Call is failed on
\* the way, if the Store accepts that.
Throw ==
  /\ At("throw")
  /\ IF job.caller \in Bridged /\ toolCalls[Call] \in Open /\ Accepts(executionRevision)
     THEN SetToolCall(Call, "failed") /\ executionRevision' = run.revision + 1
     ELSE UNCHANGED <<storeVars, executionRevision>>
  /\ job' = NoJob
  /\ caller' = [caller EXCEPT ![job.caller] = "over"]
  /\ UNCHANGED <<fanout, queue, held, effect, aborted, reportsLeft>>

TaskStep ==
  \/ CommitOutput \/ CommitReport \/ BeginTools
  \/ ReserveAll \/ Reserve \/ Deny \/ Start \/ Execute \/ ExecuteReturns
  \/ Commit \/ Fold \/ Indeterminate
  \/ \E choice \in {"start", "deny", "ask"} : Decide(choice)
  \/ AskFirst \/ Suspend \/ WaitEnds \/ Declined \/ Throw
=============================================================================
