------------------------------ MODULE HeldRun -------------------------------
(***************************************************************************)
(* One claimed Run as its attempt sees it in the Store: the revision that  *)
(* every operation must present and that every operation moves, the        *)
(* execution token, the open Interactions and the Tool Calls               *)
(* (packages/agent/src/runtime/durable-store.ts).  RunStore.tla has all    *)
(* Runs and owners but no revisions; here it is the revisions that matter. *)
(***************************************************************************)
EXTENDS Naturals, Sequences, FiniteSets

CONSTANTS
  Caller,      \* those that call Tools and ask at the same time in one attempt
  Bridged,     \* callers of ProviderCallContext: a Provider in the middle of its stream
  BatchSize    \* bound: Tool Calls in one batch

ASSUME CallerAssumption == Bridged \subseteq Caller /\ BatchSize \in Nat \ {0}

VARIABLES
  run,         \* the RunRecord
  toolCalls,   \* statuses of the Tool Calls the Runtime executes
  external,    \* status of a Tool Call that a Provider executes and only reports
  lease        \* the owner's lease has not been lost

storeVars == <<run, toolCalls, external, lease>>

ToolCallId == Caller \X (1 .. BatchSize)

\* A question a Provider asks by interact(), and one its Tool Call raises.
Question == Caller \X {"model", "tool"}

Open == {"pending", "in_progress"}

StoreTypeOK ==
  /\ run \in [state: {"running", "input_required", "queued", "completed", "failed", "cancelled"},
              revision: Nat, execution: BOOLEAN, openInteractions: SUBSET Question,
              invalidated: BOOLEAN]
  /\ toolCalls \in [ToolCallId -> {"absent", "completed", "failed"} \cup Open]
  /\ external \in {"absent", "in_progress", "completed", "failed"}
  /\ lease \in BOOLEAN

\* As claimRun leaves it.
StoreInit ==
  /\ run = [state |-> "running", revision |-> 0, execution |-> TRUE,
            openInteractions |-> {}, invalidated |-> FALSE]
  /\ toolCalls = [t \in ToolCallId |-> "absent"]
  /\ external = "absent"
  /\ lease = TRUE

HasToken == lease /\ run.execution

\* assertOwner and assertExecution: the lease, the token and the revision.
Accepts(revision) == HasToken /\ run.revision = revision

Bumped == [run EXCEPT !.revision = run.revision + 1]

OpenTools == {t \in ToolCallId : toolCalls[t] \in Open}
AssertNoOpenTools(allowed) ==
  /\ OpenTools \subseteq allowed
  /\ \A t \in allowed : toolCalls[t] # "in_progress"
  /\ external # "in_progress"

\* interruptToolCall of the attempt's Tool Calls.
InterruptTools ==
  /\ toolCalls' = [t \in ToolCallId |-> IF t \in OpenTools THEN "failed" ELSE toolCalls[t]]
  /\ external' = IF external = "in_progress" THEN "failed" ELSE external

Ended(state) == [Bumped EXCEPT !.state = state, !.execution = FALSE, !.openInteractions = {}]

-----------------------------------------------------------------------------
(* What the attempt writes, once accepted *)

ReserveToolCalls(ts) ==
  /\ toolCalls' = [t \in ToolCallId |-> IF t \in ts THEN "pending" ELSE toolCalls[t]]
  /\ run' = Bumped
  /\ UNCHANGED <<external, lease>>

SetToolCall(t, status) ==
  /\ toolCalls' = [toolCalls EXCEPT ![t] = status]
  /\ run' = Bumped
  /\ UNCHANGED <<external, lease>>

\* commitToolResult of an effect nobody knows the outcome of: the Run fails
\* with it, but its open Interactions stay in the record.
CommitIndeterminate ==
  /\ run' = [Ended("failed") EXCEPT !.openInteractions = run.openInteractions]
  /\ InterruptTools
  /\ UNCHANGED lease

\* commitPhaseEntered, commitPhaseOutput.
CommitPhase == run' = Bumped /\ UNCHANGED <<toolCalls, external, lease>>

\* recordToolCall presents the token but no revision.
RecordToolCall(status) ==
  /\ external' = status
  /\ run' = Bumped
  /\ UNCHANGED <<toolCalls, lease>>

RaiseInteraction(q) ==
  /\ run' = [Bumped EXCEPT !.state = "input_required",
                           !.openInteractions = run.openInteractions \cup {q}]
  /\ UNCHANGED <<toolCalls, external, lease>>

MayCommitOutcome(revision) == Accepts(revision) /\ AssertNoOpenTools({})
CommitOutcome(outcome) ==
  /\ run' = Ended(outcome)
  /\ UNCHANGED <<toolCalls, external, lease>>

MayCommitInputRequired(revision, allowed) ==
  Accepts(revision) /\ run.state = "running" /\ AssertNoOpenTools(allowed)
CommitInputRequired(qs) ==
  /\ run' = [Ended("input_required") EXCEPT !.openInteractions = qs]
  /\ UNCHANGED <<toolCalls, external, lease>>

\* cancelRun, with a revision or without one; a Run that has ended stays as it
\* is.  A Tool in progress makes it a failure.
CancelRun ==
  IF ~run.execution THEN UNCHANGED storeVars ELSE
  /\ run' = Ended(IF external = "in_progress" \/ \E t \in ToolCallId : toolCalls[t] = "in_progress"
                  THEN "failed" ELSE "cancelled")
  /\ InterruptTools
  /\ UNCHANGED lease

-----------------------------------------------------------------------------
(* What others do to the Run *)

\* answerInteraction, with an answer or a cancellation.
AnswerInteraction(q) ==
  /\ lease /\ run.state = "input_required" /\ q \in run.openInteractions
  /\ run' = [Bumped EXCEPT
       !.openInteractions = run.openInteractions \ {q},
       !.state = IF run.openInteractions # {q} THEN run.state
                 ELSE IF run.execution THEN "running" ELSE "queued"]
  /\ UNCHANGED <<toolCalls, external, lease>>

\* createRun while this Run is held: the new input replies to all its questions.
ReplyToRun ==
  /\ lease /\ run.state = "input_required" /\ run.execution
  /\ run' = [Bumped EXCEPT !.openInteractions = {}, !.state = "running"]
  /\ UNCHANGED <<toolCalls, external, lease>>

\* reviseMessage supersedes the Run.  The Tool Calls of a held one stay as they are.
SupersedeRun ==
  /\ lease /\ run.execution
  /\ run' = [Ended("cancelled") EXCEPT !.invalidated = TRUE]
  /\ IF run.state = "running" THEN InterruptTools ELSE UNCHANGED <<toolCalls, external>>
  /\ UNCHANGED lease

\* The lease runs out: every later call of this owner is refused.
LoseLease == lease /\ lease' = FALSE /\ UNCHANGED <<run, toolCalls, external>>
=============================================================================
