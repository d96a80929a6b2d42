--------------------------- MODULE RunStoreProofs ---------------------------
(***************************************************************************)
(* Proofs about RunStore, for every set of Agents, Tool Calls and          *)
(* Interactions and every bound.                                           *)
(*                                                                         *)
(* TypeOK is inductive on its own.  The safety invariants are not: that    *)
(* one attempt runs per Agent needs to know that a running Run has an      *)
(* execution and that only a live Run has one, that Runs start in order    *)
(* needs that they are created in order, and that a retry comes from a     *)
(* checkpoint needs that every suspended Run has one.  IInv adds those     *)
(* facts.  Its preservation is proved once for all operations but one:     *)
(* apart from ClaimRun, which starts attempts and moves the order on,      *)
(* every step is quiet, that is it appends, ends, suspends, holds or       *)
(* answers Runs and starts nothing.                                        *)
(*                                                                         *)
(* The invariants about Tool Calls need the origin of a Tool Call and the  *)
(* reason why it is settled; ToolInv adds them (ToolShape).  It is         *)
(* inductive relative to IInv, and preserved for one reason: every step    *)
(* accounts for the Tool Calls of the attempts it ends and of the Runs it  *)
(* leaves waiting (RunFate).                                               *)
(***************************************************************************)
EXTENDS RunStore, TLAPS

(* Type correctness, one operation at a time *)

\* The absent execution is an execution like any other.
LEMMA NoExecutionTyped == NoExecution \in Execution
BY DEF NoExecution, Execution

\* The record createRun starts from is a Run.
LEMMA AbsentTyped == ASSUME NEW a \in Agent PROVE Absent(a) \in Run
BY NoExecutionTyped DEF Absent, Run, FailureCode

\* The empty Store is well typed.
LEMMA TypeInit == Init => TypeOK
<1> SUFFICES ASSUME Init PROVE TypeOK
  OBVIOUS
<1>1. runs \in [RunId -> Run]
  BY AbsentTyped DEF Init
<1>2. toolCalls \in [ToolCallId -> ToolCall]
  BY BoundsAssumption DEF Init, ToolCall, ToolStatus
<1> QED BY <1>1, <1>2 DEF Init, TypeOK

\* The last answer sends a Run to one of the states of RunState.
LEMMA AnsweredTyped == \A r \in RunId : Answered(r) \in RunState
BY DEF Answered, RunState

\* Interrupting Tool Calls leaves Tool Calls.
LEMMA InterruptedTyped ==
  ASSUME TypeOK, NEW ts \in SUBSET ToolCallId
  PROVE  Interrupted(ts) \in [ToolCallId -> ToolCall]
BY DEF TypeOK, Interrupted, ToolCall, ToolStatus

\* The sets of Tool Calls an operation selects are sets of Tool Calls.
LEMMA ToolSetsTyped ==
  ASSUME NEW r \in RunId
  PROVE  /\ OpenTools(r) \subseteq ToolCallId
         /\ AttemptTools(r) \subseteq ToolCallId
         /\ CancellableTools(r) \subseteq ToolCallId
         /\ InFlight(AttemptTools(r)) \subseteq ToolCallId
         /\ InFlight(CancellableTools(r)) \subseteq ToolCallId
BY DEF OpenTools, AttemptTools, CancellableTools, InFlight

\* A step that replaces one Run by a Run keeps the table of Runs.
LEMMA OneRunTyped ==
  ASSUME TypeOK, NEW r \in RunId, NEW run \in Run, runs' = [runs EXCEPT ![r] = run]
  PROVE  runs' \in [RunId -> Run]
BY DEF TypeOK

\* A step that replaces one Tool Call by a Tool Call keeps their table.
LEMMA OneToolTyped ==
  ASSUME TypeOK, NEW t \in ToolCallId, NEW tool \in ToolCall,
         toolCalls' = [toolCalls EXCEPT ![t] = tool]
  PROVE  toolCalls' \in [ToolCallId -> ToolCall]
BY DEF TypeOK

\* interruptOwner keeps both tables.
LEMMA InterruptOwnerTyped ==
  ASSUME TypeOK, NEW e \in Nat, InterruptOwner(e)
  PROVE  runs' \in [RunId -> Run] /\ toolCalls' \in [ToolCallId -> ToolCall]
<1>1. ASSUME NEW r \in RunId PROVE runs'[r] \in Run
  <2>1. runs[r] \in Run
    BY DEF TypeOK
  <2>2. CASE r \notin LostRuns(e)
    BY <2>1, <2>2 DEF InterruptOwner
  <2>3. CASE r \in LostRuns(e)
    BY <2>1, <2>3, ToolSetsTyped, NoExecutionTyped DEF InterruptOwner, Run, RunState, FailureCode
  <2> QED BY <2>2, <2>3
<1>2. runs' \in [RunId -> Run]
  BY <1>1 DEF InterruptOwner
<1>3. UNION {AttemptTools(r) : r \in LostRuns(e)} \in SUBSET ToolCallId
  BY DEF AttemptTools, OpenTools
<1> QED BY <1>2, <1>3, InterruptedTyped DEF InterruptOwner

\* openOwner, renewOwner, the passing of time and sealAndReleaseOwner keep TypeOK.
LEMMA OwnerStepTyped == TypeOK /\ OwnerStep => TypeOK'
<1> SUFFICES ASSUME TypeOK, OwnerStep PROVE TypeOK'
  OBVIOUS
<1>1. CASE OpenOwner
  BY <1>1, InterruptOwnerTyped DEF OpenOwner, TypeOK
<1>2. CASE ExpireOwner \/ RenewOwner
  BY <1>2 DEF ExpireOwner, RenewOwner, TypeOK
<1>3. ASSUME NEW e \in 1..ownerEpoch, SealAndReleaseOwner(e) PROVE TypeOK'
  BY <1>3, InterruptOwnerTyped DEF SealAndReleaseOwner, TypeOK
<1> QED BY <1>1, <1>2, <1>3 DEF OwnerStep

\* What reviseMessage makes of a Run is a Run.
LEMMA SupersededTyped ==
  ASSUME TypeOK, NEW r \in RunId PROVE Superseded(r) \in Run
<1>1. runs[r] \in Run
  BY DEF TypeOK
<1>2. [runs[r] EXCEPT !.invalidated = TRUE] \in Run
  BY <1>1 DEF Run
<1> QED BY <1>2, NoExecutionTyped DEF Superseded, Run, RunState

\* createRun, cancelRun, answerInteraction and reviseMessage keep TypeOK.
LEMMA HostStepTyped == TypeOK /\ HostStep => TypeOK'
<1> SUFFICES ASSUME TypeOK, HostStep PROVE TypeOK'
  OBVIOUS
<1>0. \A r \in RunId : runs[r] \in Run
  BY DEF TypeOK
<1>1. ASSUME NEW a \in Agent, NEW r \in RunId, ReplyToRun(a, r) PROVE TypeOK'
  <2>1. [runs[r] EXCEPT !.openInteractions = {}, !.state = Answered(r)] \in Run
    BY <1>0, AnsweredTyped DEF Run
  <2> QED BY <1>1, <2>1, OneRunTyped DEF ReplyToRun, TypeOK
<1>2. ASSUME NEW a \in Agent, NEW r \in RunId, NEW control \in BOOLEAN, CreateRun(a, r, control) PROVE TypeOK'
  <2>1. [Absent(a) EXCEPT !.state = "queued", !.control = control] \in Run
    BY NoExecutionTyped DEF Absent, Run, RunState, FailureCode
  <2> QED BY <1>2, <2>1, OneRunTyped DEF CreateRun, TypeOK
<1>3. ASSUME NEW r \in RunId, CancelRun(r) PROVE TypeOK'
  <2> DEFINE inFlight == InFlight(CancellableTools(r))
             cancelled == [runs[r] EXCEPT
               !.openInteractions = {},
               !.state = IF inFlight # {} THEN "failed" ELSE "cancelled",
               !.execution = NoExecution,
               !.failure = IF inFlight # {} THEN "tool_indeterminate" ELSE "none",
               !.indeterminate = inFlight]
  <2>1. inFlight \in SUBSET ToolCallId
    BY ToolSetsTyped
  <2> HIDE DEF inFlight
  <2>2. cancelled \in Run
    BY <1>0, <2>1, NoExecutionTyped DEF Run, RunState, FailureCode
  <2>3. runs' = [runs EXCEPT ![r] = cancelled]
    BY <1>3 DEF CancelRun, inFlight
  <2>4. runs' \in [RunId -> Run]
    BY <2>2, <2>3, OneRunTyped
  <2> QED BY <1>3, <2>4, ToolSetsTyped, InterruptedTyped DEF CancelRun, TypeOK
<1>4. ASSUME NEW r \in RunId, NEW i \in InteractionId, AnswerInteraction(r, i) PROVE TypeOK'
  <2>1. [runs[r] EXCEPT !.openInteractions = runs[r].openInteractions \ {i},
           !.state = IF runs[r].openInteractions # {i} THEN runs[r].state ELSE Answered(r)] \in Run
    BY <1>0, AnsweredTyped DEF Run
  <2> QED BY <1>4, <2>1, OneRunTyped DEF AnswerInteraction, TypeOK
<1>5. ASSUME NEW a \in Agent, NEW from \in 0..MaxRuns, NEW r \in RunId, ReviseMessage(a, from, r) PROVE TypeOK'
  <2>1. [Absent(a) EXCEPT !.state = "queued", !.replacement = TRUE] \in Run
    BY NoExecutionTyped DEF Absent, Run, RunState, FailureCode
  <2>2. runs' \in [RunId -> Run]
    BY <1>0, <1>5, <2>1, SupersededTyped DEF ReviseMessage
  <2>3. toolCalls' \in [ToolCallId -> ToolCall]
    BY <1>5, ToolSetsTyped, InterruptedTyped DEF ReviseMessage, AttemptTools, OpenTools
  <2> QED BY <1>5, <2>2, <2>3 DEF ReviseMessage, TypeOK
<1> QED BY <1>1, <1>2, <1>3, <1>4, <1>5 DEF HostStep

\* What claimRun makes of a Run is a Run.
LEMMA ClaimedTyped ==
  ASSUME NEW run \in Run, NEW n \in Nat, NEW execution \in Execution
  PROVE  [run EXCEPT !.state = "running", !.attempts = n, !.execution = execution] \in Run
BY DEF Run, RunState

\* claimRun and failQueuedRun keep TypeOK.
LEMMA SchedulerStepTyped == TypeOK /\ SchedulerStep => TypeOK'
<1> SUFFICES ASSUME TypeOK, SchedulerStep PROVE TypeOK'
  OBVIOUS
<1>0. \A r \in RunId : runs[r] \in Run
  BY DEF TypeOK
<1>1. ASSUME NEW r \in RunId, ClaimRun(r) PROVE TypeOK'
  <2> DEFINE attempt == runs[r].attempts + 1
             token == [ownerEpoch |-> ownerEpoch, executionId |-> attempt]
             claimed == [runs[r] EXCEPT !.state = "running", !.attempts = attempt,
                                        !.execution = token]
  <2>1. attempt \in Nat /\ ownerEpoch \in Nat
    BY <1>0 DEF TypeOK, Run
  <2>2. runs' = [runs EXCEPT ![r] = claimed]
    BY <1>1 DEF ClaimRun
  <2> HIDE DEF attempt
  <2>3. token \in Execution
    BY <2>1 DEF Execution
  <2> HIDE DEF token
  <2>4. claimed \in Run
    BY <1>0, <2>1, <2>3, ClaimedTyped
  <2> QED BY <1>1, <2>2, <2>4, OneRunTyped DEF ClaimRun, TypeOK
<1>2. ASSUME NEW r \in RunId, FailQueuedRun(r) PROVE TypeOK'
  <2>1. [runs[r] EXCEPT !.state = "failed", !.failure = "configuration_unavailable"] \in Run
    BY <1>0 DEF Run, RunState, FailureCode
  <2> QED BY <1>2, <2>1, OneRunTyped DEF FailQueuedRun, TypeOK
<1> QED BY <1>1, <1>2 DEF SchedulerStep

\* The operations of an executor keep TypeOK, whatever token it presents.
LEMMA ExecutorStepTyped ==
  ASSUME NEW r \in RunId, NEW e \in Tokens(r)
  PROVE  TypeOK /\ ExecutorStep(r, e) => TypeOK'
<1> SUFFICES ASSUME TypeOK, ExecutorStep(r, e) PROVE TypeOK'
  OBVIOUS
<1>0. runs[r] \in Run /\ (\A t \in ToolCallId : toolCalls[t] \in ToolCall)
  BY DEF TypeOK
<1>e. e.executionId \in Nat
  BY <1>0 DEF Tokens, Run
<1>r. r \in 0..MaxRuns
  BY BoundsAssumption DEF RunId
<1>1. ASSUME NEW is \in SUBSET FreeInteractions, NEW allowed \in {{}, OpenTools(r)},
             CommitInputRequired(r, e, is, allowed)
      PROVE  TypeOK'
  <2>1. is \in SUBSET InteractionId /\ allowed \in SUBSET ToolCallId
    BY ToolSetsTyped DEF FreeInteractions
  <2>2. [runs[r] EXCEPT !.state = "input_required", !.openInteractions = is,
           !.checkpoint = TRUE, !.waiting = allowed, !.execution = NoExecution] \in Run
    BY <1>0, <2>1, NoExecutionTyped DEF Run, RunState
  <2> QED BY <1>1, <2>2, OneRunTyped DEF CommitInputRequired, TypeOK
<1>2. ASSUME NEW i \in FreeInteractions, RaiseInteraction(r, e, i) PROVE TypeOK'
  <2>1. i \in InteractionId
    BY DEF FreeInteractions
  <2>2. [runs[r] EXCEPT !.state = "input_required",
           !.openInteractions = runs[r].openInteractions \cup {i}] \in Run
    BY <1>0, <2>1 DEF Run, RunState
  <2> QED BY <1>2, <2>2, OneRunTyped DEF RaiseInteraction, TypeOK
<1>3. ASSUME NEW ts \in SUBSET UnusedToolCalls, ReserveToolCalls(r, e, ts) PROVE TypeOK'
  <2>1. [runId |-> r, status |-> "pending", executionId |-> e.executionId,
         external |-> FALSE, committed |-> FALSE] \in ToolCall
    BY <1>e, <1>r DEF ToolCall, ToolStatus
  <2>2. toolCalls' \in [ToolCallId -> ToolCall]
    BY <1>0, <1>3, <2>1 DEF ReserveToolCalls
  <2> QED BY <1>3, <2>2 DEF ReserveToolCalls, TypeOK
<1>4. ASSUME NEW t \in ToolCallId, StartToolCall(r, e, t) PROVE TypeOK'
  <2>1. [toolCalls[t] EXCEPT !.status = "in_progress", !.executionId = e.executionId] \in ToolCall
    BY <1>0, <1>e DEF ToolCall, ToolStatus
  <2> QED BY <1>4, <2>1, OneToolTyped DEF StartToolCall, TypeOK
<1>5. ASSUME NEW t \in ToolCallId, SuspendToolCall(r, e, t) PROVE TypeOK'
  <2>1. [toolCalls[t] EXCEPT !.status = "pending"] \in ToolCall
    BY <1>0 DEF ToolCall, ToolStatus
  <2> QED BY <1>5, <2>1, OneToolTyped DEF SuspendToolCall, TypeOK
<1>6. ASSUME NEW t \in ToolCallId, NEW state \in {"completed", "failed"},
             CommitToolResult(r, e, t, state)
      PROVE  TypeOK'
  <2>1. [toolCalls[t] EXCEPT !.status = state, !.committed = TRUE] \in ToolCall
    BY <1>0 DEF ToolCall, ToolStatus
  <2> QED BY <1>6, <2>1, OneToolTyped DEF CommitToolResult, TypeOK
<1>7. ASSUME NEW t \in ToolCallId, CommitIndeterminate(r, e, t) PROVE TypeOK'
  <2> DEFINE others == AttemptTools(r) \ {t}
             unknown == {t} \cup InFlight(others)
  <2>1. others \in SUBSET ToolCallId /\ unknown \in SUBSET ToolCallId
    BY ToolSetsTyped DEF InFlight
  <2>2. Interrupted(others) \in [ToolCallId -> ToolCall]
    BY <2>1, InterruptedTyped
  <2>3. runs' = [runs EXCEPT ![r] = [runs[r] EXCEPT !.state = "failed",
           !.execution = NoExecution, !.failure = "tool_indeterminate",
           !.indeterminate = unknown]]
    BY <1>7 DEF CommitIndeterminate
  <2>4. toolCalls' = [Interrupted(others) EXCEPT ![t] =
           [Interrupted(others)[t] EXCEPT !.status = "failed", !.committed = TRUE]]
    BY <1>7 DEF CommitIndeterminate
  <2> HIDE DEF others, unknown
  <2>5. [runs[r] EXCEPT !.state = "failed", !.execution = NoExecution,
           !.failure = "tool_indeterminate", !.indeterminate = unknown] \in Run
    BY <1>0, <2>1, NoExecutionTyped DEF Run, RunState, FailureCode
  <2>6. Interrupted(others)[t] \in ToolCall
    BY <2>2
  <2>7. [Interrupted(others)[t] EXCEPT !.status = "failed", !.committed = TRUE] \in ToolCall
    BY <2>6 DEF ToolCall, ToolStatus
  <2>8. toolCalls' \in [ToolCallId -> ToolCall]
    BY <2>2, <2>4, <2>7
  <2> QED BY <1>7, <2>3, <2>5, <2>8, OneRunTyped DEF CommitIndeterminate, TypeOK
<1>8. ASSUME NEW t \in ToolCallId, NEW status \in ToolStatus \ {"absent"},
             RecordToolCall(r, e, t, status)
      PROVE  TypeOK'
  <2>1. [runId |-> r, status |-> status, executionId |-> e.executionId,
         external |-> TRUE, committed |-> FALSE] \in ToolCall
    BY <1>e, <1>r DEF ToolCall
  <2>2. [toolCalls[t] EXCEPT !.status = status] \in ToolCall
    BY <1>0 DEF ToolCall
  <2> QED BY <1>8, <2>1, <2>2, OneToolTyped DEF RecordToolCall, TypeOK
<1>9. ASSUME NEW outcome \in {"completed", "failed"}, CommitOutcome(r, e, outcome) PROVE TypeOK'
  <2>1. [runs[r] EXCEPT !.state = outcome, !.openInteractions = {},
           !.execution = NoExecution,
           !.failure = IF outcome = "failed" THEN "execution_failed" ELSE "none"] \in Run
    BY <1>0, NoExecutionTyped DEF Run, RunState, FailureCode
  <2> QED BY <1>9, <2>1, OneRunTyped DEF CommitOutcome, TypeOK
<1> QED
  BY <1>1, <1>2, <1>3, <1>4, <1>5, <1>6, <1>7, <1>8, <1>9 DEF ExecutorStep, OwnToolCalls

\* TypeOK is inductive on its own.
THEOREM TypeCorrect == Spec => []TypeOK
<1>1. TypeOK /\ [Next]_vars => TypeOK'
  <2> SUFFICES ASSUME TypeOK, [Next]_vars PROVE TypeOK'
    OBVIOUS
  <2>1. CASE Next
    BY <2>1, OwnerStepTyped, HostStepTyped, SchedulerStepTyped, ExecutorStepTyped DEF Next
  <2>2. CASE UNCHANGED vars
    BY <2>2 DEF vars, TypeOK
  <2> QED BY <2>1, <2>2
<1> QED BY <1>1, TypeInit, PTL DEF Spec

-----------------------------------------------------------------------------
(* The inductive invariant *)

\* What a Run's state says of its attempt: a running Run has one, only a live Run has
\* one, a Run not yet created was never claimed, a suspended one left a checkpoint.
RunShape(r) ==
  /\ runs[r].state = "running" => HasExecution(r)
  /\ HasExecution(r) => runs[r].state \in Live
  /\ runs[r].state = "absent" => runs[r].attempts = 0
  /\ runs[r].state = "input_required" /\ ~HasExecution(r) => runs[r].checkpoint

\* nextSequence leaves no gap.
CreatedInOrder == \A q, r \in RunId : Exists(r) /\ q < r => Exists(q)

IInv ==
  /\ TypeOK
  /\ \A r \in RunId : RunShape(r)
  /\ CreatedInOrder
  /\ FenceNamesNewestAttempt
  /\ OneAttemptPerAgent
  /\ StartedInOrder
  /\ RetriedOnlyFromCheckpoint
  /\ InputRequiredIffOpen

-----------------------------------------------------------------------------
(* What a step other than a claim may do to one Run *)

\* What only createRun sets and only claimRun counts stays.
Kept(r) == /\ runs'[r].agentId = runs[r].agentId
           /\ runs'[r].control = runs[r].control
           /\ runs'[r].attempts = runs[r].attempts

\* createRun, reviseMessage: a new Run is queued.
AppendedRun(r) == /\ IsNext(r)
                  /\ runs'[r].state = "queued"
                  /\ runs'[r].attempts = 0
                  /\ runs'[r].execution = NoExecution
                  /\ runs'[r].openInteractions = {}

\* Any operation that ends a Run, or touches one that has ended.
EndedRun(r) == /\ Kept(r)
               /\ Exists(r)
               /\ runs'[r].state \in Terminal
               /\ runs'[r].execution = NoExecution
               /\ runs[r].state \in Terminal =>
                    /\ runs'[r].state = runs[r].state
                    /\ runs'[r].failure = runs[r].failure

\* commitInputRequired.
SuspendedRun(r) == /\ Kept(r)
                   /\ runs[r].state = "running"
                   /\ HasExecution(r)
                   /\ runs'[r].state = "input_required"
                   /\ runs'[r].execution = NoExecution
                   /\ runs'[r].openInteractions # {}
                   /\ runs'[r].checkpoint

\* raiseInteraction.
HeldRun(r) == /\ Kept(r)
              /\ runs[r].state \in Live
              /\ HasExecution(r)
              /\ runs'[r].state = "input_required"
              /\ runs'[r].execution = runs[r].execution
              /\ runs'[r].openInteractions # {}

\* answerInteraction, or a reply through createRun.
RepliedRun(r) == /\ Kept(r)
                 /\ runs[r].state = "input_required"
                 /\ runs'[r].execution = runs[r].execution
                 /\ runs'[r].checkpoint = runs[r].checkpoint
                 /\ \/ /\ runs'[r].openInteractions # {}
                       /\ runs'[r].state = "input_required"
                    \/ /\ runs'[r].openInteractions = {}
                       /\ runs'[r].state = Answered(r)

RunStep(r) == \/ runs'[r] = runs[r]
              \/ AppendedRun(r)
              \/ EndedRun(r)
              \/ SuspendedRun(r)
              \/ HeldRun(r)
              \/ RepliedRun(r)

\* The owner is still the same, or no attempt is left.
OwnerKept == \/ ownerEpoch' = ownerEpoch /\ (lease' = "none" => lease = "none")
             \/ \A r \in RunId : runs'[r].execution = NoExecution

QuietStep == (\A r \in RunId : RunStep(r)) /\ OwnerKept

\* The empty Store satisfies the inductive invariant.
LEMMA InitInductive == Init => IInv
<1> SUFFICES ASSUME Init PROVE IInv
  OBVIOUS
<1>1. TypeOK
  BY TypeInit
<1>2. \A r \in RunId : /\ runs[r].state = "absent"
                       /\ runs[r].execution = NoExecution
                       /\ runs[r].attempts = 0
                       /\ runs[r].openInteractions = {}
  BY DEF Init, Absent
<1> QED
  BY <1>1, <1>2 DEF IInv, RunShape, CreatedInOrder, FenceNamesNewestAttempt,
     OneAttemptPerAgent, StartedInOrder, RetriedOnlyFromCheckpoint,
     InputRequiredIffOpen, HasExecution, Exists, Terminal, Live

\* A quiet step preserves the inductive invariant.
LEMMA QuietStepInductive ==
  ASSUME IInv, TypeOK', QuietStep
  PROVE  IInv'
<1> USE DEF IInv, QuietStep
<1>0. \A r \in RunId : runs[r] \in Run /\ runs'[r] \in Run
  BY DEF TypeOK
<1>1. \A r \in RunId : RunShape(r)'
  BY <1>0 DEF RunShape, RunStep, Kept, AppendedRun, EndedRun, SuspendedRun, HeldRun,
     RepliedRun, Answered, HasExecution, Exists, Terminal, Live
<1>2. \A r \in RunId : HasExecution(r)' =>
        HasExecution(r) /\ runs'[r].execution = runs[r].execution /\ Kept(r)
  BY DEF RunStep, Kept, AppendedRun, EndedRun, SuspendedRun, HeldRun, RepliedRun, HasExecution
<1>3. \A r \in RunId : Exists(r) => Exists(r)' /\ Kept(r)
  BY DEF RunStep, Kept, AppendedRun, EndedRun, SuspendedRun, HeldRun, RepliedRun,
     Answered, Exists, IsNext, Terminal
<1>4. \A r \in RunId : runs[r].state \in Terminal => runs'[r].state \in Terminal
  BY DEF RunStep, AppendedRun, EndedRun, SuspendedRun, HeldRun, RepliedRun,
     Exists, IsNext, Terminal, Live
<1>5. \A r \in RunId : Exists(r)' => Exists(r) \/ IsNext(r)
  BY DEF RunStep, AppendedRun, EndedRun, SuspendedRun, HeldRun, RepliedRun, Exists, Terminal, Live
<1>6. \A r \in RunId : runs'[r].attempts > 0 => Exists(r) /\ runs[r].attempts > 0
  BY <1>0 DEF RunStep, Kept, AppendedRun, EndedRun, SuspendedRun, HeldRun, RepliedRun, RunShape,
     Exists, Run, Live, Terminal
<1>7. CreatedInOrder'
  BY <1>3, <1>5 DEF CreatedInOrder, IsNext
<1>8. FenceNamesNewestAttempt'
  BY <1>2 DEF OwnerKept, FenceNamesNewestAttempt, Kept, HasExecution
<1>9. OneAttemptPerAgent'
  BY <1>2 DEF OneAttemptPerAgent, Kept
<1>10. StartedInOrder'
  BY <1>3, <1>4, <1>6 DEF StartedInOrder, CreatedInOrder, Kept
<1>11. RetriedOnlyFromCheckpoint'
  BY <1>0, <1>1, <1>6 DEF RetriedOnlyFromCheckpoint, RunShape, RunStep, Kept, AppendedRun, EndedRun,
     SuspendedRun, HeldRun, RepliedRun, Answered, HasExecution, Exists, Terminal, Live
<1>12. InputRequiredIffOpen'
  BY <1>0 DEF InputRequiredIffOpen, RunStep, AppendedRun, EndedRun, SuspendedRun, HeldRun,
     RepliedRun, Answered, Terminal, Live
<1> QED BY <1>1, <1>7, <1>8, <1>9, <1>10, <1>11, <1>12

-----------------------------------------------------------------------------
(* Every step but a claim is quiet *)

\* interruptOwner ends the Runs it touches.
LEMMA InterruptOwnerQuiet ==
  ASSUME IInv, NEW e \in Nat, InterruptOwner(e)
  PROVE  \A r \in RunId : RunStep(r)
<1> SUFFICES ASSUME NEW r \in RunId PROVE RunStep(r)
  OBVIOUS
<1>1. runs[r] \in Run
  BY DEF IInv, TypeOK
<1>2. CASE r \notin LostRuns(e)
  BY <1>2 DEF InterruptOwner, RunStep
<1>3. CASE r \in LostRuns(e)
  BY <1>1, <1>3 DEF InterruptOwner, LostRuns, RunStep, EndedRun, Kept, Run, Exists, Terminal, Live
<1> QED BY <1>2, <1>3

\* Owner operations are quiet: when the epoch changes, no attempt is left.
LEMMA OwnerStepQuiet ==
  ASSUME IInv, OwnerStep
  PROVE  QuietStep
<1>0. \A r \in RunId : runs[r] \in Run
  BY DEF IInv, TypeOK
<1>0a. ownerEpoch \in Nat
  BY DEF IInv, TypeOK
\* The epoch in force owns every attempt, so interrupting it loses them all.
<1>0b. \A r \in RunId : r \notin LostRuns(ownerEpoch) => runs[r].execution = NoExecution
  <2> SUFFICES ASSUME NEW r \in RunId, HasExecution(r) PROVE r \in LostRuns(ownerEpoch)
    BY DEF HasExecution
  <2>1. runs[r].execution = [ownerEpoch |-> ownerEpoch, executionId |-> runs[r].attempts]
    BY DEF IInv, FenceNamesNewestAttempt
  <2>2. runs[r].execution.ownerEpoch = ownerEpoch
    BY <2>1
  <2> QED BY <1>0a, <2>2 DEF IInv, RunShape, LostRuns
<1>0c. InterruptOwner(ownerEpoch) => \A r \in RunId : runs'[r].execution = NoExecution
  <2> SUFFICES ASSUME InterruptOwner(ownerEpoch), NEW r \in RunId
               PROVE  runs'[r].execution = NoExecution
    OBVIOUS
  <2>1. CASE r \notin LostRuns(ownerEpoch)
    BY <1>0b, <2>1 DEF InterruptOwner
  <2>2. CASE r \in LostRuns(ownerEpoch)
    BY <1>0, <2>2 DEF InterruptOwner, Run
  <2> QED BY <2>1, <2>2
<1>1. CASE OpenOwner
  <2>1. CASE lease = "expired"
    BY <1>0a, <1>0c, <1>1, <2>1, InterruptOwnerQuiet DEF OpenOwner, QuietStep, OwnerKept
  <2>2. CASE lease # "expired"
    <3>1. lease = "none" /\ runs' = runs
      BY <1>1, <2>2 DEF OpenOwner, IInv, TypeOK
    <3>2. \A r \in RunId : runs'[r].execution = NoExecution
      BY <3>1 DEF IInv, FenceNamesNewestAttempt, HasExecution
    <3> QED BY <3>1, <3>2 DEF QuietStep, RunStep, OwnerKept
  <2> QED BY <2>1, <2>2
<1>2. CASE ExpireOwner \/ RenewOwner
  BY <1>2 DEF ExpireOwner, RenewOwner, QuietStep, RunStep, OwnerKept
<1>3. ASSUME NEW e \in 1..ownerEpoch, SealAndReleaseOwner(e) PROVE QuietStep
  <2>1. \A r \in RunId : RunStep(r)
    BY <1>3, InterruptOwnerQuiet DEF SealAndReleaseOwner
  <2>2. CASE e = ownerEpoch
    BY <1>0c, <1>3, <2>1, <2>2 DEF SealAndReleaseOwner, QuietStep, OwnerKept
  <2>3. CASE e # ownerEpoch
    BY <1>3, <2>1, <2>3 DEF SealAndReleaseOwner, QuietStep, OwnerKept
  <2> QED BY <2>2, <2>3
<1> QED BY <1>1, <1>2, <1>3 DEF OwnerStep

\* A step that replaces one Run and keeps the owner.
LEMMA OneRunQuiet ==
  ASSUME IInv, NEW r \in RunId, NEW run, runs' = [runs EXCEPT ![r] = run],
         UNCHANGED <<lease, ownerEpoch>>, RunStep(r)
  PROVE  QuietStep
<1>1. \A q \in RunId \ {r} : runs'[q] = runs[q]
  BY DEF IInv, TypeOK
<1> QED BY <1>1 DEF QuietStep, RunStep, OwnerKept

\* Host operations are quiet: they append, answer and end Runs.
LEMMA HostStepQuiet ==
  ASSUME IInv, HostStep
  PROVE  QuietStep
<1>0. \A r \in RunId : runs[r] \in Run
  BY DEF IInv, TypeOK
<1>0a. \A r \in RunId : runs \in [RunId -> Run]
  BY DEF IInv, TypeOK
<1>1. ASSUME NEW a \in Agent, NEW r \in RunId, ReplyToRun(a, r) PROVE QuietStep
  <2>1. runs'[r] = [runs[r] EXCEPT !.openInteractions = {}, !.state = Answered(r)]
    BY <1>0a, <1>1 DEF ReplyToRun
  <2>2. runs[r].state = "input_required"
    BY <1>1 DEF ReplyToRun, WaitingRuns
  <2>3. RepliedRun(r)
    BY <1>0, <2>1, <2>2 DEF RepliedRun, Kept, Run
  <2> QED BY <1>1, <2>3, OneRunQuiet DEF ReplyToRun, RunStep
<1>2. ASSUME NEW a \in Agent, NEW r \in RunId, NEW control \in BOOLEAN, CreateRun(a, r, control)
      PROVE  QuietStep
  <2>1. runs'[r] = [Absent(a) EXCEPT !.state = "queued", !.control = control]
    BY <1>0a, <1>2 DEF CreateRun
  <2>2. IsNext(r)
    BY <1>2 DEF CreateRun
  <2>3. AppendedRun(r)
    BY <2>1, <2>2 DEF AppendedRun, Absent
  <2> QED BY <1>2, <2>3, OneRunQuiet DEF CreateRun, RunStep
<1>3. ASSUME NEW r \in RunId, CancelRun(r) PROVE QuietStep
  <2> DEFINE inFlight == InFlight(CancellableTools(r))
             cancelled == [runs[r] EXCEPT
               !.openInteractions = {},
               !.state = IF inFlight # {} THEN "failed" ELSE "cancelled",
               !.execution = NoExecution,
               !.failure = IF inFlight # {} THEN "tool_indeterminate" ELSE "none",
               !.indeterminate = inFlight]
  <2>1. runs' = [runs EXCEPT ![r] = cancelled]
    BY <1>3 DEF CancelRun
  <2>2. runs'[r] = cancelled
    BY <1>0a, <2>1
  <2>3. Exists(r) /\ runs[r].state \notin Terminal
    BY <1>3 DEF CancelRun
  <2> HIDE DEF inFlight
  <2>4. EndedRun(r)
    BY <1>0, <2>2, <2>3 DEF EndedRun, Kept, Run, Terminal
  <2> QED BY <1>3, <2>1, <2>4, OneRunQuiet DEF CancelRun, RunStep
<1>4. ASSUME NEW r \in RunId, NEW i \in InteractionId, AnswerInteraction(r, i) PROVE QuietStep
  <2>1. runs'[r] = [runs[r] EXCEPT !.openInteractions = runs[r].openInteractions \ {i},
           !.state = IF runs[r].openInteractions # {i} THEN runs[r].state ELSE Answered(r)]
    BY <1>0a, <1>4 DEF AnswerInteraction
  <2>2. i \in runs[r].openInteractions /\ runs[r].state = "input_required"
    BY <1>4 DEF AnswerInteraction
  <2>3. RepliedRun(r)
    BY <1>0, <2>1, <2>2 DEF RepliedRun, Kept, Run
  <2> QED BY <1>4, <2>3, OneRunQuiet DEF AnswerInteraction, RunStep
<1>5. ASSUME NEW a \in Agent, NEW from \in 0..MaxRuns, NEW r \in RunId, ReviseMessage(a, from, r)
      PROVE  QuietStep
  <2> DEFINE affected == {q \in RunsOf(a) : q >= from}
  <2>1. ASSUME NEW q \in RunId PROVE RunStep(q)
    <3>1. CASE q \in affected
      <4>1. runs'[q] = Superseded(q)
        BY <1>5, <3>1 DEF ReviseMessage
      <4>2. Exists(q)
        BY <3>1 DEF RunsOf
      <4>3. EndedRun(q)
        BY <1>0, <4>1, <4>2 DEF EndedRun, Kept, Superseded, Run, RunState, Terminal,
           IInv, RunShape, HasExecution, Live
      <4> QED BY <4>3 DEF RunStep
    <3>2. CASE q \notin affected /\ q = r
      <4>1. runs'[q] = [Absent(a) EXCEPT !.state = "queued", !.replacement = TRUE]
        BY <1>5, <3>2 DEF ReviseMessage
      <4>2. IsNext(q)
        BY <1>5, <3>2 DEF ReviseMessage
      <4> QED BY <4>1, <4>2 DEF RunStep, AppendedRun, Absent
    <3>3. CASE q \notin affected /\ q # r
      BY <1>5, <3>3 DEF ReviseMessage, RunStep
    <3> QED BY <3>1, <3>2, <3>3
  <2> QED BY <1>5, <2>1 DEF ReviseMessage, QuietStep, OwnerKept
<1> QED BY <1>1, <1>2, <1>3, <1>4, <1>5 DEF HostStep

\* failQueuedRun is quiet: it ends its Run.
LEMMA FailQueuedRunQuiet ==
  ASSUME IInv, NEW r \in RunId, FailQueuedRun(r)
  PROVE  QuietStep
<1>0. runs \in [RunId -> Run] /\ runs[r] \in Run
  BY DEF IInv, TypeOK
<1>1. runs'[r] = [runs[r] EXCEPT !.state = "failed", !.failure = "configuration_unavailable"]
  BY <1>0 DEF FailQueuedRun
<1>2. EndedRun(r)
  BY <1>0, <1>1 DEF FailQueuedRun, EndedRun, Kept, Run, Exists, Terminal,
     IInv, RunShape, HasExecution, Live
<1> QED BY <1>2, OneRunQuiet DEF FailQueuedRun, RunStep

\* Executor operations are quiet: they suspend, hold or end the Run of their token.
LEMMA ExecutorStepQuiet ==
  ASSUME IInv, NEW r \in RunId, NEW e \in Tokens(r), ExecutorStep(r, e)
  PROVE  QuietStep
<1>0. runs \in [RunId -> Run] /\ runs[r] \in Run
  BY DEF IInv, TypeOK
<1>1. ASSUME NEW is \in (SUBSET FreeInteractions) \ {{}}, NEW allowed \in {{}, OpenTools(r)},
             CommitInputRequired(r, e, is, allowed)
      PROVE  QuietStep
  <2>1. runs'[r] = [runs[r] EXCEPT !.state = "input_required", !.openInteractions = is,
           !.checkpoint = TRUE, !.waiting = allowed, !.execution = NoExecution]
    BY <1>0, <1>1 DEF CommitInputRequired
  <2>2. runs[r].state = "running" /\ HasExecution(r) /\ is # {}
    BY <1>1 DEF CommitInputRequired, AssertExecution
  <2>3. SuspendedRun(r)
    BY <1>0, <2>1, <2>2 DEF SuspendedRun, Kept, Run
  <2> QED BY <1>1, <2>3, OneRunQuiet DEF CommitInputRequired, RunStep
<1>2. ASSUME NEW i \in FreeInteractions, RaiseInteraction(r, e, i) PROVE QuietStep
  <2>1. runs'[r] = [runs[r] EXCEPT !.state = "input_required",
           !.openInteractions = runs[r].openInteractions \cup {i}]
    BY <1>0, <1>2 DEF RaiseInteraction
  <2>2. HeldRun(r)
    BY <1>0, <1>2, <2>1 DEF RaiseInteraction, AssertExecution, HeldRun, Kept, Run
  <2> QED BY <1>2, <2>2, OneRunQuiet DEF RaiseInteraction, RunStep
<1>3. ASSUME UNCHANGED <<lease, ownerEpoch, runs>> PROVE QuietStep
  BY <1>3 DEF QuietStep, RunStep, OwnerKept
<1>4. ASSUME NEW t \in ToolCallId, CommitIndeterminate(r, e, t) PROVE QuietStep
  <2> DEFINE unknown == {t} \cup InFlight(AttemptTools(r) \ {t})
  <2>1. runs' = [runs EXCEPT ![r] = [runs[r] EXCEPT !.state = "failed",
           !.execution = NoExecution, !.failure = "tool_indeterminate",
           !.indeterminate = unknown]]
    BY <1>4 DEF CommitIndeterminate
  <2> HIDE DEF unknown
  <2>2. runs'[r] = [runs[r] EXCEPT !.state = "failed", !.execution = NoExecution,
           !.failure = "tool_indeterminate", !.indeterminate = unknown]
    BY <1>0, <2>1
  <2>3. EndedRun(r)
    BY <1>0, <1>4, <2>2 DEF CommitIndeterminate, AssertExecution, EndedRun, Kept, Run,
       Exists, Terminal, Live
  <2> QED BY <1>4, <2>1, <2>3, OneRunQuiet DEF CommitIndeterminate, RunStep
<1>5. ASSUME NEW outcome \in {"completed", "failed"}, CommitOutcome(r, e, outcome)
      PROVE  QuietStep
  <2>1. runs'[r] = [runs[r] EXCEPT !.state = outcome, !.openInteractions = {},
           !.execution = NoExecution,
           !.failure = IF outcome = "failed" THEN "execution_failed" ELSE "none"]
    BY <1>0, <1>5 DEF CommitOutcome
  <2>2. EndedRun(r)
    BY <1>0, <1>5, <2>1 DEF CommitOutcome, AssertExecution, EndedRun, Kept, Run,
       Exists, Terminal, Live
  <2> QED BY <1>5, <2>2, OneRunQuiet DEF CommitOutcome, RunStep
<1> QED
  BY <1>1, <1>2, <1>3, <1>4, <1>5 DEF ExecutorStep, OwnToolCalls, ReserveToolCalls,
     StartToolCall, SuspendToolCall, CommitToolResult, RecordToolCall

-----------------------------------------------------------------------------
(* Claims *)

\* claimRun's two scans are what keeps one attempt per Agent, and its order.
LEMMA ClaimRunInductive ==
  ASSUME IInv, TypeOK', NEW r \in RunId, ClaimRun(r)
  PROVE  IInv'
<1>0. runs \in [RunId -> Run] /\ runs[r] \in Run /\ ownerEpoch \in Nat
  BY DEF IInv, TypeOK
<1> DEFINE token == [ownerEpoch |-> ownerEpoch, executionId |-> runs[r].attempts + 1]
<1>1. runs'[r] = [runs[r] EXCEPT !.state = "running", !.attempts = runs[r].attempts + 1,
                                 !.execution = token]
  BY <1>0 DEF ClaimRun
<1>2. \A q \in RunId \ {r} : runs'[q] = runs[q]
  BY <1>0 DEF ClaimRun
<1>3. /\ runs'[r].state = "running"
      /\ runs'[r].attempts = runs[r].attempts + 1
      /\ runs'[r].execution = token
      /\ runs'[r].agentId = runs[r].agentId
      /\ runs'[r].control = runs[r].control
      /\ runs'[r].openInteractions = runs[r].openInteractions
  BY <1>0, <1>1 DEF Run
<1>4. runs[r].attempts \in Nat
  BY <1>0 DEF Run
<1>5. token # NoExecution
  BY <1>0, <1>4 DEF NoExecution
<1>6. runs[r].state = "queued" /\ lease = "live" /\ UNCHANGED <<lease, ownerEpoch>>
  BY DEF ClaimRun, AssertOwner
<1> HIDE DEF token
<1>7. \A q \in RunId : RunShape(q)'
  BY <1>2, <1>3, <1>5 DEF IInv, RunShape, HasExecution, Live
<1>8. CreatedInOrder'
  BY <1>2, <1>3, <1>6 DEF IInv, CreatedInOrder, Exists
<1>9. FenceNamesNewestAttempt'
  <2>1. ASSUME NEW q \in RunId, HasExecution(q)'
        PROVE  runs'[q].execution = [ownerEpoch |-> ownerEpoch', executionId |-> runs'[q].attempts]
    <3>1. CASE q = r
      BY <1>3, <1>6, <3>1 DEF token
    <3>2. CASE q # r
      BY <1>2, <1>6, <2>1, <3>2 DEF IInv, FenceNamesNewestAttempt, HasExecution
    <3> QED BY <3>1, <3>2
  <2> QED BY <1>6, <2>1 DEF FenceNamesNewestAttempt
<1>10. \A q \in RunId \ {r} : HasExecution(q) => runs[q].agentId # runs[r].agentId
  <2> SUFFICES ASSUME NEW q \in RunId \ {r}, HasExecution(q), runs[q].agentId = runs[r].agentId
               PROVE  FALSE
    OBVIOUS
  <2>1. runs[q].state \in Live
    BY DEF IInv, RunShape
  <2>2. q \in Others(r)
    BY <2>1 DEF Others, RunsOf, Exists, Live
  <2> QED BY <2>1, <2>2 DEF ClaimRun, NoOtherAttempt, Live
<1>11. OneAttemptPerAgent'
  BY <1>2, <1>3, <1>10 DEF IInv, OneAttemptPerAgent, HasExecution
<1>12. ASSUME NEW q \in RunId, q < r, Exists(q), ~runs[r].control,
              runs[q].agentId = runs[r].agentId
       PROVE  runs[q].state \in Terminal
  <2>1. q \in Others(r)
    BY <1>12, BoundsAssumption DEF Others, RunsOf, RunId
  <2> QED BY <1>12, <2>1 DEF ClaimRun, NothingUnfinishedBefore
<1>13. StartedInOrder'
  <2> SUFFICES ASSUME NEW p \in RunId, NEW q \in RunId, Exists(p)', p < q,
                      runs'[q].attempts > 0, ~runs'[q].control,
                      runs'[p].agentId = runs'[q].agentId
               PROVE  runs'[p].state \in Terminal
    BY DEF StartedInOrder
  <2>1. Exists(p)
    BY <1>2, <1>6 DEF Exists
  <2>2. runs[p].agentId = runs[q].agentId /\ ~runs[q].control
    BY <1>2, <1>3
  <2>3. runs[p].state \in Terminal
    <3>1. CASE q = r
      BY <1>12, <2>1, <2>2, <3>1
    <3>2. CASE q # r
      BY <1>2, <2>1, <2>2, <3>2 DEF IInv, StartedInOrder
    <3> QED BY <3>1, <3>2
  <2>4. p # r
    BY <1>6, <2>3 DEF Terminal
  <2> QED BY <1>2, <2>3, <2>4
<1>14. RetriedOnlyFromCheckpoint'
  BY <1>2, <1>3 DEF IInv, RetriedOnlyFromCheckpoint, HasExecution
<1>15. InputRequiredIffOpen'
  BY <1>2, <1>3, <1>6 DEF IInv, InputRequiredIffOpen, Terminal
<1> QED BY <1>7, <1>8, <1>9, <1>11, <1>13, <1>14, <1>15 DEF IInv

-----------------------------------------------------------------------------
(* Theorems *)

\* Every step is quiet or a claim.
LEMMA NextQuietOrClaim ==
  ASSUME IInv, [Next]_vars
  PROVE  QuietStep \/ \E r \in RunId : ClaimRun(r)
<1>1. CASE OwnerStep
  BY <1>1, OwnerStepQuiet
<1>2. CASE HostStep
  BY <1>2, HostStepQuiet
<1>3. CASE SchedulerStep
  BY <1>3, FailQueuedRunQuiet DEF SchedulerStep
<1>4. ASSUME NEW r \in RunId, NEW e \in Tokens(r), ExecutorStep(r, e) PROVE QuietStep
  BY <1>4, ExecutorStepQuiet
<1>5. CASE UNCHANGED vars
  BY <1>5 DEF vars, QuietStep, RunStep, OwnerKept
<1> QED BY <1>1, <1>2, <1>3, <1>4, <1>5 DEF Next

\* IInv holds in every reachable state: it holds initially, quiet steps and claims
\* preserve it, and there is no other step.
THEOREM Inductive == Spec => []IInv
<1>1. TypeOK /\ [Next]_vars => TypeOK'
  BY OwnerStepTyped, HostStepTyped, SchedulerStepTyped, ExecutorStepTyped DEF Next, vars, TypeOK
<1>2. IInv /\ [Next]_vars => IInv'
  <2> SUFFICES ASSUME IInv, [Next]_vars PROVE IInv'
    OBVIOUS
  <2>1. TypeOK'
    BY <1>1 DEF IInv
  <2> QED BY <2>1, NextQuietOrClaim, QuietStepInductive, ClaimRunInductive
<1> QED BY <1>2, InitInductive, PTL DEF Spec

\* No token of an ended attempt or of an earlier owner passes the fence again.
THEOREM FencedByNewestAttempt == Spec => []FenceNamesNewestAttempt
BY Inductive, PTL DEF IInv

\* An Agent never has two attempts at once.
THEOREM OneAttemptAtATime == Spec => []OneAttemptPerAgent
BY Inductive, PTL DEF IInv

\* User Runs of an Agent start in creation order, each after all before it ended.
THEOREM InOrder == Spec => []StartedInOrder
BY Inductive, PTL DEF IInv

\* A Run is retried only from a checkpoint.
THEOREM NoSilentRetry == Spec => []RetriedOnlyFromCheckpoint
BY Inductive, PTL DEF IInv

\* input_required means exactly that an Interaction is pending.
THEOREM WaitsIffAsked == Spec => []InputRequiredIffOpen
BY Inductive, PTL DEF IInv

\* A Run that ended stays ended with the failure it reported.
THEOREM EndedForGood == Spec => EndedRunsStay
<1>1. ASSUME IInv, [Next]_vars, NEW r \in RunId PROVE EndedRunStays(r)
  <2> SUFFICES ASSUME runs[r].state \in Terminal
               PROVE  /\ runs'[r].state = runs[r].state
                      /\ runs'[r].failure = runs[r].failure
                      /\ runs'[r].execution = NoExecution
    BY DEF EndedRunStays
  <2>1. runs[r].execution = NoExecution
    BY <1>1 DEF IInv, RunShape, HasExecution, Live, Terminal
  <2>2. CASE QuietStep
    BY <2>1, <2>2 DEF QuietStep, RunStep, AppendedRun, EndedRun, SuspendedRun, HeldRun,
       RepliedRun, IsNext, Exists, Terminal, Live
  <2>3. ASSUME NEW q \in RunId, ClaimRun(q) PROVE runs'[r] = runs[r]
    <3>1. q # r
      BY <2>3 DEF ClaimRun, Terminal
    <3> QED BY <1>1, <2>3, <3>1 DEF ClaimRun, IInv, TypeOK
  <2> QED BY <1>1, <2>1, <2>2, <2>3, NextQuietOrClaim
<1>2. IInv /\ [Next]_vars => [\A r \in RunId : EndedRunStays(r)]_vars
  BY <1>1
<1> QED BY <1>2, Inductive, PTL DEF Spec, EndedRunsStay

\* A new owner ends every attempt it finds and touches no Run without one.
THEOREM TakeoverComplete == Spec => TakeoverEndsAttempts
<1>1. ASSUME IInv, OpenOwner, NEW r \in RunId, Exists(r) PROVE TakenOver(r)
  <2>0. runs \in [RunId -> Run] /\ toolCalls \in [ToolCallId -> ToolCall] /\ ownerEpoch \in Nat
    BY <1>1 DEF IInv, TypeOK
  <2>1. CASE lease = "expired"
    <3>1. InterruptOwner(ownerEpoch)
      BY <1>1, <2>1 DEF OpenOwner
    <3>2. \A q \in RunId : q \in LostRuns(ownerEpoch) <=> HasExecution(q)
      <4>1. ASSUME NEW q \in RunId, HasExecution(q)
            PROVE  runs[q].execution.ownerEpoch <= ownerEpoch /\ runs[q].state \in Live
        <5>1. runs[q].execution = [ownerEpoch |-> ownerEpoch, executionId |-> runs[q].attempts]
          BY <1>1, <4>1 DEF IInv, FenceNamesNewestAttempt
        <5>2. runs[q].execution.ownerEpoch = ownerEpoch
          BY <5>1
        <5> QED BY <1>1, <2>0, <4>1, <5>2 DEF IInv, RunShape
      <4> QED BY <4>1 DEF LostRuns
    <3> DEFINE tools == UNION {AttemptTools(q) : q \in LostRuns(ownerEpoch)}
    <3>3. \A t \in ToolCallId : toolCalls'[t] =
            IF t \in tools THEN [toolCalls[t] EXCEPT !.status = "failed"] ELSE toolCalls[t]
      BY <3>1 DEF InterruptOwner, Interrupted
    <3>4. CASE HasExecution(r)
      <4>1. \A t \in AttemptTools(r) : t \in ToolCallId /\ t \in tools
        BY <3>2, <3>4 DEF AttemptTools, OpenTools
      <4> HIDE DEF tools
      <4>2. \A t \in AttemptTools(r) : toolCalls'[t].status = "failed"
        BY <2>0, <3>3, <4>1 DEF ToolCall
      <4> DEFINE effects == InFlight(AttemptTools(r))
                 code == IF effects # {} THEN "tool_indeterminate" ELSE "runtime_interrupted"
      <4>3. runs'[r] = [runs[r] EXCEPT !.state = "failed", !.execution = NoExecution,
               !.openInteractions = {}, !.failure = code, !.indeterminate = effects]
        BY <3>1, <3>2, <3>4 DEF InterruptOwner
      <4> HIDE DEF effects, code
      <4>4. /\ runs'[r].state = "failed" /\ runs'[r].execution = NoExecution
            /\ runs'[r].openInteractions = {}
        BY <2>0, <4>3 DEF Run
      <4> QED BY <3>4, <4>2, <4>4 DEF TakenOver, HasExecution
    <3>5. CASE ~HasExecution(r)
      <4>1. runs'[r] = runs[r]
        BY <3>1, <3>2, <3>5 DEF InterruptOwner
      <4>2. \A t \in OpenTools(r) : t \in ToolCallId /\ t \notin tools
        BY <3>2, <3>5 DEF AttemptTools, OpenTools, LostRuns
      <4> QED BY <3>3, <3>5, <4>1, <4>2 DEF TakenOver
    <3> QED BY <3>4, <3>5
  <2>2. CASE lease # "expired"
    <3>1. lease = "none" /\ runs' = runs /\ toolCalls' = toolCalls
      BY <1>1, <2>2 DEF OpenOwner, IInv, TypeOK
    <3>2. ~HasExecution(r)
      BY <1>1, <3>1 DEF IInv, FenceNamesNewestAttempt
    <3> QED BY <3>1, <3>2 DEF TakenOver
  <2> QED BY <2>1, <2>2
<1>2. ASSUME IInv, [Next]_vars, ~OpenOwner PROVE ownerEpoch' = ownerEpoch
  <2>1. CASE OwnerStep
    BY <1>2, <2>1 DEF OwnerStep, ExpireOwner, RenewOwner, SealAndReleaseOwner
  <2>2. CASE HostStep
    BY <2>2 DEF HostStep, ReplyToRun, CreateRun, CancelRun, AnswerInteraction, ReviseMessage
  <2>3. CASE SchedulerStep
    BY <2>3 DEF SchedulerStep, ClaimRun, FailQueuedRun
  <2>4. ASSUME NEW r \in RunId, NEW e \in Tokens(r), ExecutorStep(r, e)
        PROVE  ownerEpoch' = ownerEpoch
    BY <2>4 DEF ExecutorStep, CommitInputRequired, RaiseInteraction, ReserveToolCalls,
       StartToolCall, SuspendToolCall, CommitToolResult, CommitIndeterminate,
       RecordToolCall, CommitOutcome
  <2>5. CASE UNCHANGED vars
    BY <2>5 DEF vars
  <2> QED BY <1>2, <2>1, <2>2, <2>3, <2>4, <2>5 DEF Next
<1>3. IInv /\ [Next]_vars =>
        [ownerEpoch' # ownerEpoch => \A r \in RunId : Exists(r) => TakenOver(r)]_vars
  BY <1>1, <1>2
<1> QED BY <1>3, Inductive, PTL DEF Spec, TakeoverEndsAttempts

-----------------------------------------------------------------------------
(* Tool Calls: what the attempts of their Runs leave of them.  ToolShape   *)
(* says where a Tool Call comes from and why it is settled; with it, the   *)
(* two invariants about Tool Calls in progress are inductive.              *)

Settled == {"completed", "failed"}

ToolShape(t) ==
  LET tool == toolCalls[t] IN
  /\ tool.status # "absent" =>
       tool.runId \in RunId /\ Exists(tool.runId) /\ tool.executionId > 0
  /\ tool.status \in Settled /\ ~tool.external =>
       tool.committed \/ runs[tool.runId].state \in Terminal

ToolInv ==
  /\ \A t \in ToolCallId : ToolShape(t)
  /\ InProgressOwned
  /\ SuspendedToolsResumable

\* What a step may do to the Run r when it gives up the Tool Calls ts: those
\* of an attempt that ends are among ts or still pending, and those of a Run
\* that waits without an attempt are listed by its checkpoint.
EffectsAccounted(r, ts) ==
  \/ runs'[r].invalidated
  \/ ~HasExecution(r)
  \/ runs'[r].state \in Live /\ runs'[r].execution = runs[r].execution
  \/ AttemptTools(r) \subseteq ts
  \/ \A t \in OpenTools(r) : toolCalls[t].status = "pending"

WaitingAccounted(r) ==
  \/ runs'[r].execution # NoExecution
  \/ runs'[r].state \in Terminal \cup {"absent"}
  \/ ~Exists(r)
  \/ /\ ~HasExecution(r)
     /\ runs[r].state \notin Terminal \cup {"absent"}
     /\ runs'[r].waiting = runs[r].waiting
  \/ \A t \in OpenTools(r) : toolCalls[t].status = "pending" /\ t \in runs'[r].waiting

RunFate(r, ts) ==
  /\ Exists(r) => runs'[r].state # "absent"
  /\ Exists(r) /\ runs[r].invalidated => runs'[r].invalidated
  /\ runs[r].state \in Terminal => runs'[r].state \in Terminal
  /\ EffectsAccounted(r, ts)
  /\ WaitingAccounted(r)

\* A Tool Call given up with its Run.
GivenUp(t) ==
  /\ toolCalls'[t].status = "failed"
  /\ toolCalls[t].runId \in RunId /\ toolCalls'[t].runId = toolCalls[t].runId
  /\ toolCalls[t].executionId > 0 /\ toolCalls'[t].executionId = toolCalls[t].executionId
  /\ runs'[toolCalls[t].runId].state \in Terminal

\* A Run a step leaves as it is keeps its Tool Calls accounted for.
LEMMA UntouchedFate ==
  ASSUME IInv, NEW r \in RunId, NEW ts, runs'[r] = runs[r]
  PROVE  RunFate(r, ts)
BY DEF IInv, RunShape, RunFate, EffectsAccounted, WaitingAccounted, HasExecution, Exists, Live

\* Steps that change Runs, and Tool Calls only by giving them up.
LEMMA RunsChange ==
  ASSUME IInv, ToolInv, NEW ts,
         \A t \in ToolCallId \ ts : toolCalls'[t] = toolCalls[t],
         \A t \in ToolCallId : t \in ts => GivenUp(t),
         \A r \in RunId : RunFate(r, ts)
  PROVE  ToolInv'
<1>1. ASSUME NEW t \in ToolCallId, t \notin ts
      PROVE  /\ ToolShape(t)'
             /\ toolCalls'[t] = toolCalls[t]
             /\ toolCalls[t].status # "absent" =>
                  /\ toolCalls[t].runId \in RunId /\ Exists(toolCalls[t].runId)
                  /\ toolCalls[t].executionId > 0
  <2>1. toolCalls'[t] = toolCalls[t] /\ ToolShape(t)
    BY <1>1 DEF ToolInv
  <2>2. toolCalls[t].status # "absent" => RunFate(toolCalls[t].runId, ts)
    BY <2>1 DEF ToolShape
  <2> QED BY <2>1, <2>2 DEF ToolShape, RunFate, Exists, Settled
<1>2. ASSUME NEW t \in ToolCallId, t \in ts
      PROVE  ToolShape(t)' /\ toolCalls'[t].status = "failed"
  BY <1>2 DEF GivenUp, ToolShape, Exists, Terminal
<1>3. InProgressOwned'
  <2> SUFFICES ASSUME NEW t \in ToolCallId, toolCalls'[t].status = "in_progress", ~toolCalls'[t].external
               PROVE  LET run == runs'[toolCalls'[t].runId] IN
                      \/ run.state \in Live /\ run.execution.executionId = toolCalls'[t].executionId
                      \/ run.invalidated
    BY DEF InProgressOwned
  <2> DEFINE r == toolCalls[t].runId
  <2>1. t \notin ts /\ toolCalls'[t] = toolCalls[t] /\ r \in RunId /\ Exists(r) /\ toolCalls[t].executionId > 0
    BY <1>1, <1>2
  <2>2. \/ runs[r].state \in Live /\ runs[r].execution.executionId = toolCalls[t].executionId
        \/ runs[r].invalidated
    BY <2>1 DEF ToolInv, InProgressOwned
  <2>3. RunFate(r, ts)
    BY <2>1
  <2>4. CASE runs[r].invalidated
    BY <2>1, <2>3, <2>4 DEF RunFate
  <2>5. CASE runs[r].state \in Live /\ runs[r].execution.executionId = toolCalls[t].executionId
    <3>1. HasExecution(r)
      BY <2>1, <2>5 DEF HasExecution, NoExecution
    <3>2. t \in OpenTools(r) /\ t \in AttemptTools(r)
      BY <2>1, <2>5 DEF OpenTools, AttemptTools, OpenStatus
    <3> QED BY <2>1, <2>3, <2>5, <3>1, <3>2 DEF RunFate, EffectsAccounted
  <2> QED BY <2>2, <2>4, <2>5
<1>4. SuspendedToolsResumable'
  <2> SUFFICES ASSUME NEW r \in RunId, runs'[r].execution = NoExecution,
                      runs'[r].state \notin Terminal \cup {"absent"},
                      NEW t \in ToolCallId, toolCalls'[t].runId = r, toolCalls'[t].status \in OpenStatus
               PROVE  toolCalls'[t].status = "pending" /\ t \in runs'[r].waiting
    BY DEF SuspendedToolsResumable, OpenTools, HasExecution
  <2>1. t \notin ts /\ toolCalls'[t] = toolCalls[t] /\ Exists(r) /\ t \in OpenTools(r)
    BY <1>1, <1>2 DEF OpenStatus, OpenTools
  <2>2. RunFate(r, ts)
    OBVIOUS
  <2>3. CASE /\ ~HasExecution(r)
             /\ runs[r].state \notin Terminal \cup {"absent"}
             /\ runs'[r].waiting = runs[r].waiting
    BY <2>1, <2>3 DEF ToolInv, SuspendedToolsResumable
  <2> QED BY <2>1, <2>2, <2>3 DEF RunFate, WaitingAccounted
<1> QED BY <1>1, <1>2, <1>3, <1>4 DEF ToolInv

\* Steps of an attempt that change its Tool Calls only.
OfAttempt(r, t) ==
  LET tool == toolCalls'[t] IN
  /\ tool.runId = r /\ tool.executionId > 0
  /\ tool.status = "in_progress" /\ ~tool.external => tool.executionId = runs[r].execution.executionId
  /\ tool.status \in Settled /\ ~tool.external => tool.committed

\* Reservations, starts, suspensions, results and reports preserve ToolInv.
LEMMA AttemptWorks ==
  ASSUME IInv, ToolInv, runs' = runs, NEW r \in RunId, HasExecution(r),
         \A t \in ToolCallId : toolCalls'[t] = toolCalls[t] \/ OfAttempt(r, t)
  PROVE  ToolInv'
<1>1. runs[r].state \in Live /\ Exists(r)
  BY DEF IInv, RunShape, Exists, Live
<1>2. ASSUME NEW t \in ToolCallId PROVE ToolShape(t)'
  <2>1. CASE toolCalls'[t] = toolCalls[t]
    BY <2>1 DEF ToolInv, ToolShape, Exists
  <2>2. CASE OfAttempt(r, t)
    BY <1>1, <2>2 DEF OfAttempt, ToolShape, Exists
  <2> QED BY <2>1, <2>2
<1>3. ASSUME NEW t \in ToolCallId, toolCalls'[t].status = "in_progress", ~toolCalls'[t].external
      PROVE  LET run == runs'[toolCalls'[t].runId] IN
             \/ run.state \in Live /\ run.execution.executionId = toolCalls'[t].executionId
             \/ run.invalidated
  <2>1. CASE toolCalls'[t] = toolCalls[t]
    BY <1>3, <2>1 DEF ToolInv, InProgressOwned
  <2>2. CASE OfAttempt(r, t)
    BY <1>1, <1>3, <2>2 DEF OfAttempt
  <2> QED BY <2>1, <2>2
<1>4. ASSUME NEW q \in RunId, ~HasExecution(q), runs[q].state \notin Terminal \cup {"absent"},
             NEW t \in ToolCallId, toolCalls'[t].runId = q, toolCalls'[t].status \in OpenStatus
      PROVE  toolCalls'[t].status = "pending" /\ t \in runs[q].waiting
  <2>1. toolCalls'[t] = toolCalls[t]
    BY <1>4 DEF OfAttempt
  <2> QED BY <1>4, <2>1 DEF ToolInv, SuspendedToolsResumable, OpenTools
<1>5. InProgressOwned'
  BY <1>3 DEF InProgressOwned
<1>6. SuspendedToolsResumable'
  BY <1>4 DEF SuspendedToolsResumable, OpenTools, HasExecution
<1> QED BY <1>2, <1>5, <1>6 DEF ToolInv

-----------------------------------------------------------------------------
(* Every operation accounts for the Tool Calls *)

\* The Tool Calls an ended attempt had open are given up.
LEMMA InterruptedGivenUp ==
  ASSUME IInv, ToolInv, NEW ts \in SUBSET ToolCallId, toolCalls' = Interrupted(ts),
         NEW t \in ts, toolCalls[t].status \in OpenStatus,
         runs'[toolCalls[t].runId].state \in Terminal
  PROVE  GivenUp(t)
<1>1. toolCalls[t] \in ToolCall /\ toolCalls'[t] = [toolCalls[t] EXCEPT !.status = "failed"]
  BY DEF IInv, TypeOK, Interrupted
<1>2. toolCalls[t].runId \in RunId /\ toolCalls[t].executionId > 0
  BY DEF ToolInv, ToolShape, OpenStatus
<1> QED BY <1>1, <1>2 DEF GivenUp, ToolCall

\* A new owner, or the process that seals, gives up every attempt it ends.
LEMMA InterruptOwnerAccounts ==
  ASSUME IInv, ToolInv, NEW e \in Nat, InterruptOwner(e)
  PROVE  ToolInv'
<1> DEFINE ts == UNION {AttemptTools(r) : r \in LostRuns(e)}
<1>1. toolCalls' = Interrupted(ts) /\ ts \in SUBSET ToolCallId
  BY DEF InterruptOwner, AttemptTools, OpenTools
<1>2. ASSUME NEW r \in LostRuns(e)
      PROVE  /\ runs'[r].state = "failed" /\ runs'[r].invalidated = runs[r].invalidated
             /\ AttemptTools(r) \subseteq ts /\ r \in RunId
  <2>1. runs[r] \in Run /\ r \in RunId
    BY DEF IInv, TypeOK, LostRuns
  <2> DEFINE effects == InFlight(AttemptTools(r))
             code == IF effects # {} THEN "tool_indeterminate" ELSE "runtime_interrupted"
  <2>2. runs'[r] = [runs[r] EXCEPT !.state = "failed", !.execution = NoExecution,
           !.openInteractions = {}, !.failure = code, !.indeterminate = effects]
    BY <2>1 DEF InterruptOwner
  <2>3. AttemptTools(r) \subseteq ts
    OBVIOUS
  <2> HIDE DEF effects, code, ts
  <2> QED BY <2>1, <2>2, <2>3 DEF Run
<1>3. ASSUME NEW r \in RunId PROVE RunFate(r, ts)
  <2>1. CASE r \in LostRuns(e)
    BY <1>2, <2>1 DEF RunFate, EffectsAccounted, WaitingAccounted, Terminal
  <2>2. CASE r \notin LostRuns(e)
    BY <2>2, UntouchedFate DEF InterruptOwner
  <2> QED BY <2>1, <2>2
<1>4. ASSUME NEW t \in ToolCallId, t \in ts PROVE GivenUp(t)
  <2>1. PICK r \in LostRuns(e) : t \in AttemptTools(r)
    BY <1>4
  <2>2. toolCalls[t].runId = r /\ toolCalls[t].status \in OpenStatus
    BY <2>1 DEF AttemptTools, OpenTools
  <2>3. runs'[toolCalls[t].runId].state \in Terminal
    BY <1>2, <2>2 DEF Terminal
  <2> HIDE DEF ts
  <2> QED BY <1>1, <1>4, <2>2, <2>3, InterruptedGivenUp
<1>5. \A t \in ToolCallId \ ts : toolCalls'[t] = toolCalls[t]
  BY <1>1 DEF Interrupted
<1> HIDE DEF ts
<1> QED BY <1>3, <1>4, <1>5, RunsChange

\* Steps that leave the Tool Calls alone.
LEMMA OnlyRunsChange ==
  ASSUME IInv, ToolInv, toolCalls' = toolCalls, \A r \in RunId : RunFate(r, {})
  PROVE  ToolInv'
BY RunsChange

\* Steps that leave the Tool Calls and all Runs but one alone.
LEMMA OneRunAccounts ==
  ASSUME IInv, ToolInv, toolCalls' = toolCalls, NEW r \in RunId, NEW run,
         runs' = [runs EXCEPT ![r] = run], RunFate(r, {})
  PROVE  ToolInv'
<1>1. \A q \in RunId \ {r} : runs'[q] = runs[q]
  BY DEF IInv, TypeOK
<1>2. \A q \in RunId : RunFate(q, {})
  BY <1>1, UntouchedFate
<1> QED BY <1>2, OnlyRunsChange

\* Changes of ownership preserve ToolInv.
LEMMA OwnerStepAccounts ==
  ASSUME IInv, ToolInv, OwnerStep
  PROVE  ToolInv'
<1>0. ownerEpoch \in Nat
  BY DEF IInv, TypeOK
<1>1. ASSUME UNCHANGED <<runs, toolCalls>> PROVE ToolInv'
  BY <1>1, UntouchedFate, OnlyRunsChange
<1>2. CASE OpenOwner
  BY <1>0, <1>1, <1>2, InterruptOwnerAccounts DEF OpenOwner
<1>3. CASE ExpireOwner \/ RenewOwner
  BY <1>1, <1>3 DEF ExpireOwner, RenewOwner
<1>4. ASSUME NEW e \in 1..ownerEpoch, SealAndReleaseOwner(e) PROVE ToolInv'
  BY <1>0, <1>4, InterruptOwnerAccounts DEF SealAndReleaseOwner
<1> QED BY <1>2, <1>3, <1>4 DEF OwnerStep

\* Answers, one at a time or all at once, preserve ToolInv.
LEMMA ReplyAccounts ==
  ASSUME IInv, ToolInv, NEW r \in RunId, runs[r].state = "input_required",
         NEW open \in SUBSET InteractionId, NEW state \in {"input_required", Answered(r)},
         runs' = [runs EXCEPT ![r] = [runs[r] EXCEPT !.openInteractions = open, !.state = state]],
         toolCalls' = toolCalls
  PROVE  ToolInv'
<1>1. runs \in [RunId -> Run] /\ runs[r] \in Run
  BY DEF IInv, TypeOK
<1>2. /\ runs'[r].state = state /\ runs'[r].execution = runs[r].execution
      /\ runs'[r].waiting = runs[r].waiting /\ runs'[r].invalidated = runs[r].invalidated
  BY <1>1 DEF Run
<1>3. state # "absent" /\ (HasExecution(r) => state \in Live)
  BY DEF Answered, Live
<1>4. RunFate(r, {})
  BY <1>2, <1>3 DEF RunFate, EffectsAccounted, WaitingAccounted, HasExecution, Terminal, Live
<1> QED BY <1>4, OneRunAccounts

\* cancelRun gives up the Tool Calls of the attempt it ends.
LEMMA CancelRunAccounts ==
  ASSUME IInv, ToolInv, NEW r \in RunId, CancelRun(r)
  PROVE  ToolInv'
<1> DEFINE ts == CancellableTools(r)
           inFlight == InFlight(ts)
<1>0. runs \in [RunId -> Run] /\ runs[r] \in Run
  BY DEF IInv, TypeOK
<1>1. toolCalls' = Interrupted(ts) /\ ts \in SUBSET ToolCallId
  BY ToolSetsTyped DEF CancelRun
<1>2. \A t \in ts : toolCalls[t].runId = r /\ toolCalls[t].status \in OpenStatus
  BY DEF CancellableTools, AttemptTools, OpenTools
<1>3. HasExecution(r) => AttemptTools(r) \subseteq ts
  BY DEF CancellableTools
<1>4. runs' = [runs EXCEPT ![r] = [runs[r] EXCEPT
        !.openInteractions = {},
        !.state = IF inFlight # {} THEN "failed" ELSE "cancelled",
        !.execution = NoExecution,
        !.failure = IF inFlight # {} THEN "tool_indeterminate" ELSE "none",
        !.indeterminate = inFlight]]
  BY DEF CancelRun
<1> HIDE DEF inFlight, ts
<1>5. /\ runs'[r].state \in Terminal /\ runs'[r].invalidated = runs[r].invalidated
      /\ \A q \in RunId \ {r} : runs'[q] = runs[q]
  BY <1>0, <1>4 DEF Run, Terminal
<1>6. RunFate(r, ts)
  BY <1>3, <1>5 DEF RunFate, EffectsAccounted, WaitingAccounted, Terminal
<1>7. \A q \in RunId : RunFate(q, ts)
  BY <1>5, <1>6, UntouchedFate
<1>8. \A t \in ToolCallId : t \in ts => GivenUp(t)
  BY <1>1, <1>2, <1>5, InterruptedGivenUp
<1>9. \A t \in ToolCallId \ ts : toolCalls'[t] = toolCalls[t]
  BY <1>1 DEF Interrupted
<1> QED BY <1>7, <1>8, <1>9, RunsChange

\* A new Run has no Tool Calls: they come from attempts.
LEMMA NewRunFate ==
  ASSUME IInv, NEW r \in RunId, IsNext(r), runs'[r].state = "queued", NEW ts
  PROVE  RunFate(r, ts)
BY DEF IInv, RunShape, IsNext, Exists, RunFate, EffectsAccounted, WaitingAccounted, Terminal,
   HasExecution, Live

\* A revision gives up the Tool Calls of running Runs; those of a held Run are
\* left behind, in a Run that is invalidated.
LEMMA ReviseMessageAccounts ==
  ASSUME IInv, ToolInv, NEW a \in Agent, NEW from \in 0..MaxRuns, NEW r \in RunId,
         ReviseMessage(a, from, r)
  PROVE  ToolInv'
<1> DEFINE affected == {q \in RunsOf(a) : q >= from}
           running == {q \in affected : runs[q].state = "running"}
           ts == UNION {AttemptTools(q) : q \in running}
<1>0. runs \in [RunId -> Run]
  BY DEF IInv, TypeOK
<1>1. toolCalls' = Interrupted(ts) /\ ts \in SUBSET ToolCallId
  BY DEF ReviseMessage, AttemptTools, OpenTools
<1>2. ASSUME NEW q \in affected
      PROVE  /\ q \in RunId /\ runs'[q].invalidated /\ runs'[q].state \in Terminal
             /\ runs[q].state \in Terminal => runs'[q].state \in Terminal
  <2>1. q \in RunId /\ runs'[q] = Superseded(q) /\ Exists(q)
    BY DEF ReviseMessage, RunsOf
  <2>2. runs[q] \in Run
    BY <1>0, <2>1
  <2> QED BY <2>1, <2>2 DEF Superseded, Run, Terminal
<1>3. ASSUME NEW q \in RunId PROVE RunFate(q, ts)
  <2>1. CASE q \in affected
    BY <1>2, <2>1 DEF RunFate, EffectsAccounted, WaitingAccounted, Terminal
  <2>2. CASE q \notin affected /\ q = r
    <3>1. runs'[q].state = "queued" /\ IsNext(q)
      BY <2>2 DEF ReviseMessage, Absent
    <3> QED BY <3>1, NewRunFate
  <2>3. CASE q \notin affected /\ q # r
    BY <2>3, UntouchedFate DEF ReviseMessage
  <2> QED BY <2>1, <2>2, <2>3
<1>4. ASSUME NEW t \in ToolCallId, t \in ts PROVE GivenUp(t)
  <2>1. PICK q \in running : t \in AttemptTools(q)
    BY <1>4
  <2>2. toolCalls[t].runId = q /\ toolCalls[t].status \in OpenStatus /\ q \in affected
    BY <2>1 DEF AttemptTools, OpenTools
  <2>3. runs'[toolCalls[t].runId].state \in Terminal
    BY <1>2, <2>2
  <2> HIDE DEF ts
  <2> QED BY <1>1, <1>4, <2>2, <2>3, InterruptedGivenUp
<1>5. \A t \in ToolCallId \ ts : toolCalls'[t] = toolCalls[t]
  BY <1>1 DEF Interrupted
<1> HIDE DEF ts
<1> QED BY <1>3, <1>4, <1>5, RunsChange

\* Every operation of a host preserves ToolInv.
LEMMA HostStepAccounts ==
  ASSUME IInv, ToolInv, HostStep
  PROVE  ToolInv'
<1>1. ASSUME NEW a \in Agent, NEW r \in RunId, ReplyToRun(a, r) PROVE ToolInv'
  BY <1>1, ReplyAccounts DEF ReplyToRun, WaitingRuns
<1>2. ASSUME NEW a \in Agent, NEW r \in RunId, NEW control \in BOOLEAN, CreateRun(a, r, control)
      PROVE  ToolInv'
  <2>1. runs'[r].state = "queued" /\ IsNext(r)
    BY <1>2 DEF CreateRun, Absent, IInv, TypeOK
  <2> QED BY <1>2, <2>1, NewRunFate, OneRunAccounts DEF CreateRun
<1>3. ASSUME NEW r \in RunId, NEW i \in InteractionId, AnswerInteraction(r, i) PROVE ToolInv'
  <2> DEFINE open == runs[r].openInteractions \ {i}
             state == IF runs[r].openInteractions # {i} THEN runs[r].state ELSE Answered(r)
  <2>1. runs[r].state = "input_required" /\ state \in {"input_required", Answered(r)}
    BY <1>3 DEF AnswerInteraction
  <2>2. open \in SUBSET InteractionId
    BY DEF IInv, TypeOK, Run
  <2>3. /\ runs' = [runs EXCEPT ![r] = [runs[r] EXCEPT !.openInteractions = open, !.state = state]]
        /\ toolCalls' = toolCalls
    BY <1>3 DEF AnswerInteraction
  <2> HIDE DEF open, state
  <2> QED BY <2>1, <2>2, <2>3, ReplyAccounts
<1> QED BY <1>1, <1>2, <1>3, CancelRunAccounts, ReviseMessageAccounts DEF HostStep

\* Claims and failures of queued Runs preserve ToolInv: a queued Run has no attempt.
LEMMA SchedulerStepAccounts ==
  ASSUME IInv, ToolInv, SchedulerStep
  PROVE  ToolInv'
<1>0. runs \in [RunId -> Run] /\ \A r \in RunId : runs[r] \in Run
  BY DEF IInv, TypeOK
<1>1. ASSUME NEW r \in RunId, ClaimRun(r) PROVE ToolInv'
  <2>0. runs[r].attempts \in Nat
    BY <1>0 DEF Run
  <2> DEFINE token == [ownerEpoch |-> ownerEpoch, executionId |-> runs[r].attempts + 1]
  <2>1. token # NoExecution
    BY <2>0 DEF NoExecution
  <2>2. /\ runs[r].state = "queued" /\ toolCalls' = toolCalls
        /\ runs' = [runs EXCEPT ![r] = [runs[r] EXCEPT
             !.state = "running", !.attempts = runs[r].attempts + 1, !.execution = token]]
    BY <1>1 DEF ClaimRun
  <2> HIDE DEF token
  <2>3. /\ runs'[r].state = "running" /\ runs'[r].execution = token
        /\ runs'[r].invalidated = runs[r].invalidated
    BY <1>0, <2>2 DEF Run
  <2>4. ~HasExecution(r)
    BY <2>2 DEF IInv, RunShape, Live
  <2>5. RunFate(r, {})
    BY <2>1, <2>2, <2>3, <2>4 DEF RunFate, EffectsAccounted, WaitingAccounted, Terminal
  <2> QED BY <2>2, <2>5, OneRunAccounts
<1>2. ASSUME NEW r \in RunId, FailQueuedRun(r) PROVE ToolInv'
  <2>1. /\ runs[r].state = "queued" /\ runs'[r].state = "failed"
        /\ runs'[r].invalidated = runs[r].invalidated
    BY <1>0, <1>2 DEF FailQueuedRun, Run
  <2>2. ~HasExecution(r)
    BY <2>1 DEF IInv, RunShape, Live
  <2>3. RunFate(r, {})
    BY <2>1, <2>2 DEF RunFate, EffectsAccounted, WaitingAccounted, Terminal
  <2> QED BY <1>2, <2>3, OneRunAccounts DEF FailQueuedRun
<1> QED BY <1>1, <1>2 DEF SchedulerStep

\* Operations of an executor, which hold the token of the live attempt.
LEMMA ExecutorStepAccounts ==
  ASSUME IInv, ToolInv, NEW r \in RunId, NEW e \in Tokens(r), ExecutorStep(r, e)
  PROVE  ToolInv'
<1>0. /\ runs \in [RunId -> Run] /\ runs[r] \in Run
      /\ toolCalls \in [ToolCallId -> ToolCall] /\ \A t \in ToolCallId : toolCalls[t] \in ToolCall
  BY DEF IInv, TypeOK
<1>e. e.executionId \in Nat /\ e.executionId > 0
  BY <1>0 DEF Tokens, Run
<1>1. ASSUME NEW is \in SUBSET FreeInteractions, NEW allowed \in {{}, OpenTools(r)},
             CommitInputRequired(r, e, is, allowed)
      PROVE  ToolInv'
  <2>1. runs'[r] = [runs[r] EXCEPT !.state = "input_required", !.openInteractions = is,
           !.checkpoint = TRUE, !.waiting = allowed, !.execution = NoExecution]
    BY <1>0, <1>1 DEF CommitInputRequired
  <2>2. /\ runs'[r].state = "input_required" /\ runs'[r].waiting = allowed
        /\ runs'[r].invalidated = runs[r].invalidated
    BY <1>0, <2>1 DEF Run
  <2>3. \A t \in OpenTools(r) : toolCalls[t].status = "pending" /\ t \in allowed
    BY <1>1 DEF CommitInputRequired, AssertNoOpenTools
  <2>4. runs[r].state = "running"
    BY <1>1 DEF CommitInputRequired
  <2>5. RunFate(r, {})
    BY <2>2, <2>3, <2>4 DEF RunFate, EffectsAccounted, WaitingAccounted, Terminal
  <2> QED BY <1>1, <2>5, OneRunAccounts DEF CommitInputRequired
<1>2. ASSUME NEW i \in FreeInteractions, RaiseInteraction(r, e, i) PROVE ToolInv'
  <2>1. /\ runs'[r].state = "input_required" /\ runs'[r].execution = runs[r].execution
        /\ runs'[r].invalidated = runs[r].invalidated
    BY <1>0, <1>2 DEF RaiseInteraction, Run
  <2>2. HasExecution(r) /\ runs[r].state \in Live
    BY <1>2 DEF RaiseInteraction, AssertExecution
  <2>3. RunFate(r, {})
    BY <2>1, <2>2 DEF RunFate, EffectsAccounted, WaitingAccounted, HasExecution, Terminal, Live
  <2> QED BY <1>2, <2>3, OneRunAccounts DEF RaiseInteraction
<1>3. ASSUME NEW ts \in SUBSET UnusedToolCalls, ReserveToolCalls(r, e, ts) PROVE ToolInv'
  <2>1. HasExecution(r) /\ runs' = runs
    BY <1>3 DEF ReserveToolCalls, AssertExecution
  <2>2. \A t \in ToolCallId : toolCalls'[t] = toolCalls[t] \/ OfAttempt(r, t)
    BY <1>3, <1>e DEF ReserveToolCalls, OfAttempt, Settled
  <2> QED BY <2>1, <2>2, AttemptWorks
<1>4. ASSUME NEW t \in OwnToolCalls(r), NEW tool \in ToolCall, runs' = runs, AssertExecution(r, e),
             toolCalls' = [toolCalls EXCEPT ![t] = tool],
             tool.runId = r, tool.executionId > 0,
             tool.status = "in_progress" => tool.executionId = e.executionId,
             tool.status \in Settled => tool.committed
      PROVE  ToolInv'
  <2>1. HasExecution(r) /\ runs[r].execution = e
    BY <1>4 DEF AssertExecution
  <2>2. \A u \in ToolCallId : toolCalls'[u] = toolCalls[u] \/ OfAttempt(r, u)
    BY <1>0, <1>4, <2>1 DEF OfAttempt
  <2> QED BY <1>4, <2>1, <2>2, AttemptWorks
<1>5. ASSUME NEW t \in OwnToolCalls(r), StartToolCall(r, e, t) PROVE ToolInv'
  <2> DEFINE tool == [toolCalls[t] EXCEPT !.status = "in_progress", !.executionId = e.executionId]
  <2>1. t \in ToolCallId /\ toolCalls[t].runId = r
    BY DEF OwnToolCalls
  <2>2. /\ tool \in ToolCall /\ tool.runId = r /\ tool.executionId = e.executionId
        /\ tool.status = "in_progress"
    BY <1>0, <1>e, <2>1 DEF ToolCall, ToolStatus
  <2>3. toolCalls' = [toolCalls EXCEPT ![t] = tool] /\ runs' = runs /\ AssertExecution(r, e)
    BY <1>5 DEF StartToolCall
  <2> HIDE DEF tool
  <2> QED BY <1>4, <1>e, <2>2, <2>3 DEF Settled
<1>6. ASSUME NEW t \in OwnToolCalls(r), SuspendToolCall(r, e, t) PROVE ToolInv'
  <2> DEFINE tool == [toolCalls[t] EXCEPT !.status = "pending"]
  <2>1. t \in ToolCallId /\ toolCalls[t].runId = r /\ toolCalls[t].executionId = e.executionId
    BY <1>6 DEF OwnToolCalls, SuspendToolCall
  <2>2. /\ tool \in ToolCall /\ tool.runId = r /\ tool.executionId = e.executionId
        /\ tool.status = "pending"
    BY <1>0, <1>e, <2>1 DEF ToolCall, ToolStatus
  <2>3. toolCalls' = [toolCalls EXCEPT ![t] = tool] /\ runs' = runs /\ AssertExecution(r, e)
    BY <1>6 DEF SuspendToolCall
  <2> HIDE DEF tool
  <2> QED BY <1>4, <1>e, <2>2, <2>3 DEF Settled
<1>7. ASSUME NEW t \in OwnToolCalls(r), NEW state \in {"completed", "failed"},
             CommitToolResult(r, e, t, state)
      PROVE  ToolInv'
  <2> DEFINE tool == [toolCalls[t] EXCEPT !.status = state, !.committed = TRUE]
  <2>1. t \in ToolCallId /\ toolCalls[t].runId = r /\ toolCalls[t].executionId = e.executionId
    BY <1>7 DEF OwnToolCalls, CommitToolResult
  <2>2. /\ tool \in ToolCall /\ tool.runId = r /\ tool.executionId = e.executionId
        /\ tool.status = state /\ tool.committed
    BY <1>0, <1>e, <2>1 DEF ToolCall, ToolStatus
  <2>3. toolCalls' = [toolCalls EXCEPT ![t] = tool] /\ runs' = runs /\ AssertExecution(r, e)
    BY <1>7 DEF CommitToolResult
  <2> HIDE DEF tool
  <2> QED BY <1>4, <1>e, <2>2, <2>3
<1>8. ASSUME NEW t \in OwnToolCalls(r), CommitIndeterminate(r, e, t) PROVE ToolInv'
  <2> DEFINE others == AttemptTools(r) \ {t}
             ts == others \cup {t}
             unknown == {t} \cup InFlight(others)
  <2>1. /\ t \in ToolCallId /\ toolCalls[t].runId = r /\ toolCalls[t].executionId = e.executionId
        /\ HasExecution(r)
    BY <1>8 DEF OwnToolCalls, CommitIndeterminate, AssertExecution
  <2>2. others \in SUBSET ToolCallId /\ AttemptTools(r) \subseteq ts
    BY ToolSetsTyped
  <2>3. runs' = [runs EXCEPT ![r] = [runs[r] EXCEPT !.state = "failed",
           !.execution = NoExecution, !.failure = "tool_indeterminate",
           !.indeterminate = unknown]]
    BY <1>8 DEF CommitIndeterminate
  <2>4. toolCalls' = [Interrupted(others) EXCEPT ![t] =
           [Interrupted(others)[t] EXCEPT !.status = "failed", !.committed = TRUE]]
    BY <1>8 DEF CommitIndeterminate
  <2> HIDE DEF unknown
  <2>5. /\ runs'[r].state = "failed" /\ runs'[r].invalidated = runs[r].invalidated
        /\ \A q \in RunId \ {r} : runs'[q] = runs[q]
    BY <1>0, <2>3 DEF Run
  <2>6. RunFate(r, ts)
    BY <2>2, <2>5 DEF RunFate, EffectsAccounted, WaitingAccounted, Terminal
  <2>7. \A q \in RunId : RunFate(q, ts)
    BY <2>5, <2>6, UntouchedFate
  <2>8. \A u \in others : toolCalls[u].runId = r /\ toolCalls[u].executionId > 0
    BY <2>2 DEF AttemptTools, OpenTools, OpenStatus, ToolInv, ToolShape
  <2>9. Interrupted(others) \in [ToolCallId -> ToolCall]
    BY <2>2, InterruptedTyped DEF IInv
  <2>10. \A u \in ToolCallId \ {t} : toolCalls'[u] = Interrupted(others)[u]
    BY <2>4, <2>9
  <2> HIDE DEF others
  <2>11. ASSUME NEW u \in ToolCallId, u \in others, u # t PROVE GivenUp(u)
    <3>1. toolCalls'[u] = [toolCalls[u] EXCEPT !.status = "failed"]
      BY <2>10, <2>11 DEF Interrupted
    <3> QED BY <1>0, <2>5, <2>8, <2>11, <3>1 DEF GivenUp, ToolCall, Terminal
  <2>12. GivenUp(t)
    <3>1. toolCalls'[t] = [Interrupted(others)[t] EXCEPT !.status = "failed", !.committed = TRUE]
      BY <2>1, <2>4, <2>9
    <3>2. /\ Interrupted(others)[t] \in ToolCall /\ Interrupted(others)[t].runId = r
          /\ Interrupted(others)[t].executionId = e.executionId
      BY <1>0, <2>1, <2>9 DEF Interrupted, ToolCall
    <3>3. /\ toolCalls'[t].status = "failed" /\ toolCalls'[t].runId = r
          /\ toolCalls'[t].executionId = e.executionId
      BY <3>1, <3>2 DEF ToolCall
    <3> QED BY <1>e, <2>1, <2>5, <3>3 DEF GivenUp, Terminal
  <2>13. \A u \in ToolCallId \ ts : toolCalls'[u] = toolCalls[u]
    BY <2>10 DEF Interrupted
  <2> QED BY <2>7, <2>11, <2>12, <2>13, RunsChange
<1>9. ASSUME NEW t \in ToolCallId, NEW status \in ToolStatus \ {"absent"},
             RecordToolCall(r, e, t, status)
      PROVE  ToolInv'
  <2>1. HasExecution(r) /\ runs' = runs
    BY <1>9 DEF RecordToolCall, AssertExecution
  <2>2. OfAttempt(r, t)
    <3>1. CASE toolCalls[t].status = "absent"
      BY <1>0, <1>9, <1>e, <3>1 DEF RecordToolCall, OfAttempt
    <3>2. CASE toolCalls[t].status # "absent"
      <4>1. toolCalls'[t] = [toolCalls[t] EXCEPT !.status = status]
        BY <1>0, <1>9, <3>2 DEF RecordToolCall
      <4>2. toolCalls[t].executionId > 0 /\ toolCalls[t].external /\ toolCalls[t].runId = r
        BY <1>9, <3>2 DEF RecordToolCall, ToolInv, ToolShape
      <4> QED BY <1>0, <4>1, <4>2 DEF OfAttempt, ToolCall
    <3> QED BY <3>1, <3>2
  <2>3. \A u \in ToolCallId \ {t} : toolCalls'[u] = toolCalls[u]
    BY <1>0, <1>9 DEF RecordToolCall
  <2> QED BY <2>1, <2>2, <2>3, AttemptWorks
<1>10. ASSUME NEW outcome \in {"completed", "failed"}, CommitOutcome(r, e, outcome) PROVE ToolInv'
  <2>1. /\ runs'[r].state = outcome /\ runs'[r].invalidated = runs[r].invalidated
    BY <1>0, <1>10 DEF CommitOutcome, Run
  <2>2. \A t \in OpenTools(r) : toolCalls[t].status = "pending"
    BY <1>10 DEF CommitOutcome, AssertNoOpenTools
  <2>3. RunFate(r, {})
    BY <2>1, <2>2 DEF RunFate, EffectsAccounted, WaitingAccounted, Terminal
  <2> QED BY <1>10, <2>3, OneRunAccounts DEF CommitOutcome
<1> QED BY <1>1, <1>2, <1>3, <1>5, <1>6, <1>7, <1>8, <1>9, <1>10 DEF ExecutorStep

\* ToolInv holds in every reachable state, since every operation accounts for the
\* Tool Calls of the attempts it ends and of the Runs it leaves waiting.
THEOREM ToolsInductive == Spec => []ToolInv
<1>1. Init => ToolInv
  <2> SUFFICES ASSUME Init PROVE ToolInv
    OBVIOUS
  <2>1. \A t \in ToolCallId : toolCalls[t].status = "absent"
    BY DEF Init
  <2>2. \A r \in RunId : runs[r].state = "absent"
    BY DEF Init, Absent
  <2> QED BY <2>1, <2>2 DEF ToolInv, ToolShape, InProgressOwned, SuspendedToolsResumable, Settled
<1>2. IInv /\ ToolInv /\ [Next]_vars => ToolInv'
  <2> SUFFICES ASSUME IInv, ToolInv, [Next]_vars PROVE ToolInv'
    OBVIOUS
  <2>1. CASE UNCHANGED vars
    BY <2>1, UntouchedFate, OnlyRunsChange DEF vars
  <2> QED BY <2>1, OwnerStepAccounts, HostStepAccounts, SchedulerStepAccounts,
             ExecutorStepAccounts DEF Next
<1> QED BY <1>1, <1>2, Inductive, PTL DEF Spec

\* A Tool Call of the Runtime in progress belongs to the live attempt that started
\* it, or to a Run a revision superseded: takeovers, cancellations and commits of
\* unknown effects leave none behind.
THEOREM InProgressIsOwned == Spec => []InProgressOwned
BY ToolsInductive, PTL DEF ToolInv

\* A Run that waits without an attempt, suspended or requeued, left no effect half
\* done and lists every open Tool Call in its checkpoint.
THEOREM SuspendedAreResumable == Spec => []SuspendedToolsResumable
BY ToolsInductive, PTL DEF ToolInv

-----------------------------------------------------------------------------
(* What one step may do to one Tool Call *)

ToolFate(t) ==
  /\ SettledToolCallStays(t)
  /\ toolCalls[t].runId # 0 => UnknownEffectReported(t)

\* A step gives up open Tool Calls, and the failure of the Run names those that
\* were in progress unless the Run is superseded.
LEMMA GivingUpReports ==
  ASSUME IInv, NEW ts, toolCalls' = Interrupted(ts),
         \A t \in ts : toolCalls[t].status \in OpenStatus,
         \A t \in ts : toolCalls[t].status = "in_progress" =>
           LET run == runs'[toolCalls[t].runId] IN
           run.invalidated \/ (run.failure = "tool_indeterminate" /\ t \in run.indeterminate),
         NEW t \in ToolCallId
  PROVE  ToolFate(t)
<1>1. t \notin ts => toolCalls'[t] = toolCalls[t]
  BY DEF Interrupted
<1> QED BY <1>1 DEF ToolFate, SettledToolCallStays, UnknownEffectReported, OpenStatus

\* The failure of a lost Run names its effects in progress.
LEMMA InterruptOwnerReports ==
  ASSUME IInv, NEW e \in Nat, InterruptOwner(e), NEW t \in ToolCallId
  PROVE  ToolFate(t)
<1> DEFINE ts == UNION {AttemptTools(r) : r \in LostRuns(e)}
<1>1. toolCalls' = Interrupted(ts)
  BY DEF InterruptOwner
<1>2. ASSUME NEW u \in ts
      PROVE  /\ toolCalls[u].status \in OpenStatus
             /\ toolCalls[u].status = "in_progress" =>
                  LET run == runs'[toolCalls[u].runId] IN
                  run.failure = "tool_indeterminate" /\ u \in run.indeterminate
  <2>1. PICK r \in LostRuns(e) : u \in AttemptTools(r)
    BY <1>2
  <2>2. runs[r] \in Run /\ r \in RunId
    BY DEF IInv, TypeOK, LostRuns
  <2>3. u \in ToolCallId /\ toolCalls[u].runId = r /\ toolCalls[u].status \in OpenStatus
    BY <2>1 DEF AttemptTools, OpenTools
  <2> DEFINE effects == InFlight(AttemptTools(r))
             code == IF effects # {} THEN "tool_indeterminate" ELSE "runtime_interrupted"
  <2>4. runs'[r] = [runs[r] EXCEPT !.state = "failed", !.execution = NoExecution,
           !.openInteractions = {}, !.failure = code, !.indeterminate = effects]
    BY <2>2 DEF InterruptOwner
  <2>5. toolCalls[u].status = "in_progress" => u \in effects /\ code = "tool_indeterminate"
    BY <2>1 DEF InFlight
  <2> HIDE DEF effects, code, ts
  <2>6. runs'[r].failure = code /\ runs'[r].indeterminate = effects
    BY <2>2, <2>4 DEF Run
  <2> QED BY <2>3, <2>5, <2>6
<1> HIDE DEF ts
<1> QED BY <1>1, <1>2, GivingUpReports

\* So does the failure of a cancelled Run; a revision invalidates the Run instead.
LEMMA HostStepReports ==
  ASSUME IInv, HostStep, NEW t \in ToolCallId
  PROVE  ToolFate(t)
<1>0. /\ runs \in [RunId -> Run] /\ \A r \in RunId : runs[r] \in Run
  BY DEF IInv, TypeOK
<1>1. ASSUME toolCalls' = toolCalls PROVE ToolFate(t)
  BY <1>1 DEF ToolFate, SettledToolCallStays, UnknownEffectReported
<1>2. ASSUME NEW r \in RunId, CancelRun(r) PROVE ToolFate(t)
  <2> DEFINE ts == CancellableTools(r)
             inFlight == InFlight(ts)
             code == IF inFlight # {} THEN "tool_indeterminate" ELSE "none"
             state == IF inFlight # {} THEN "failed" ELSE "cancelled"
  <2>1. toolCalls' = Interrupted(ts)
    BY <1>2 DEF CancelRun
  <2>2. \A u \in ts : toolCalls[u].runId = r /\ toolCalls[u].status \in OpenStatus
    BY DEF CancellableTools, AttemptTools, OpenTools
  <2>3. runs' = [runs EXCEPT ![r] = [runs[r] EXCEPT !.openInteractions = {}, !.state = state,
          !.execution = NoExecution, !.failure = code, !.indeterminate = inFlight]]
    BY <1>2 DEF CancelRun
  <2>4. \A u \in ts : toolCalls[u].status = "in_progress" =>
          u \in inFlight /\ code = "tool_indeterminate"
    BY DEF InFlight
  <2> HIDE DEF ts, inFlight, code, state
  <2>5. runs'[r].failure = code /\ runs'[r].indeterminate = inFlight
    BY <1>0, <2>3 DEF Run
  <2> QED BY <2>1, <2>2, <2>4, <2>5, GivingUpReports
<1>3. ASSUME NEW a \in Agent, NEW from \in 0..MaxRuns, NEW r \in RunId, ReviseMessage(a, from, r)
      PROVE  ToolFate(t)
  <2> DEFINE affected == {q \in RunsOf(a) : q >= from}
             running == {q \in affected : runs[q].state = "running"}
             ts == UNION {AttemptTools(q) : q \in running}
  <2>1. toolCalls' = Interrupted(ts)
    BY <1>3 DEF ReviseMessage
  <2>2. ASSUME NEW u \in ts
        PROVE  /\ toolCalls[u].status \in OpenStatus
               /\ runs'[toolCalls[u].runId].invalidated
    <3>1. PICK q \in running : u \in AttemptTools(q)
      BY <2>2
    <3>2. q \in RunId /\ runs'[q] = Superseded(q)
      BY <1>3 DEF ReviseMessage, RunsOf
    <3>3. runs[q] \in Run
      BY <1>0, <3>2
    <3>4. runs'[q].invalidated
      BY <3>2, <3>3 DEF Superseded, Run
    <3> QED BY <3>1, <3>4 DEF AttemptTools, OpenTools
  <2> HIDE DEF ts
  <2> QED BY <2>1, <2>2, GivingUpReports
<1>4. ASSUME NEW a \in Agent, NEW r \in RunId, ReplyToRun(a, r) PROVE ToolFate(t)
  BY <1>1, <1>4 DEF ReplyToRun
<1>5. ASSUME NEW a \in Agent, NEW r \in RunId, NEW control \in BOOLEAN, CreateRun(a, r, control)
      PROVE  ToolFate(t)
  BY <1>1, <1>5 DEF CreateRun
<1>6. ASSUME NEW r \in RunId, NEW i \in InteractionId, AnswerInteraction(r, i) PROVE ToolFate(t)
  BY <1>1, <1>6 DEF AnswerInteraction
<1> QED BY <1>2, <1>3, <1>4, <1>5, <1>6 DEF HostStep

\* No operation of an executor reopens a result, and a commit of an unknown effect
\* names all effects of its attempt.
LEMMA ExecutorStepReports ==
  ASSUME IInv, ToolInv, NEW r \in RunId, NEW e \in Tokens(r), ExecutorStep(r, e),
         NEW t \in ToolCallId
  PROVE  ToolFate(t)
<1>0. /\ runs \in [RunId -> Run] /\ runs[r] \in Run
      /\ toolCalls \in [ToolCallId -> ToolCall]
  BY DEF IInv, TypeOK
<1>1. ASSUME toolCalls'[t] = toolCalls[t] PROVE ToolFate(t)
  BY <1>1 DEF ToolFate, SettledToolCallStays, UnknownEffectReported
<1>2. ASSUME runs' = runs, toolCalls[t].external \/ toolCalls[t].status \notin Settled
      PROVE  ToolFate(t)
  BY <1>2 DEF ToolFate, SettledToolCallStays, UnknownEffectReported, Settled
<1>3. ASSUME NEW ts \in SUBSET UnusedToolCalls, ReserveToolCalls(r, e, ts) PROVE ToolFate(t)
  <2>1. t \notin ts => toolCalls'[t] = toolCalls[t]
    BY <1>3 DEF ReserveToolCalls
  <2>2. runs' = runs /\ (t \in ts => toolCalls[t].status \notin Settled)
    BY <1>3 DEF ReserveToolCalls, Settled
  <2> QED BY <1>1, <1>2, <2>1, <2>2
\* The one Tool Call an operation works on is not settled: the guard names its
\* status, or it is not committed and its Run is live.
<1>4. ASSUME NEW u \in OwnToolCalls(r), AssertExecution(r, e), ~toolCalls[u].committed
      PROVE  toolCalls[u].status \notin Settled
  BY <1>4 DEF OwnToolCalls, AssertExecution, ToolInv, ToolShape, Live, Terminal
<1>5. ASSUME NEW u \in OwnToolCalls(r), StartToolCall(r, e, u) PROVE ToolFate(t)
  <2>1. t # u => toolCalls'[t] = toolCalls[t]
    BY <1>0, <1>5 DEF StartToolCall
  <2> QED BY <1>1, <1>2, <1>5, <2>1 DEF StartToolCall, Settled
<1>6. ASSUME NEW u \in OwnToolCalls(r), SuspendToolCall(r, e, u) PROVE ToolFate(t)
  <2>1. t # u => toolCalls'[t] = toolCalls[t]
    BY <1>0, <1>6 DEF SuspendToolCall
  <2> QED BY <1>1, <1>2, <1>6, <2>1 DEF SuspendToolCall, Settled
<1>7. ASSUME NEW u \in OwnToolCalls(r), NEW state \in {"completed", "failed"},
             CommitToolResult(r, e, u, state)
      PROVE  ToolFate(t)
  <2>1. t # u => toolCalls'[t] = toolCalls[t]
    BY <1>0, <1>7 DEF CommitToolResult
  <2> QED BY <1>1, <1>2, <1>4, <1>7, <2>1 DEF CommitToolResult
<1>8. ASSUME NEW u \in OwnToolCalls(r), CommitIndeterminate(r, e, u) PROVE ToolFate(t)
  <2> DEFINE others == AttemptTools(r) \ {u}
             unknown == {u} \cup InFlight(others)
  <2>1. others \in SUBSET ToolCallId /\ u \in ToolCallId /\ toolCalls[u].runId = r
    BY ToolSetsTyped DEF OwnToolCalls
  <2>2. runs' = [runs EXCEPT ![r] = [runs[r] EXCEPT !.state = "failed",
           !.execution = NoExecution, !.failure = "tool_indeterminate",
           !.indeterminate = unknown]]
    BY <1>8 DEF CommitIndeterminate
  <2>3. runs'[r].failure = "tool_indeterminate" /\ runs'[r].indeterminate = unknown
    <3> HIDE DEF unknown
    <3> QED BY <1>0, <2>2 DEF Run
  <2>4. t \notin others \cup {u} => toolCalls'[t] = toolCalls[t]
    <3>1. toolCalls' = [Interrupted(others) EXCEPT ![u] =
             [Interrupted(others)[u] EXCEPT !.status = "failed", !.committed = TRUE]]
      BY <1>8 DEF CommitIndeterminate
    <3>2. Interrupted(others) \in [ToolCallId -> ToolCall]
      BY <2>1, InterruptedTyped DEF IInv
    <3> HIDE DEF others
    <3> QED BY <3>1, <3>2 DEF Interrupted
  <2>5. \A x \in others : toolCalls[x].runId = r /\ toolCalls[x].status \in OpenStatus
    BY DEF AttemptTools, OpenTools
  <2>6. t \in others \cup {u} => /\ toolCalls[t].status \notin Settled /\ toolCalls[t].runId = r
                                 /\ toolCalls[t].status = "in_progress" => t \in unknown
    BY <1>4, <1>8, <2>1, <2>5 DEF CommitIndeterminate, InFlight, OpenStatus, Settled
  <2> HIDE DEF others, unknown
  <2>7. CASE t \in others \cup {u}
    BY <2>3, <2>6, <2>7 DEF ToolFate, SettledToolCallStays, UnknownEffectReported, Settled
  <2> QED BY <1>1, <2>4, <2>7
<1>9. ASSUME NEW u \in ToolCallId, NEW status \in ToolStatus \ {"absent"},
             RecordToolCall(r, e, u, status)
      PROVE  ToolFate(t)
  <2>1. t # u => toolCalls'[t] = toolCalls[t]
    BY <1>0, <1>9 DEF RecordToolCall
  <2> QED BY <1>1, <1>2, <1>9, <2>1 DEF RecordToolCall, Settled
<1> QED BY <1>1, <1>3, <1>5, <1>6, <1>7, <1>8, <1>9
        DEF ExecutorStep, CommitInputRequired, RaiseInteraction, CommitOutcome

\* No step at all does otherwise.
LEMMA StepReports ==
  ASSUME IInv, ToolInv, [Next]_vars, NEW t \in ToolCallId
  PROVE  ToolFate(t)
<1>0. ownerEpoch \in Nat
  BY DEF IInv, TypeOK
<1>1. ASSUME toolCalls' = toolCalls PROVE ToolFate(t)
  BY <1>1 DEF ToolFate, SettledToolCallStays, UnknownEffectReported
<1>2. CASE OwnerStep
  <2>1. ASSUME NEW e \in 1..ownerEpoch, SealAndReleaseOwner(e) PROVE ToolFate(t)
    BY <1>0, <2>1, InterruptOwnerReports DEF SealAndReleaseOwner
  <2>2. CASE OpenOwner
    BY <1>0, <1>1, <2>2, InterruptOwnerReports DEF OpenOwner
  <2>3. CASE ExpireOwner \/ RenewOwner
    BY <1>1, <2>3 DEF ExpireOwner, RenewOwner
  <2> QED BY <1>2, <2>1, <2>2, <2>3 DEF OwnerStep
<1>3. CASE SchedulerStep
  BY <1>1, <1>3 DEF SchedulerStep, ClaimRun, FailQueuedRun
<1>4. CASE UNCHANGED vars
  BY <1>1, <1>4 DEF vars
<1> QED BY <1>2, <1>3, <1>4, HostStepReports, ExecutorStepReports DEF Next

\* The result of a Tool Call the Runtime executed is final.  The receipt of its
\* commit refuses a second one, and a result that has none ended with its Run,
\* whose token no longer passes the fence.
THEOREM SettledForGood == Spec => SettledToolCallsStay
<1>1. IInv /\ ToolInv /\ [Next]_vars => [\A t \in ToolCallId : SettledToolCallStays(t)]_vars
  BY StepReports DEF ToolFate
<1> QED BY <1>1, Inductive, ToolsInductive, PTL DEF Spec, SettledToolCallsStay

\* A step that gives up a Tool Call in progress together with its Run names it in
\* the Run's failure, unless the host revised a Message and confirmed the effects.
THEOREM UnknownEffectsAreReported == Spec => UnknownEffectsReported
<1>1. IInv /\ ToolInv /\ [Next]_vars =>
        [\A t \in ToolCallId : toolCalls[t].runId # 0 => UnknownEffectReported(t)]_vars
  BY StepReports DEF ToolFate
<1> QED BY <1>1, Inductive, ToolsInductive, PTL DEF Spec, UnknownEffectsReported
=============================================================================
