------------------------------ MODULE RunStore ------------------------------
(***************************************************************************)
(* The durable Run state machine of packages/agent/src/runtime/            *)
(* durable-store.ts (class InMemoryStore; SqliteStore runs the same object *)
(* inside its transactions).  One action is one Store operation: each is   *)
(* atomic, so the hard part is not inside an operation but in the orders   *)
(* in which hosts, executors and new owners may call them.                 *)
(*                                                                         *)
(* A Run is queued, claimed by a fenced Execution Attempt, may wait for    *)
(* Interactions either held (the attempt stays alive) or suspended (only a *)
(* checkpoint is left), and ends.  Tool Calls belong to a Run and carry    *)
(* the attempt that reserved or last started them.  Owners are processes:  *)
(* a lease may expire and another process may take the Store over.         *)
(*                                                                         *)
(* Data is abstracted: contents, prompts, answers, configuration tokens    *)
(* and timestamps are left out.  An operation called with a stale          *)
(* expectedRevision throws before it changes anything, so only the calls   *)
(* that present the current revision are steps of this module.             *)
(***************************************************************************)
EXTENDS Naturals, FiniteSets

CONSTANTS
  Agent,          \* Agent identities
  ToolCallId,     \* Tool Call identities, reserved or reported once each
  InteractionId,  \* Interaction identities: fresh while open, free again once closed
  MaxRuns,        \* bound: Runs created in a behaviour
  MaxAttempts,    \* bound: claims of one Run
  MaxEpoch        \* bound: ownership epochs

ASSUME BoundsAssumption ==
  /\ MaxRuns \in Nat \ {0}
  /\ MaxAttempts \in Nat \ {0}
  /\ MaxEpoch \in Nat \ {0}

\* Runs are numbered in creation order: within an Agent that is the order of
\* agentSequence, which is all claimRun and reviseMessage compare.
RunId == 1..MaxRuns

VARIABLES
  lease,         \* the owner row: none, live, or past its expiry
  ownerEpoch,    \* epoch of the last owner installed
  runs,          \* StoredRun of every Run
  toolCalls      \* StoredToolCall of every Tool Call

vars == <<lease, ownerEpoch, runs, toolCalls>>

-----------------------------------------------------------------------------
(* Records *)

RunState == {"queued", "running", "input_required",
             "completed", "failed", "cancelled"}
Terminal == {"completed", "failed", "cancelled"}
Live == {"running", "input_required"}

FailureCode == {"none", "runtime_interrupted", "tool_indeterminate",
                "configuration_unavailable", "execution_failed"}

\* executionId counts the claims of one Run.  Every comparison of execution
\* ids in the Store is between attempts of the same Run.
Execution == [ownerEpoch : Nat, executionId : Nat]
NoExecution == [ownerEpoch |-> 0, executionId |-> 0]

Run == [state : RunState \cup {"absent"},
        agentId : Agent,
        control : BOOLEAN,            \* metadata.rowan marks a Control Run
        attempts : Nat,               \* claims so far
        execution : Execution,
        openInteractions : SUBSET InteractionId,
        checkpoint : BOOLEAN,
        waiting : SUBSET ToolCallId,  \* toolCallIds listed by the checkpoint
        replacement : BOOLEAN,        \* initialMessageId is set
        invalidated : BOOLEAN,        \* invalidatedBy is set
        failure : FailureCode,
        indeterminate : SUBSET ToolCallId]  \* failure.toolCallIds

ToolStatus == {"absent", "pending", "in_progress", "completed", "failed"}
OpenStatus == {"pending", "in_progress"}

ToolCall == [runId : 0..MaxRuns,
             status : ToolStatus,
             executionId : Nat,
             external : BOOLEAN,      \* reported by a Provider, not reserved
             committed : BOOLEAN]     \* the tool_commit receipt exists

TypeOK ==
  /\ lease \in {"none", "live", "expired"}
  /\ ownerEpoch \in Nat
  /\ runs \in [RunId -> Run]
  /\ toolCalls \in [ToolCallId -> ToolCall]

-----------------------------------------------------------------------------
(* Shared parts of the operations *)

Exists(r) == runs[r].state # "absent"
HasExecution(r) == runs[r].execution # NoExecution
RunsOf(a) == {r \in RunId : Exists(r) /\ runs[r].agentId = a}

OpenTools(r) == {t \in ToolCallId : /\ toolCalls[t].runId = r
                                    /\ toolCalls[t].status \in OpenStatus}

\* The open Tool Calls of the Run's live attempt, compared by execution id.
AttemptToolsPendingOnly(r) ==  \* mutant: effects already started are skipped
  {t \in ToolCallId : /\ toolCalls[t].runId = r
                      /\ toolCalls[t].status = "pending"
                      /\ toolCalls[t].executionId = runs[r].execution.executionId}
AttemptTools(r) == {t \in OpenTools(r) :
                      toolCalls[t].executionId = runs[r].execution.executionId}
InFlightPending(ts) == {t \in ts : toolCalls[t].status = "pending"}  \* mutant: wrong status
InFlight(ts) == {t \in ts : toolCalls[t].status = "in_progress"}
Interrupted(ts) == [t \in ToolCallId |->
                      IF t \in ts THEN [toolCalls[t] EXCEPT !.status = "failed"]
                                  ELSE toolCalls[t]]

FreeInteractions == InteractionId \ UNION {runs[r].openInteractions : r \in RunId}

\* Every write checks the caller's lease: its epoch is current and not expired.
AssertOwner == lease = "live"

\* The fence on every write of an executor: the Run is live and its execution
\* is exactly the token the caller holds.
AssertExecution(r, e) == runs[r].state \in Live /\ HasExecution(r) /\ runs[r].execution = e

\* Every token ever handed out for r, the stale ones of ended attempts too.
Tokens(r) == [ownerEpoch : 1..ownerEpoch, executionId : 1..runs[r].attempts]

\* Before an attempt is given up normally nothing may be left open but the
\* pending Tool Calls a checkpoint will list.
AssertNoOpenToolsByIdOnly(r, allowed) ==  \* mutant: the status is not looked at
  \A t \in OpenTools(r) : t \in allowed
AssertNoOpenTools(r, allowed) ==
  \A t \in OpenTools(r) : toolCalls[t].status = "pending" /\ t \in allowed

IsNext(r) == ~Exists(r) /\ \A q \in RunId : q < r => Exists(q)

Absent(a) ==
  [state |-> "absent", agentId |-> a, control |-> FALSE, attempts |-> 0,
   execution |-> NoExecution, openInteractions |-> {}, checkpoint |-> FALSE, waiting |-> {},
   replacement |-> FALSE, invalidated |-> FALSE, failure |-> "none", indeterminate |-> {}]

Init ==
  /\ lease = "none"
  /\ ownerEpoch = 0
  /\ \E a \in Agent : runs = [r \in RunId |-> Absent(a)]
  /\ toolCalls = [t \in ToolCallId |->
       [runId |-> 0, status |-> "absent", executionId |-> 0,
        external |-> FALSE, committed |-> FALSE]]

-----------------------------------------------------------------------------
(* Ownership *)

\* interruptOwner: every attempt of an epoch up to e is lost, whether its Run
\* is running or held.  A suspended Run has no execution and survives.
LostRunsRunning(e) ==  \* mutant: attempts held by an Interaction are skipped
  {r \in RunId : /\ runs[r].state = "running"
                 /\ runs[r].execution.ownerEpoch <= e}
LostRunsSuspended(e) ==  \* mutant: Runs that wait without an attempt are lost too
  {r \in RunId : runs[r].state \in Live /\ runs[r].execution.ownerEpoch <= e}
LostRuns(e) == {r \in RunId : /\ runs[r].state \in Live
                              /\ HasExecution(r)
                              /\ runs[r].execution.ownerEpoch <= e}

InterruptOwner(e) ==
  LET lost == LostRuns(e)
      tools == UNION {AttemptTools(r) : r \in lost}
  IN
  /\ runs' = [r \in RunId |->
       IF r \notin lost THEN runs[r] ELSE
       [runs[r] EXCEPT
         !.state = "failed",
         !.execution = NoExecution,
         !.openInteractions = {},
         !.failure = IF InFlight(AttemptTools(r)) # {}
                     THEN "tool_indeterminate" ELSE "runtime_interrupted",
         !.indeterminate = InFlight(AttemptTools(r))]]
  /\ toolCalls' = Interrupted(tools)

\* A process installs itself, as the next epoch, once nobody holds a live lease.  A row left
\* behind by an expired owner is interrupted first; a released one was sealed.
OpenOwner ==
  /\ lease # "live"
  /\ ownerEpoch < MaxEpoch
  /\ IF lease = "expired" THEN InterruptOwner(ownerEpoch)
                          ELSE UNCHANGED <<runs, toolCalls>>
  /\ ownerEpoch' = ownerEpoch + 1
  /\ lease' = "live"

\* The clock passes expiresAt: the owner stalled, crashed or lost its timer.
ExpireOwner ==
  /\ lease = "live"
  /\ lease' = "expired"
  /\ UNCHANGED <<ownerEpoch, runs, toolCalls>>

\* A late heartbeat of the same epoch revives the lease.
RenewOwner ==
  /\ lease = "expired"
  /\ lease' = "live"
  /\ UNCHANGED <<ownerEpoch, runs, toolCalls>>

\* sealAndReleaseOwner by the process that was given epoch e: the interruption
\* comes first, then releaseOwner, which throws unless that lease is live.
SealAndReleaseOwner(e) ==
  /\ InterruptOwner(e)
  /\ lease' = IF lease = "live" /\ e = ownerEpoch THEN "none" ELSE lease
  /\ UNCHANGED ownerEpoch

-----------------------------------------------------------------------------
(* Starting Runs *)

WaitingRuns(a) == {r \in RunsOf(a) : runs[r].state = "input_required"}

\* Where the last answer sends a waiting Run: a held one goes on in its attempt,
\* a suspended one is queued for the next.
AnsweredRequeued(r) == "queued"  \* mutant: a held Run is queued with its attempt
Answered(r) == IF HasExecution(r) THEN "running" ELSE "queued"

\* createRun while a Run of the Agent waits for input: the input replies to
\* every open Interaction of the first waiting Run instead of starting one.
ReplyToRun(a, r) ==
  /\ AssertOwner
  /\ r \in WaitingRuns(a)
  /\ \A q \in WaitingRuns(a) : r <= q
  /\ runs' = [runs EXCEPT ![r] =
       [@ EXCEPT !.openInteractions = {}, !.state = Answered(r)]]
  /\ UNCHANGED <<lease, ownerEpoch, toolCalls>>

\* createRun with control metadata, or while no Run of the Agent waits.
CreateRun(a, r, control) ==
  /\ AssertOwner
  /\ IsNext(r)
  /\ control \/ WaitingRuns(a) = {}
  /\ runs' = [runs EXCEPT ![r] = [Absent(a) EXCEPT !.state = "queued",
                                                !.control = control]]
  /\ UNCHANGED <<lease, ownerEpoch, toolCalls>>

Others(r) == RunsOf(runs[r].agentId) \ {r}

\* claimRun's first scan: everything before this Run has ended.  A Control Run
\* may pass Runs that are queued or suspended.
NothingStartedBefore(r) ==  \* mutant: a queued Run may be passed
  runs[r].control \/ \A q \in Others(r) :
    q < r => runs[q].state \in Terminal \cup {"queued"}
NothingUnfinishedBefore(r) ==
  runs[r].control \/ \A q \in Others(r) : q < r => runs[q].state \in Terminal

\* Its second scan: no other Run of the Agent has an attempt, and only a
\* Control Run starts while another waits.
NoOtherAttemptButHeld(r) ==  \* mutant: a held Run counts as waiting
  \A q \in Others(r) : /\ runs[q].state # "running"
                         /\ runs[q].state = "input_required" => runs[r].control
NoOtherAttempt(r) ==
  \A q \in Others(r) :
    /\ runs[q].state # "running"
    /\ runs[q].state = "input_required" => ~HasExecution(q) /\ runs[r].control

\* claimRun starts the next Execution Attempt of a queued Run.
ClaimRun(r) ==
  /\ AssertOwner
  /\ runs[r].state = "queued"
  /\ runs[r].attempts < MaxAttempts
  /\ NothingUnfinishedBefore(r)
  /\ NoOtherAttempt(r)
  /\ runs' = [runs EXCEPT ![r] = [@ EXCEPT
       !.state = "running",
       !.attempts = runs[r].attempts + 1,
       !.execution = [ownerEpoch |-> ownerEpoch,
                      executionId |-> runs[r].attempts + 1]]]
  /\ UNCHANGED <<lease, ownerEpoch, toolCalls>>

\* The pump gives up on a queued Run whose Configuration cannot be resolved.
FailQueuedRun(r) ==
  /\ AssertOwner
  /\ runs[r].state = "queued"
  /\ runs' = [runs EXCEPT ![r] =
       [@ EXCEPT !.state = "failed", !.failure = "configuration_unavailable"]]
  /\ UNCHANGED <<lease, ownerEpoch, toolCalls>>

-----------------------------------------------------------------------------
(* Interactions *)

\* commitInputRequired suspends the Run: the attempt ends and leaves only a
\* checkpoint, the Interactions it waits for, and the pending Tool Calls the
\* caller lists.
CommitInputRequired(r, e, is, allowed) ==
  /\ AssertOwner
  /\ AssertExecution(r, e)
  /\ runs[r].state = "running"
  /\ AssertNoOpenTools(r, allowed)
  /\ runs' = [runs EXCEPT ![r] = [@ EXCEPT
       !.state = "input_required",
       !.openInteractions = is,
       !.checkpoint = TRUE,
       !.waiting = allowed,
       !.execution = NoExecution]]
  /\ UNCHANGED <<lease, ownerEpoch, toolCalls>>

\* raiseInteraction holds the Run: it waits with its attempt still alive, and
\* more Interactions may be raised while it waits.
RaiseInteraction(r, e, i) ==
  /\ AssertOwner
  /\ AssertExecution(r, e)
  /\ runs' = [runs EXCEPT ![r] = [@ EXCEPT
       !.state = "input_required",
       !.openInteractions = runs[r].openInteractions \cup {i}]]
  /\ UNCHANGED <<lease, ownerEpoch, toolCalls>>

AnswerInteractionFirst(r, i) ==  \* mutant: the first answer resumes the Run
  /\ AssertOwner
  /\ runs[r].state = "input_required"
  /\ i \in runs[r].openInteractions
  /\ runs' = [runs EXCEPT ![r] =
       [@ EXCEPT !.openInteractions = runs[r].openInteractions \ {i},
                 !.state = Answered(r)]]
  /\ UNCHANGED <<lease, ownerEpoch, toolCalls>>
AnswerInteractionAnyState(r, i) ==  \* mutant: the state is not checked
  /\ AssertOwner
  /\ i \in runs[r].openInteractions
  /\ runs' = [runs EXCEPT ![r] = [@ EXCEPT
       !.openInteractions = runs[r].openInteractions \ {i},
       !.state = IF runs[r].openInteractions # {i} THEN runs[r].state ELSE Answered(r)]]
  /\ UNCHANGED <<lease, ownerEpoch, toolCalls>>
\* answerInteraction, with an answer or a cancellation.  The last one lets a
\* held Run go on in its attempt and puts a suspended Run back in the queue.
AnswerInteraction(r, i) ==
  /\ AssertOwner
  /\ runs[r].state = "input_required"
  /\ i \in runs[r].openInteractions
  /\ runs' = [runs EXCEPT ![r] = [@ EXCEPT
       !.openInteractions = runs[r].openInteractions \ {i},
       !.state = IF runs[r].openInteractions # {i} THEN runs[r].state ELSE Answered(r)]]
  /\ UNCHANGED <<lease, ownerEpoch, toolCalls>>

-----------------------------------------------------------------------------
(* Tool Calls *)

\* reserveToolCalls: the model's Tool requests are durable before any starts.
ReserveToolCalls(r, e, ts) ==
  /\ AssertOwner
  /\ AssertExecution(r, e)
  /\ \A t \in ts : toolCalls[t].status = "absent"
  /\ toolCalls' = [t \in ToolCallId |->
       IF t \in ts
       THEN [runId |-> r, status |-> "pending", executionId |-> e.executionId,
             external |-> FALSE, committed |-> FALSE]
       ELSE toolCalls[t]]
  /\ UNCHANGED <<lease, ownerEpoch, runs>>

\* startToolCall precedes the effect and moves the Tool Call to this attempt.
StartToolCall(r, e, t) ==
  /\ AssertOwner
  /\ AssertExecution(r, e)
  /\ toolCalls[t].status = "pending"
  /\ toolCalls' = [toolCalls EXCEPT ![t].status = "in_progress",
                                    ![t].executionId = e.executionId]
  /\ UNCHANGED <<lease, ownerEpoch, runs>>

\* suspendToolCall takes back a start whose Tool asked for input; the pending
\* Tool Call keeps the id of the attempt that started it.
SuspendToolCall(r, e, t) ==
  /\ AssertOwner
  /\ AssertExecution(r, e)
  /\ toolCalls[t].status = "in_progress"
  /\ toolCalls[t].executionId = e.executionId
  /\ toolCalls' = [toolCalls EXCEPT ![t].status = "pending"]
  /\ UNCHANGED <<lease, ownerEpoch, runs>>

CommitToolResultAgain(r, e, t, state) ==  \* mutant: no receipt refuses a second commit
  /\ AssertOwner
  /\ AssertExecution(r, e)
  /\ toolCalls[t].executionId = e.executionId
  /\ toolCalls' = [toolCalls EXCEPT ![t].status = state, ![t].committed = TRUE]
  /\ UNCHANGED <<lease, ownerEpoch, runs>>
\* commitToolResult with a determinate result.  The status is not checked: a
\* second commit is refused because its receipt carries another payload.
CommitToolResult(r, e, t, state) ==
  /\ AssertOwner
  /\ ~toolCalls[t].committed
  /\ AssertExecution(r, e)
  /\ toolCalls[t].executionId = e.executionId
  /\ toolCalls' = [toolCalls EXCEPT ![t].status = state, ![t].committed = TRUE]
  /\ UNCHANGED <<lease, ownerEpoch, runs>>

\* commitToolResult of an effect whose outcome is unknown fails the whole Run
\* and interrupts the attempt's other open Tool Calls.
CommitIndeterminate(r, e, t) ==
  LET others == AttemptTools(r) \ {t} IN
  /\ AssertOwner
  /\ ~toolCalls[t].committed
  /\ AssertExecution(r, e)
  /\ toolCalls[t].executionId = e.executionId
  /\ toolCalls' = [Interrupted(others) EXCEPT ![t].status = "failed",
                                              ![t].committed = TRUE]
  /\ runs' = [runs EXCEPT ![r] = [@ EXCEPT
       !.state = "failed",
       !.execution = NoExecution,
       !.failure = "tool_indeterminate",
       !.indeterminate = {t} \cup InFlight(others)]]
  /\ UNCHANGED <<lease, ownerEpoch>>

\* recordToolCall: a Provider reports a Tool Call it runs itself, in any
\* status and any order.  The Runtime always presents its execution token.  That
\* the Tool Call is external and of this Run is not checked by the code: it is so
\* as long as Providers give what they run ids of their own.
RecordToolCall(r, e, t, status) ==
  /\ AssertOwner
  /\ AssertExecution(r, e)
  /\ \/ toolCalls[t].status = "absent"
     \/ toolCalls[t].external /\ toolCalls[t].runId = r
  /\ toolCalls' = [toolCalls EXCEPT ![t] =
       IF @.status = "absent"
       THEN [runId |-> r, status |-> status, executionId |-> e.executionId,
             external |-> TRUE, committed |-> FALSE]
       ELSE [@ EXCEPT !.status = status]]
  /\ UNCHANGED <<lease, ownerEpoch, runs>>

-----------------------------------------------------------------------------
(* Ending Runs *)

\* commitOutcome ends the attempt and the Run.  Open Interactions are removed.
CommitOutcome(r, e, outcome) ==
  /\ AssertOwner
  /\ AssertExecution(r, e)
  /\ AssertNoOpenTools(r, {})
  /\ runs' = [runs EXCEPT ![r] = [@ EXCEPT
       !.state = outcome,
       !.openInteractions = {},
       !.execution = NoExecution,
       !.failure = IF outcome = "failed" THEN "execution_failed" ELSE "none"]]
  /\ UNCHANGED <<lease, ownerEpoch, toolCalls>>

\* The open Tool Calls cancelRun resolves: those of the live attempt, or the
\* pending ones the checkpoint of a suspended Run lists.
CancellableTools(r) ==
  IF HasExecution(r) THEN AttemptTools(r)
  ELSE IF runs[r].state = "input_required"
       THEN {t \in OpenTools(r) : toolCalls[t].status = "pending" /\ t \in runs[r].waiting}
       ELSE {}

\* cancelRun: a Run whose effect may be half done is failed, not cancelled.
CancelRun(r) ==
  LET inFlight == InFlight(CancellableTools(r)) IN
  /\ AssertOwner
  /\ Exists(r) /\ runs[r].state \notin Terminal
  /\ toolCalls' = Interrupted(CancellableTools(r))
  /\ runs' = [runs EXCEPT ![r] = [@ EXCEPT
       !.openInteractions = {},
       !.state = IF inFlight # {} THEN "failed" ELSE "cancelled",
       !.execution = NoExecution,
       !.failure = IF inFlight # {} THEN "tool_indeterminate" ELSE "none",
       !.indeterminate = inFlight]]
  /\ UNCHANGED <<lease, ownerEpoch>>

\* One Run after a revision at or before it: what the revised Message fences.
Superseded(r) ==
  LET superseded == [runs[r] EXCEPT !.invalidated = TRUE] IN
  IF runs[r].state \in Terminal THEN superseded
  ELSE IF runs[r].state = "running"
       THEN [superseded EXCEPT !.state = "cancelled", !.execution = NoExecution]
       ELSE [superseded EXCEPT !.state = "cancelled", !.execution = NoExecution,
                               !.openInteractions = {}, !.checkpoint = FALSE,
                               !.waiting = {}]

\* A user Message of the Run may be in the transcript: its first claim put its
\* input there, or it was created to carry a revised Message.
InTranscript(r) == Exists(r) /\ (runs[r].attempts > 0 \/ runs[r].replacement)

\* reviseMessage of a Message of Run from, or of the copied history in front
\* of every Run (from = 0).  Every Run from there on is superseded and the
\* Message moves to replacement Run r.  The host has confirmed the digest of
\* the affected Tool effects.
ReviseMessage(a, from, r) ==
  LET affected == {q \in RunsOf(a) : q >= from} IN
  /\ AssertOwner
  /\ IsNext(r)
  /\ from # 0 => from \in affected /\ InTranscript(from)
  /\ runs' = [q \in RunId |->
       IF q \in affected THEN Superseded(q)
       ELSE IF q = r
       THEN [Absent(a) EXCEPT !.state = "queued", !.replacement = TRUE]
       ELSE runs[q]]
  /\ toolCalls' = Interrupted(UNION {AttemptTools(q) :
                       q \in {q \in affected : runs[q].state = "running"}})
  /\ UNCHANGED <<lease, ownerEpoch>>

-----------------------------------------------------------------------------

OwnToolCalls(r) == {t \in ToolCallId : toolCalls[t].runId = r /\ ~toolCalls[t].external}
UnusedToolCalls == {t \in ToolCallId : toolCalls[t].status = "absent"}

OwnerStep ==
  \/ OpenOwner
  \/ ExpireOwner
  \/ RenewOwner
  \/ \E e \in 1..ownerEpoch : SealAndReleaseOwner(e)

HostStep ==
  \/ \E a \in Agent, r \in RunId : ReplyToRun(a, r)
  \/ \E a \in Agent, r \in RunId, control \in BOOLEAN : CreateRun(a, r, control)
  \/ \E r \in RunId : CancelRun(r)
  \/ \E r \in RunId, i \in InteractionId : AnswerInteraction(r, i)
  \/ \E a \in Agent, from \in 0..MaxRuns, r \in RunId : ReviseMessage(a, from, r)

SchedulerStep ==
  \E r \in RunId : ClaimRun(r) \/ FailQueuedRun(r)

ExecutorStep(r, e) ==
  \/ \E is \in (SUBSET FreeInteractions) \ {{}}, allowed \in {{}, OpenTools(r)} :
       CommitInputRequired(r, e, is, allowed)
  \/ \E i \in FreeInteractions : RaiseInteraction(r, e, i)
  \/ \E ts \in (SUBSET UnusedToolCalls) \ {{}} : ReserveToolCalls(r, e, ts)
  \/ \E t \in OwnToolCalls(r) :
       \/ StartToolCall(r, e, t)
       \/ SuspendToolCall(r, e, t)
       \/ \E state \in {"completed", "failed"} : CommitToolResult(r, e, t, state)
       \/ CommitIndeterminate(r, e, t)
  \/ \E t \in ToolCallId, status \in ToolStatus \ {"absent"} :
       RecordToolCall(r, e, t, status)
  \/ \E outcome \in {"completed", "failed"} : CommitOutcome(r, e, outcome)

Next ==
  \/ OwnerStep
  \/ HostStep
  \/ SchedulerStep
  \/ \E r \in RunId : \E e \in Tokens(r) : ExecutorStep(r, e)

Spec == Init /\ [][Next]_vars

-----------------------------------------------------------------------------
(* What the Store promises: state *)

\* The fence names one attempt: an execution belongs to the newest claim of its
\* Run and to the installed epoch, so no token of an ended attempt or of an
\* earlier owner passes assertExecution again; and a released Store has none.
FenceNamesNewestAttempt ==
  /\ \A r \in RunId : HasExecution(r) =>
       runs[r].execution = [ownerEpoch |-> ownerEpoch, executionId |-> runs[r].attempts]
  /\ lease = "none" => \A r \in RunId : ~HasExecution(r)

\* Two attempts of one Agent never run at once, whatever Control Runs, held
\* Interactions and message revisions happened in between (claimRun's scans).
OneAttemptPerAgent ==
  \A q, r \in RunId :
    HasExecution(q) /\ HasExecution(r) /\ runs[q].agentId = runs[r].agentId => q = r

\* Apart from Control Runs, an Agent's Runs start in the order they were
\* created: once one has started, everything before it has ended for good.
StartedInOrder ==
  \A q, r \in RunId :
    /\ Exists(q) /\ q < r
    /\ runs[r].attempts > 0 /\ ~runs[r].control
    /\ runs[q].agentId = runs[r].agentId
    => runs[q].state \in Terminal

\* A Run claimed more than once was suspended in between: the Runtime never
\* silently repeats an attempt that was lost, nor one that is only held.
RetriedOnlyFromCheckpoint ==
  \A r \in RunId :
    runs[r].state = "queued" /\ runs[r].attempts > 0 => runs[r].checkpoint /\ ~HasExecution(r)

\* docs/releases/0048: input_required means exactly that the Run has at least
\* one pending Interaction.  So a Run that waits can always be answered, and
\* one that goes on left no question open.
InputRequiredIffOpen ==
  \A r \in RunId : runs[r].state \notin Terminal =>
    (runs[r].state = "input_required" <=> runs[r].openInteractions # {})

\* A Tool Call of the Runtime that is in progress is in progress in the live
\* attempt that started it.  (A Run superseded while it was held is left with
\* the Tool Calls it had: reviseMessage interrupts those of running Runs only.)
InProgressOwned ==
  \A t \in ToolCallId :
    toolCalls[t].status = "in_progress" /\ ~toolCalls[t].external =>
      LET run == runs[toolCalls[t].runId] IN
      \/ run.state \in Live /\ run.execution.executionId = toolCalls[t].executionId
      \/ run.invalidated

\* What a Run waiting without an attempt has left open is exactly resumable:
\* nothing is half done, and its checkpoint lists every open Tool Call.
SuspendedToolsResumable ==
  \A r \in RunId :
    ~HasExecution(r) /\ runs[r].state \notin Terminal \cup {"absent"} =>
      \A t \in OpenTools(r) : toolCalls[t].status = "pending" /\ t \in runs[r].waiting

-----------------------------------------------------------------------------
(* What the Store promises: steps *)

\* A Run that ended stays ended, with the failure it reported, although it may
\* still hold open Interactions and late answers and tokens still arrive.
EndedRunStays(r) ==
  runs[r].state \in Terminal =>
    /\ runs'[r].state = runs[r].state
    /\ runs'[r].failure = runs[r].failure
    /\ runs'[r].execution = NoExecution
EndedRunsStay == [][\A r \in RunId : EndedRunStays(r)]_vars

\* The result of a Tool Call the Runtime executed is final: no late commit,
\* interruption or suspension reopens it or turns success into failure.
SettledToolCallStays(t) ==
  toolCalls[t].status \in {"completed", "failed"} /\ ~toolCalls[t].external =>
    toolCalls'[t].status = toolCalls[t].status
SettledToolCallsStay == [][\A t \in ToolCallId : SettledToolCallStays(t)]_vars

\* No effect whose outcome is unknown disappears: a step that gives up a Tool
\* Call in progress together with its Run names it in the Run's failure.  The
\* exception is reviseMessage, where the host has confirmed those effects.
UnknownEffectReported(t) ==
  LET r == toolCalls[t].runId IN
  /\ toolCalls[t].status = "in_progress" /\ toolCalls'[t].status = "failed"
  /\ runs[r].state \notin Terminal
  /\ runs'[r].state \in Terminal /\ ~runs'[r].invalidated
  => runs'[r].failure = "tool_indeterminate" /\ t \in runs'[r].indeterminate
UnknownEffectsReported ==
  [][\A t \in ToolCallId : toolCalls[t].runId # 0 => UnknownEffectReported(t)]_vars

\* A new owner ends every attempt it finds, held or running, with its open
\* Interactions, and touches no Run that waits without one.
TakenOver(r) ==
  IF HasExecution(r)
  THEN /\ runs'[r].state = "failed" /\ ~HasExecution(r)'
       /\ runs'[r].openInteractions = {}
       /\ \A t \in AttemptTools(r) : toolCalls'[t].status = "failed"
  ELSE /\ runs'[r] = runs[r]
       /\ \A t \in OpenTools(r) : toolCalls'[t] = toolCalls[t]
TakeoverEndsAttempts ==
  [][ownerEpoch' # ownerEpoch => \A r \in RunId : Exists(r) => TakenOver(r)]_vars

-----------------------------------------------------------------------------
(* The queue the Store implements *)

\* An attempt is what occupies the Agent, held or running alike.
QueuePhase(run) ==
  IF run.execution # NoExecution THEN "active"
  ELSE CASE run.state = "absent" -> "none"
         [] run.state = "queued" -> "ready"
         [] run.state \in Live -> "parked"
         [] run.state \in Terminal -> "ended"

Queue == INSTANCE AgentQueue WITH
  epoch <- ownerEpoch,
  phase <- [r \in RunId |-> QueuePhase(runs[r])],
  agentOf <- [r \in RunId |-> runs[r].agentId],
  control <- [r \in RunId |-> runs[r].control]

\* With all its Interactions, Tool Calls, leases and revisions, the Store is
\* for its host a first-in-first-out server with one attempt per Agent.
ImplementsAgentQueue == Queue!QueueSpec
=============================================================================
