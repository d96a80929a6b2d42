------------------------- MODULE RunExecutionProofs -------------------------
(***************************************************************************)
(* Proofs about RunExecution, for every set of callers, every batch size   *)
(* and every bound on reports.                                             *)
(*                                                                         *)
(* None of the invariants is inductive.  That an effect is logged before   *)
(* it happens and never repeated depends on which Tool Calls a queued or   *)
(* running task may still touch, hence on the fact that a caller has at    *)
(* most one task (TaskShape, JobShape); that an attempt ends quiet depends *)
(* on who asks (AskShape) and on what each stage of execute() has waited   *)
(* for (StageShape); that it leaves no orphan on what a Run without a      *)
(* token has left in progress (NoTokenNoEffect).  IInv is their            *)
(* conjunction.                                                            *)
(***************************************************************************)
EXTENDS RunExecution, FiniteSetTheorems, SequenceTheorems, TLAPS

(* The inductive invariant *)

\* A Tool Call that has not run, or only as far as its question.
Idle(t) == effect[t] \in {"none", "asked"}

LastCall(c) == IF c \in Bridged \/ fanout THEN 1 ELSE BatchSize

\* A caller waits for its task; the Tool Calls it is about to make have not run.
Waits(c, kind) ==
  /\ kind = "tool" =>
       /\ caller[c] = "calling"
       /\ \A k \in 1 .. LastCall(c) : Idle(<<c, k>>)
       /\ job # NoJob => job.caller # c
  /\ kind = "output" => caller[c] = "replying"

\* A queued task: no other task that its caller waits for is queued.
TaskShape(i) ==
  /\ Waits(queue[i].caller, queue[i].kind)
  /\ queue[i].kind # "report" =>
       \A j \in 1 .. Len(queue) :
         j # i /\ queue[j].kind # "report" => queue[j].caller # queue[i].caller

\* The steps of a task before the effect of its Tool Call.
Before == {"decide", "reserveAll", "reserve", "deny", "ask", "start", "execute", "suspend", "wait"}

\* The task that runs: its caller waits for it, the rest of its batch has not run,
\* and each step knows what the Store and the outside have seen of its Tool Call.
JobShape ==
  job # NoJob =>
    /\ caller[job.caller] = "calling"
    /\ job.at <= LastCall(job.caller)
    /\ \A k \in 1 .. LastCall(job.caller) : k > job.at => Idle(<<job.caller, k>>)
    /\ job.step \in Before => Idle(Call)
    /\ job.step = "reserveAll" => job.at = 1
    /\ job.step = "reserve" => toolCalls[Call] = "absent" /\ job.next \in {"start", "deny", "ask"}
    /\ job.step = "execute" => toolCalls[Call] \notin {"absent", "pending"}
    /\ job.step = "running" => effect[Call] = "running"

\* A Phase of a fan-out that suspended has not run its Tool Call, which the join may take.
SuspendedIdle == fanout => \A c \in Caller : caller[c] = "suspended" => Idle(<<c, 1>>)

Asking == {"raising", "dropped", "waiting", "answered", "rejected"}

\* A question is asked by a Provider that waits for it, or by the task that does.
AskShape ==
  \A c \in Caller :
    /\ held[<<c, "model">>] \in Asking => caller[c] = "asking"
    /\ held[<<c, "tool">>] \in Asking => At("wait") /\ job.caller = c

Through == {"over", "suspended"}

\* What execute() has waited for at each stage.
StageShape ==
  /\ attempt \in {"joining", "joined"} => fanout
  /\ attempt \notin {"loop", "joined"} => \A c \in Caller : caller[c] \in Through
  /\ attempt \notin {"loop", "joining", "joined", "draining"} => queue = <<>>

\* A Run that lost its token has no Tool Call in progress, unless a revision took it.
NoTokenNoEffect ==
  run.execution \/ run.invalidated \/ \A t \in ToolCallId : toolCalls[t] # "in_progress"

TaskInv == (\A i \in 1 .. Len(queue) : TaskShape(i)) /\ JobShape /\ SuspendedIdle

IInv ==
  /\ TypeOK
  /\ TaskInv
  /\ AskShape
  /\ StageShape
  /\ NoTokenNoEffect
  /\ EffectsAreLogged
  /\ AttemptLeavesNoOrphan
  /\ WaitersCanBeAnswered

-----------------------------------------------------------------------------
(* What the operations of the Store do, whoever calls them *)

RunRecord == [state: {"running", "input_required", "queued", "completed", "failed", "cancelled"},
              revision: Nat, execution: BOOLEAN, openInteractions: SUBSET Question,
              invalidated: BOOLEAN]

\* No operation gives a token or the lease back, and none leaves a Tool Call in
\* progress in a Run without one.
StoreKept ==
  /\ StoreTypeOK'
  /\ run'.execution => run.execution
  /\ lease' => lease
  /\ NoTokenNoEffect'

OpenKept == run'.execution => run.openInteractions \subseteq run'.openInteractions

\* Tool Calls are left alone or interrupted.
ToolsKept ==
  \A t \in ToolCallId :
    toolCalls'[t] = toolCalls[t] \/ (toolCalls[t] \in Open /\ toolCalls'[t] = "failed")

\* The type of the Run record by the name the proofs use.
LEMMA RunTyped == ASSUME StoreTypeOK PROVE run \in RunRecord
BY DEF StoreTypeOK, RunRecord

\* A bumped Run has moved its revision and nothing else.
LEMMA BumpedRun ==
  ASSUME StoreTypeOK
  PROVE  /\ Bumped \in RunRecord
         /\ Bumped.execution = run.execution /\ Bumped.openInteractions = run.openInteractions
         /\ Bumped.state = run.state /\ Bumped.invalidated = run.invalidated
BY RunTyped DEF Bumped, RunRecord

\* An ended Run has given up its token.
LEMMA EndedRun ==
  ASSUME StoreTypeOK,
         NEW state \in {"running", "input_required", "queued", "completed", "failed", "cancelled"},
         NEW open \in SUBSET Question,
         run' \in {Ended(state), [Ended(state) EXCEPT !.openInteractions = open]}
  PROVE  run' \in RunRecord /\ ~run'.execution
BY BumpedRun DEF Ended, RunRecord

\* InterruptTools leaves no Tool Call in progress.
LEMMA InterruptedTools ==
  ASSUME StoreTypeOK, InterruptTools
  PROVE  /\ toolCalls' \in [ToolCallId -> {"absent", "completed", "failed"} \cup Open]
         /\ external' \in {"absent", "in_progress", "completed", "failed"}
         /\ ToolsKept
         /\ \A t \in ToolCallId : toolCalls'[t] # "in_progress"
BY DEF StoreTypeOK, InterruptTools, ToolsKept, OpenTools, Open

\* A step that writes nothing keeps all that the Store promises.
LEMMA SameStore ==
  ASSUME IInv, UNCHANGED storeVars
  PROVE  StoreKept /\ OpenKept /\ ToolsKept
BY DEF IInv, TypeOK, storeVars, StoreKept, OpenKept, ToolsKept, StoreTypeOK, NoTokenNoEffect

\* Operations that write the record of the Run only.
LEMMA RecordWritten ==
  ASSUME IInv, UNCHANGED <<toolCalls, lease>>, run' \in RunRecord,
         external' \in {"absent", "in_progress", "completed", "failed"},
         run'.execution = run.execution,
         run'.invalidated = run.invalidated
  PROVE  StoreKept /\ ToolsKept
BY DEF IInv, TypeOK, StoreTypeOK, RunRecord, StoreKept, ToolsKept, NoTokenNoEffect

\* commitPhaseEntered and commitPhaseOutput move the revision only.
LEMMA CommitPhaseKeeps ==
  ASSUME IInv, CommitPhase
  PROVE  StoreKept /\ OpenKept /\ ToolsKept
BY RecordWritten, BumpedRun DEF IInv, TypeOK, StoreTypeOK, CommitPhase, OpenKept

\* recordToolCall writes the external Tool Call, of which no invariant speaks.
LEMMA RecordToolCallKeeps ==
  ASSUME IInv, NEW status \in {"in_progress", "completed"}, RecordToolCall(status)
  PROVE  StoreKept /\ OpenKept /\ ToolsKept
BY RecordWritten, BumpedRun DEF IInv, TypeOK, StoreTypeOK, RecordToolCall, OpenKept

\* raiseInteraction adds the question it is called for.
LEMMA RaiseInteractionKeeps ==
  ASSUME IInv, HasToken, NEW q \in Question, RaiseInteraction(q)
  PROVE  StoreKept /\ OpenKept /\ ToolsKept /\ q \in run'.openInteractions
<1>1. Bumped \in RunRecord /\ Bumped.execution = run.execution
      /\ Bumped.invalidated = run.invalidated /\ run \in RunRecord
  BY BumpedRun, RunTyped DEF IInv, TypeOK
<1>2. /\ run' \in RunRecord /\ run'.execution = run.execution /\ run'.invalidated = run.invalidated
      /\ run'.openInteractions = run.openInteractions \cup {q}
  BY <1>1 DEF RaiseInteraction, RunRecord
<1> QED BY <1>2, RecordWritten DEF IInv, TypeOK, StoreTypeOK, RaiseInteraction, OpenKept, HasToken

\* answerInteraction closes one question and no other.
LEMMA AnswerKeeps ==
  ASSUME IInv, NEW q \in Question, AnswerInteraction(q)
  PROVE  /\ StoreKept /\ ToolsKept
         /\ run'.openInteractions = run.openInteractions \ {q}
<1>1. Bumped \in RunRecord /\ Bumped.execution = run.execution
      /\ Bumped.invalidated = run.invalidated /\ run \in RunRecord
  BY BumpedRun, RunTyped DEF IInv, TypeOK
<1>2. /\ run' \in RunRecord /\ run'.execution = run.execution /\ run'.invalidated = run.invalidated
      /\ run'.openInteractions = run.openInteractions \ {q}
  BY <1>1 DEF AnswerInteraction, RunRecord
<1> QED BY <1>2, RecordWritten DEF IInv, TypeOK, StoreTypeOK, AnswerInteraction

\* A reply closes the questions, and the Run keeps its token.
LEMMA ReplyKeeps ==
  ASSUME IInv, ReplyToRun
  PROVE  StoreKept /\ ToolsKept
<1>1. Bumped \in RunRecord /\ Bumped.execution = run.execution /\ Bumped.invalidated = run.invalidated
  BY BumpedRun DEF IInv, TypeOK
<1>2. run' \in RunRecord /\ run'.execution = run.execution /\ run'.invalidated = run.invalidated
  BY <1>1 DEF ReplyToRun, RunRecord
<1> QED BY <1>2, RecordWritten DEF IInv, TypeOK, StoreTypeOK, ReplyToRun

\* Operations that end the attempt in the Store.
LEMMA EndingKeeps ==
  ASSUME IInv, UNCHANGED lease, run' \in RunRecord, ~run'.execution,
         \/ InterruptTools
         \/ /\ UNCHANGED <<toolCalls, external>>
            /\ \A t \in ToolCallId : toolCalls[t] # "in_progress"
  PROVE  StoreKept /\ OpenKept /\ ToolsKept
<1>1. /\ toolCalls' \in [ToolCallId -> {"absent", "completed", "failed"} \cup Open]
      /\ external' \in {"absent", "in_progress", "completed", "failed"}
      /\ ToolsKept
      /\ \A t \in ToolCallId : toolCalls'[t] # "in_progress"
  BY InterruptedTools DEF IInv, TypeOK, StoreTypeOK, ToolsKept
<1> QED BY <1>1 DEF IInv, TypeOK, StoreTypeOK, StoreKept, OpenKept, RunRecord, NoTokenNoEffect

\* cancelRun leaves neither a token nor a Tool Call in progress.
LEMMA CancelRunKeeps ==
  ASSUME IInv, CancelRun
  PROVE  StoreKept /\ OpenKept /\ ToolsKept /\ ~run'.execution
<1>1. CASE ~run.execution
  BY <1>1, SameStore DEF CancelRun, storeVars
<1>2. CASE run.execution
  <2>1. PICK state \in {"failed", "cancelled"} : run' = Ended(state)
    BY <1>2 DEF CancelRun
  <2>2. run' \in RunRecord /\ ~run'.execution
    BY <2>1, EndedRun DEF IInv, TypeOK
  <2> QED BY <1>2, <2>2, EndingKeeps DEF CancelRun
<1> QED BY <1>1, <1>2

\* reviseMessage cancels the Run, whether it interrupts its Tool Calls or not.
LEMMA SupersedeKeeps ==
  ASSUME IInv, SupersedeRun
  PROVE  StoreKept /\ OpenKept /\ ToolsKept
<1>1. run' \in RunRecord /\ ~run'.execution /\ run'.invalidated
  BY BumpedRun DEF IInv, TypeOK, SupersedeRun, Ended, RunRecord
<1>2. CASE run.state = "running"
  BY <1>1, <1>2, EndingKeeps DEF SupersedeRun
<1>3. CASE run.state # "running"
  BY <1>1, <1>3 DEF SupersedeRun, IInv, TypeOK, StoreTypeOK, StoreKept, OpenKept, ToolsKept, RunRecord,
     NoTokenNoEffect
<1> QED BY <1>2, <1>3

\* commitToolResult of an unknown effect ends the Run and interrupts its Tool Calls.
LEMMA CommitIndeterminateKeeps ==
  ASSUME IInv, CommitIndeterminate
  PROVE  StoreKept /\ OpenKept /\ ToolsKept
<1>1. run' \in RunRecord /\ ~run'.execution
  BY EndedRun, RunTyped DEF IInv, TypeOK, CommitIndeterminate, RunRecord
<1> QED BY <1>1, EndingKeeps DEF CommitIndeterminate

\* commitRunOutcome is accepted only when no Tool Call is open.
LEMMA CommitOutcomeKeeps ==
  ASSUME IInv, NEW revision, MayCommitOutcome(revision),
         NEW outcome \in {"completed", "failed"}, CommitOutcome(outcome)
  PROVE  StoreKept /\ OpenKept /\ ToolsKept /\ ~run'.execution
<1>1. run' \in RunRecord /\ ~run'.execution
  BY EndedRun DEF IInv, TypeOK, CommitOutcome
<1>2. \A t \in ToolCallId : toolCalls[t] # "in_progress"
  BY DEF MayCommitOutcome, AssertNoOpenTools, OpenTools, Open
<1> QED BY <1>1, <1>2, EndingKeeps DEF CommitOutcome

\* commitInputRequired is accepted only when no Tool Call is in progress.
LEMMA CommitInputRequiredKeeps ==
  ASSUME IInv, NEW revision, NEW allowed, MayCommitInputRequired(revision, allowed),
         NEW qs \in SUBSET Question, CommitInputRequired(qs)
  PROVE  StoreKept /\ OpenKept /\ ToolsKept /\ ~run'.execution
<1>1. run' \in RunRecord /\ ~run'.execution
  BY EndedRun DEF IInv, TypeOK, CommitInputRequired
<1>2. \A t \in ToolCallId : toolCalls[t] # "in_progress"
  BY DEF MayCommitInputRequired, AssertNoOpenTools, OpenTools, Open
<1> QED BY <1>1, <1>2, EndingKeeps DEF CommitInputRequired

\* Losing the lease changes no record.
LEMMA LoseLeaseKeeps ==
  ASSUME IInv, LoseLease
  PROVE  StoreKept /\ OpenKept /\ ToolsKept
BY DEF LoseLease, IInv, TypeOK, StoreTypeOK, StoreKept, OpenKept, ToolsKept, NoTokenNoEffect

\* Operations that write Tool Calls; they need the token.
LEMMA ToolsWritten ==
  ASSUME IInv, HasToken, NEW ts \in SUBSET ToolCallId,
         NEW status \in {"pending", "in_progress", "completed", "failed"},
         \/ ReserveToolCalls(ts) /\ status = "pending"
         \/ \E t \in ToolCallId : SetToolCall(t, status) /\ ts = {t}
  PROVE  /\ StoreKept /\ OpenKept
         /\ \A t \in ToolCallId : toolCalls'[t] = IF t \in ts THEN status ELSE toolCalls[t]
<1>1. /\ toolCalls' = [t \in ToolCallId |-> IF t \in ts THEN status ELSE toolCalls[t]]
      /\ run' = Bumped /\ UNCHANGED <<external, lease>>
  BY DEF ReserveToolCalls, SetToolCall, IInv, TypeOK, StoreTypeOK
<1>2. Bumped \in RunRecord /\ Bumped.execution = run.execution
      /\ Bumped.openInteractions = run.openInteractions
  BY BumpedRun DEF IInv, TypeOK
<1> QED BY <1>1, <1>2 DEF IInv, TypeOK, StoreTypeOK, StoreKept, OpenKept, NoTokenNoEffect, Open,
           RunRecord, HasToken

-----------------------------------------------------------------------------
(* What keeps each part of the invariant *)

HeldState == {"unasked", "raising", "dropped", "waiting", "answered", "rejected", "over"}
Tellings == [questions: SUBSET Question, revision: Nat, settles: {"answered", "rejected"}]

\* The types of the attempt's variables by the names the proofs use.
LEMMA QueueTyped ==
  ASSUME TypeOK
  PROVE  /\ fanout \in BOOLEAN /\ executionRevision \in Nat /\ aborted \in BOOLEAN
         /\ held \in [Question -> HeldState]
         /\ flight \subseteq Tellings /\ run.revision \in Nat
BY DEF TypeOK, QueueTypeOK, StoreTypeOK, HeldState, Tellings

\* A Tool Call that is interrupted, or left alone, is as logged as it was.
LEMMA LoggedKept ==
  ASSUME IInv, ToolsKept, effect' = effect
  PROVE  EffectsAreLogged'
BY DEF IInv, ToolsKept, EffectsAreLogged, Open

\* Steps that leave the callers and the tasks as they are.
TasksKept == UNCHANGED <<fanout, queue, job, caller, effect, reportsLeft>>

\* No question is asked that was not, and those that were keep their askers.
AsksKept ==
  /\ held' \in [Question -> HeldState]
  /\ \A q \in Question : held'[q] \in Asking => held[q] \in Asking

\* Who changes neither callers, tasks nor Tool Calls keeps what tasks rely on.
LEMMA TasksKeptInv ==
  ASSUME IInv, StoreKept, ToolsKept, TasksKept, AsksKept,
         executionRevision' \in Nat, aborted' \in BOOLEAN
  PROVE  StoreTypeOK' /\ QueueTypeOK' /\ TaskInv' /\ AskShape' /\ NoTokenNoEffect' /\ EffectsAreLogged'
<1>1. StoreTypeOK' /\ NoTokenNoEffect'
  BY DEF StoreKept
<1>2. QueueTypeOK'
  BY DEF IInv, TypeOK, QueueTypeOK, TasksKept, AsksKept, HeldState
<1>3. EffectsAreLogged'
  BY LoggedKept DEF TasksKept
<1>4. \A i \in 1 .. Len(queue') : TaskShape(i)'
  BY DEF IInv, TaskInv, TasksKept, TaskShape, Waits, Idle, LastCall
<1>5. JobShape' /\ SuspendedIdle'
  <2>1. job = NoJob \/ Call \in ToolCallId
    BY DEF IInv, TypeOK, QueueTypeOK, Call, ToolCallId
  <2>2. Call' = Call
    BY DEF TasksKept, Call
  <2>3. /\ job' = job /\ caller' = caller /\ fanout' = fanout /\ effect' = effect
        /\ job # NoJob => toolCalls'[Call] = toolCalls[Call]
                          \/ (toolCalls[Call] \in Open /\ toolCalls'[Call] = "failed")
    BY <2>1 DEF TasksKept, ToolsKept
  <2> QED BY <2>2, <2>3 DEF IInv, TaskInv, JobShape, SuspendedIdle, Idle, LastCall, Open
<1>6. AskShape'
  <2>1. \A c \in Caller : <<c, "model">> \in Question /\ <<c, "tool">> \in Question
    BY DEF Question
  <2> QED BY <2>1 DEF IInv, AskShape, AsksKept, TasksKept, At
<1> QED BY <1>1, <1>2, <1>3, <1>4, <1>5, <1>6 DEF TaskInv

\* execute() stays where it is, and those that are through stay so.
LEMMA StageKept ==
  ASSUME IInv, UNCHANGED <<attempt, fanout>>,
         attempt \notin {"loop", "joined"} =>
           /\ \A c \in Caller : caller[c] \in Through => caller'[c] \in Through
           /\ queue = <<>> => queue' = <<>>
  PROVE  StageShape'
BY DEF IInv, StageShape

\* What an attempt that has ended left, nobody brings back.
LEMMA OrphanKept ==
  ASSUME IInv, StoreKept, attempt' # "done" \/ attempt = "done",
         cancelling => cancelling'
  PROVE  AttemptLeavesNoOrphan'
BY DEF IInv, StoreKept, AttemptLeavesNoOrphan, NothingLeft, NoTokenNoEffect, TypeOK

\* A waiter stays answerable while questions stay open and answers are told.
LEMMA WaitersKept ==
  ASSUME IInv, StoreKept, OpenKept, flight \subseteq flight',
         \A q \in Question : held'[q] = "waiting" => held[q] = "waiting" \/ q \in run'.openInteractions
  PROVE  WaitersCanBeAnswered'
BY DEF IInv, StoreKept, OpenKept, WaitersCanBeAnswered, HasToken

-----------------------------------------------------------------------------
(* The host, the owner and the end of the attempt leave the tasks alone *)

\* A question is raised, or its raise is refused.
LEMMA RaiseInductive ==
  ASSUME IInv, NEW q \in Question, RaiseStep(q)
  PROVE  IInv'
<1>0. TypeOK /\ run.revision \in Nat /\ held \in [Question -> HeldState]
  BY QueueTyped DEF IInv
<1>1. /\ UNCHANGED <<fanout, queue, job, caller, effect, aborted, reportsLeft, attempt, result,
                     cancelling, flight>>
      /\ held[q] \in {"raising", "dropped"}
      /\ held' = [held EXCEPT ![q] =
           IF Raisable /\ held[q] = "raising" THEN "waiting" ELSE "rejected"]
  BY DEF RaiseStep, Raise, loopVars
<1>2. StoreKept /\ OpenKept /\ ToolsKept /\ (Raisable => q \in run'.openInteractions)
  BY SameStore, RaiseInteractionKeeps DEF RaiseStep, Raise, Raisable
<1>3. executionRevision' \in Nat /\ aborted' \in BOOLEAN
  BY <1>0, <1>1, QueueTyped DEF RaiseStep, Raise, Newer
<1>4. TasksKept /\ AsksKept
  BY <1>0, <1>1 DEF TasksKept, AsksKept, Asking, HeldState
<1>5. WaitersCanBeAnswered'
  <2>1. \A p \in Question : held'[p] = "waiting" => held[p] = "waiting" \/ p \in run'.openInteractions
    BY <1>0, <1>1, <1>2
  <2> QED BY <1>1, <1>2, <2>1, WaitersKept
<1>6. StageShape' /\ AttemptLeavesNoOrphan'
  BY <1>1, <1>2, StageKept, OrphanKept
<1>7. TypeOK'
  BY <1>1, <1>2, <1>3, <1>4, TasksKeptInv DEF IInv, TypeOK
<1> QED BY <1>2, <1>3, <1>4, <1>5, <1>6, <1>7, TasksKeptInv DEF IInv

\* Only those who asked are rejected, and nobody waits any more.
LEMMA RejectLiveKeeps ==
  ASSUME IInv
  PROVE  /\ RejectLive \in [Question -> HeldState]
         /\ \A q \in Question : RejectLive[q] \in Asking => held[q] \in Asking
         /\ \A q \in Question : RejectLive[q] # "waiting"
BY QueueTyped DEF IInv, RejectLive, HeldState, Asking

\* The host and the owner.
LEMMA HostInductive ==
  ASSUME IInv,
         \/ \E q \in Question : Respond(q)
         \/ \E f \in flight : Tell(f)
         \/ ReplyToHeld \/ Cancel \/ Abort \/ Revise \/ Expire
  PROVE  IInv'
<1>0. /\ TypeOK /\ run.revision \in Nat /\ executionRevision \in Nat
      /\ aborted \in BOOLEAN /\ held \in [Question -> HeldState] /\ flight \subseteq Tellings
      /\ run.openInteractions \subseteq Question /\ cancelling \in BOOLEAN
  BY QueueTyped DEF IInv, TypeOK, StoreTypeOK
<1>1. ASSUME StoreKept, ToolsKept, TasksKept, AsksKept, attempt' = attempt, result' = result,
             cancelling' \in BOOLEAN, cancelling => cancelling', executionRevision' \in Nat, aborted' \in BOOLEAN,
             flight' \subseteq Tellings, WaitersCanBeAnswered'
      PROVE  IInv'
  <2>1. StageShape'
    BY <1>1, StageKept DEF TasksKept
  <2>2. AttemptLeavesNoOrphan'
    BY <1>1, OrphanKept
  <2>3. TypeOK'
    BY <1>0, <1>1, TasksKeptInv DEF TypeOK, Tellings
  <2> QED BY <1>1, <2>1, <2>2, <2>3, TasksKeptInv DEF IInv
<1>2. ASSUME NEW qs \in SUBSET Question, NEW settles \in {"answered", "rejected"},
             flight' = flight \cup {[questions |-> qs, revision |-> run.revision + 1,
                                     settles |-> settles]}
      PROVE  /\ flight' \subseteq Tellings
             /\ \A q \in Question : q \in qs => \E f \in flight' : q \in f.questions
  <2> DEFINE told == [questions |-> qs, revision |-> run.revision + 1, settles |-> settles]
  <2>1. told \in Tellings /\ told.questions = qs /\ told \in flight'
    BY <1>0, <1>2 DEF Tellings
  <2> QED BY <1>0, <1>2, <2>1
<1>3. ASSUME NEW q \in Question, Respond(q) PROVE IInv'
  <2>1. PICK settles \in {"answered", "rejected"} :
          flight' = flight \cup {[questions |-> {q}, revision |-> run.revision + 1,
                                  settles |-> settles]}
    BY <1>3 DEF Respond, Tells
  <2>2. /\ flight' \subseteq Tellings
        /\ \A p \in Question : p \in {q} => \E f \in flight' : p \in f.questions
    BY <1>2, <2>1
  <2>3. StoreKept /\ ToolsKept /\ run'.openInteractions = run.openInteractions \ {q}
    BY <1>3, AnswerKeeps DEF Respond
  <2>4. UNCHANGED <<queueVars, attempt, result, cancelling>>
    BY <1>3 DEF Respond
  <2>5. TasksKept /\ AsksKept
    BY <1>0, <2>4 DEF TasksKept, AsksKept, queueVars
  <2>6. WaitersCanBeAnswered'
    BY <2>1, <2>2, <2>3, <2>4 DEF IInv, WaitersCanBeAnswered, StoreKept, HasToken, queueVars
  <2> QED BY <1>0, <1>1, <2>2, <2>3, <2>4, <2>5, <2>6 DEF queueVars
<1>4. CASE ReplyToHeld
  <2>1. flight' = flight \cup {[questions |-> run.openInteractions, revision |-> run.revision + 1,
                                settles |-> "rejected"]}
    BY <1>4 DEF ReplyToHeld, Tells
  <2>2. /\ flight' \subseteq Tellings
        /\ \A p \in Question : p \in run.openInteractions => \E f \in flight' : p \in f.questions
    BY <1>0, <1>2, <2>1
  <2>3. StoreKept /\ ToolsKept
    BY <1>4, ReplyKeeps DEF ReplyToHeld
  <2>4. UNCHANGED <<queueVars, attempt, result, cancelling>>
    BY <1>4 DEF ReplyToHeld
  <2>5. TasksKept /\ AsksKept
    BY <1>0, <2>4 DEF TasksKept, AsksKept, queueVars
  <2>6. WaitersCanBeAnswered'
    BY <2>1, <2>2, <2>3, <2>4 DEF IInv, WaitersCanBeAnswered, StoreKept, HasToken, queueVars
  <2> QED BY <1>0, <1>1, <2>2, <2>3, <2>4, <2>5, <2>6 DEF queueVars
<1>5. ASSUME NEW f \in flight, Tell(f) PROVE IInv'
  <2>1. UNCHANGED <<storeVars, fanout, queue, job, caller, effect, aborted, reportsLeft,
                    attempt, result, cancelling>>
    BY <1>5 DEF Tell
  <2>2. flight' = flight \ {f} /\ held' = Told(f) /\ executionRevision' = Newer(f.revision)
    BY <1>5 DEF Tell
  <2>3. f \in Tellings /\ f.settles \in {"answered", "rejected"} /\ f.revision \in Nat
    BY <1>0 DEF Tellings
  <2>4. StoreKept /\ OpenKept /\ ToolsKept
    BY <2>1, SameStore
  <2>5. TasksKept /\ AsksKept
    BY <1>0, <2>1, <2>2, <2>3 DEF TasksKept, AsksKept, Told, Asking, HeldState
  <2>6. executionRevision' \in Nat
    BY <1>0, <2>2, <2>3 DEF Newer
  <2>7. WaitersCanBeAnswered'
    <3>1. \A q \in Question : held'[q] = "waiting" => held[q] = "waiting" /\ q \notin f.questions
      BY <2>2, <2>3 DEF Told
    <3> QED BY <2>1, <2>2, <3>1 DEF IInv, WaitersCanBeAnswered, HasToken, storeVars
  <2> QED BY <1>0, <1>1, <2>1, <2>2, <2>4, <2>5, <2>6, <2>7
<1>6. CASE Cancel \/ Abort
  <2>1. /\ UNCHANGED <<storeVars, fanout, executionRevision, queue, job, caller, effect, reportsLeft,
                       attempt, result, flight>>
        /\ cancelling' = cancelling \/ cancelling' = TRUE
        /\ aborted' = TRUE /\ held' = RejectLive
    BY <1>6 DEF Cancel, Abort, loopVars
  <2>2. StoreKept /\ OpenKept /\ ToolsKept
    BY <2>1, SameStore
  <2>3. TasksKept /\ AsksKept
    BY <2>1, RejectLiveKeeps DEF TasksKept, AsksKept
  <2>4. WaitersCanBeAnswered'
    BY <2>1, <2>2, RejectLiveKeeps, WaitersKept
  <2> QED BY <1>0, <1>1, <2>1, <2>2, <2>3, <2>4
<1>7. CASE Revise \/ Expire
  <2>1. UNCHANGED <<queueVars, loopVars>>
    BY <1>7 DEF Revise, Expire
  <2>2. StoreKept /\ OpenKept /\ ToolsKept
    BY <1>7, SupersedeKeeps, LoseLeaseKeeps DEF Revise, Expire
  <2>3. TasksKept /\ AsksKept
    BY <1>0, <2>1 DEF TasksKept, AsksKept, queueVars
  <2>4. WaitersCanBeAnswered'
    BY <2>1, <2>2, WaitersKept DEF queueVars, loopVars
  <2> QED BY <1>0, <1>1, <2>1, <2>2, <2>3, <2>4 DEF queueVars, loopVars
<1> QED BY <1>3, <1>4, <1>5, <1>6, <1>7

\* The steps after the Phase loop: they end the Run in the Store, or go on to
\* the next way to end it.
LEMMA EndingInductive ==
  ASSUME IInv, StoreKept, OpenKept, ToolsKept, UNCHANGED <<queueVars, result, cancelling, flight>>,
         attempt \in {"draining", "ending", "caught", "fallback"}, queue = <<>>,
         attempt' \in {"ending", "caught", "fallback", "done"},
         attempt' = "done" => cancelling \/ ~lease' \/ ~run'.execution
  PROVE  IInv'
<1>0. /\ TypeOK /\ executionRevision \in Nat /\ aborted \in BOOLEAN
      /\ held \in [Question -> HeldState]
  BY QueueTyped DEF IInv
<1>1. TasksKept /\ AsksKept /\ executionRevision' \in Nat /\ aborted' \in BOOLEAN
  BY <1>0 DEF TasksKept, AsksKept, queueVars
<1>2. WaitersCanBeAnswered'
  BY WaitersKept DEF queueVars
<1>3. StageShape'
  BY DEF IInv, StageShape, queueVars
<1>4. AttemptLeavesNoOrphan'
  BY DEF AttemptLeavesNoOrphan, NothingLeft, StoreKept, NoTokenNoEffect
<1>5. TypeOK'
  BY <1>0, <1>1, TasksKeptInv DEF TypeOK
<1> QED BY <1>1, <1>2, <1>3, <1>4, <1>5, TasksKeptInv DEF IInv

\* The steps from the drained queue to the end of execute().
LEMMA EndStepInductive == ASSUME IInv, EndStep PROVE IInv'
<1>1. CASE Drain
  <2>1. UNCHANGED <<storeVars, queueVars, result, cancelling, flight>> /\ queue = <<>>
    BY <1>1 DEF Drain, Drained
  <2> QED BY <1>1, <2>1, SameStore, EndingInductive DEF Drain, Drained
<1>2. ASSUME attempt \in {"ending", "caught", "fallback"} PROVE queue = <<>>
  BY <1>2 DEF IInv, StageShape
<1>3. ASSUME attempt \in {"ending", "caught", "fallback"},
             UNCHANGED <<storeVars, queueVars, result, cancelling, flight>>,
             \/ attempt' \in {"caught", "fallback"}
             \/ attempt' = "done" /\ (cancelling \/ ~lease)
      PROVE  IInv'
  <2>1. lease' = lease
    BY <1>3 DEF storeVars
  <2> QED BY <1>2, <1>3, <2>1, SameStore, EndingInductive
<1>4. ASSUME attempt \in {"ending", "caught", "fallback"}, Ends, StoreKept, OpenKept, ToolsKept,
             ~run'.execution
      PROVE  IInv'
  BY <1>2, <1>4, EndingInductive DEF Ends
<1>5. CASE EndCancelled
  BY <1>3, <1>4, <1>5, CancelRunKeeps DEF EndCancelled, Caught
<1>6. CASE EndInputRequired
  <2>1. SuspendedQuestions \in SUBSET Question
    BY DEF SuspendedQuestions, Suspended, Question
  <2> QED BY <1>3, <1>4, <1>6, <2>1, CommitInputRequiredKeeps DEF EndInputRequired, Caught
<1>7. CASE EndWithOutcome
  BY <1>3, <1>4, <1>7, CommitOutcomeKeeps DEF EndWithOutcome, Caught
<1>8. CASE CaughtCancelled
  BY <1>3, <1>4, <1>8, CancelRunKeeps DEF CaughtCancelled, Ends
<1>9. CASE CaughtFailed
  BY <1>3, <1>4, <1>9, CommitOutcomeKeeps DEF CaughtFailed
<1>10. CASE Fallback
  BY <1>3, <1>4, <1>10, CancelRunKeeps DEF Fallback, Ends
<1> QED BY <1>1, <1>5, <1>6, <1>7, <1>8, <1>9, <1>10 DEF EndStep

\* executeOnce returns.
LEMMA LoopEndsInductive == ASSUME IInv, LoopEnds PROVE IInv'
<1>0. /\ TypeOK /\ executionRevision \in Nat /\ aborted \in BOOLEAN /\ run.revision \in Nat
      /\ held \in [Question -> HeldState]
  BY QueueTyped DEF IInv
<1>1. UNCHANGED <<fanout, queue, job, caller, effect, aborted, reportsLeft, cancelling, flight>>
  BY DEF LoopEnds
<1>2. StoreKept /\ OpenKept /\ ToolsKept /\ executionRevision' \in Nat
  BY <1>0, SameStore, CommitPhaseKeeps DEF LoopEnds
<1>3. AsksKept /\ \A q \in Question : held'[q] = "waiting" => held[q] = "waiting"
  BY <1>0, RejectLiveKeeps DEF LoopEnds, Returned, AsksKept
<1>4. TasksKept /\ aborted' \in BOOLEAN
  BY <1>0, <1>1 DEF TasksKept
<1>5. WaitersCanBeAnswered'
  BY <1>1, <1>2, <1>3, WaitersKept
<1>6. \A c \in Caller : caller[c] \in Through
  <2>1. Settled => \A c \in Caller : caller[c] \in Through
    BY DEF Settled, Suspended, Through
  <2> QED BY <2>1 DEF LoopEnds, IInv, StageShape
<1>7. attempt' = "draining" /\ result' \in {"none", "input_required", "outcome"}
  BY DEF LoopEnds
<1>8. StageShape' /\ AttemptLeavesNoOrphan'
  BY <1>1, <1>6, <1>7 DEF StageShape, AttemptLeavesNoOrphan
<1>9. TypeOK'
  BY <1>0, <1>1, <1>2, <1>3, <1>4, <1>7, TasksKeptInv DEF TypeOK
<1> QED BY <1>2, <1>3, <1>4, <1>5, <1>8, <1>9, TasksKeptInv DEF IInv

-----------------------------------------------------------------------------
(* The callers *)

CallerState == {"working", "asking", "calling", "replying", "over", "suspended"}
TaskRecord == [caller: Caller, kind: {"tool", "output", "report"}]

\* What the queue holds.
LEMMA TasksTyped ==
  ASSUME TypeOK
  PROVE  /\ queue \in Seq(TaskRecord)
         /\ \A i \in 1 .. Len(queue) : /\ queue[i].caller \in Caller
                                       /\ queue[i].kind \in {"tool", "output", "report"}
<1>1. queue \in Seq(TaskRecord)
  BY DEF TypeOK, QueueTypeOK, TaskRecord
<1>2. \A i \in 1 .. Len(queue) : queue[i] \in TaskRecord
  BY <1>1, ElementOfSeq
<1> QED BY <1>1, <1>2 DEF TaskRecord

\* The task of a caller that waited for none may be queued.
MayEnqueue(c, kind) ==
  /\ kind = "tool" =>
       /\ caller[c] \notin {"calling", "replying"} /\ caller'[c] = "calling"
       /\ \A k \in 1 .. LastCall(c) : Idle(<<c, k>>)
  /\ kind = "output" => caller[c] \notin {"calling", "replying"} /\ caller'[c] = "replying"

\* A caller moves, and may queue a task it then waits for.
LEMMA CallersMove ==
  ASSUME IInv, UNCHANGED <<toolCalls, fanout, job, effect>>,
         \A c \in Caller : /\ caller[c] \in {"calling", "replying"} => caller'[c] = caller[c]
                           /\ caller'[c] = "suspended" => caller[c] = "suspended",
         \/ queue' = queue
         \/ \E c \in Caller, kind \in {"tool", "output", "report"} :
              queue' = Append(queue, [caller |-> c, kind |-> kind]) /\ MayEnqueue(c, kind)
  PROVE  TaskInv' /\ queue' \in Seq(TaskRecord)
<1>0. /\ queue \in Seq(TaskRecord)
      /\ \A i \in 1 .. Len(queue) : /\ queue[i].caller \in Caller
                                    /\ queue[i].kind \in {"tool", "output", "report"}
                                    /\ TaskShape(i)
      /\ job # NoJob => job.caller \in Caller /\ caller[job.caller] = "calling"
  BY TasksTyped DEF IInv, TypeOK, QueueTypeOK, TaskInv, JobShape
<1>1. JobShape' /\ SuspendedIdle'
  <2>1. Call' = Call
    BY DEF Call
  <2> QED BY <1>0, <2>1 DEF IInv, TaskInv, JobShape, SuspendedIdle, Idle, LastCall
<1>2. ASSUME NEW c \in Caller, NEW kind, Waits(c, kind) PROVE Waits(c, kind)'
  BY <1>2 DEF Waits, Idle, LastCall
<1>3. CASE queue' = queue
  <2>1. ASSUME NEW i \in 1 .. Len(queue) PROVE TaskShape(i)'
    <3>1. PICK c \in Caller, kind \in {"tool", "output", "report"} :
           c = queue[i].caller /\ kind = queue[i].kind
      BY <1>0
    <3>2. Waits(c, kind)'
      BY <1>0, <1>2, <3>1 DEF TaskShape
    <3> QED BY <1>0, <1>3, <3>1, <3>2 DEF TaskShape, Waits
  <2> QED BY <1>0, <1>1, <1>3, <2>1 DEF TaskInv
<1>4. ASSUME NEW c \in Caller, NEW kind \in {"tool", "output", "report"},
             queue' = Append(queue, [caller |-> c, kind |-> kind]), MayEnqueue(c, kind)
      PROVE  TaskInv' /\ queue' \in Seq(TaskRecord)
  <2> DEFINE task == [caller |-> c, kind |-> kind]
  <2>0. PICK n \in Nat \ {0} : n = Len(queue) + 1
    BY <1>0, LenProperties
  <2>1. task \in TaskRecord /\ task.caller = c /\ task.kind = kind
    BY DEF TaskRecord
  <2> HIDE DEF task
  <2>2. /\ queue' \in Seq(TaskRecord) /\ Len(queue') = n /\ queue'[n] = task
        /\ \A i \in 1 .. Len(queue) : queue'[i] = queue[i] /\ i # n
        /\ \A i \in 1 .. n : i = n \/ i \in 1 .. Len(queue)
    BY <1>0, <1>4, <2>0, <2>1, AppendProperties, LenProperties DEF task
  <2>3. \A i \in 1 .. Len(queue) : kind # "report" /\ queue[i].kind # "report" => queue[i].caller # c
    BY <1>0, <1>4 DEF TaskShape, Waits, MayEnqueue
  <2>4. ASSUME NEW i \in 1 .. Len(queue) PROVE TaskShape(i)'
    <3>1. PICK d \in Caller, k \in {"tool", "output", "report"} :
           d = queue[i].caller /\ k = queue[i].kind
      BY <1>0
    <3>2. Waits(d, k)'
      BY <1>0, <1>2, <3>1 DEF TaskShape
    <3>3. k # "report" => \A j \in 1 .. n : j # i /\ queue'[j].kind # "report" => queue'[j].caller # d
      BY <1>0, <2>1, <2>2, <2>3, <3>1 DEF TaskShape
    <3> QED BY <2>2, <3>1, <3>2, <3>3 DEF TaskShape, Waits
  <2>5. TaskShape(n)'
    <3>1. kind = "tool" /\ job # NoJob => c # job.caller
      BY <1>0, <1>4 DEF MayEnqueue
    <3>2. Waits(c, kind)'
      BY <1>4, <3>1 DEF Waits, MayEnqueue, LastCall, Idle
    <3>3. kind # "report" => \A j \in 1 .. n : j # n /\ queue'[j].kind # "report" => queue'[j].caller # c
      BY <2>2, <2>3
    <3> QED BY <2>1, <2>2, <3>2, <3>3 DEF TaskShape, Waits
  <2> QED BY <1>1, <2>2, <2>4, <2>5 DEF TaskInv
<1> QED BY <1>3, <1>4

\* A caller moves, may ask, and may queue a task.
LEMMA CallersInductive ==
  ASSUME IInv, UNCHANGED <<toolCalls, fanout, job, effect, aborted, result, cancelling, flight>>,
         StoreKept, OpenKept,
         executionRevision' \in Nat, reportsLeft' \in 0 .. MaxReports,
         attempt' \in {"loop", "joining", "joined"},
         caller' \in [Caller -> CallerState], held' \in [Question -> HeldState],
         \A c \in Caller : /\ caller[c] \in {"calling", "replying"} => caller'[c] = caller[c]
                           /\ caller'[c] = "suspended" => caller[c] = "suspended",
         \/ queue' = queue
         \/ \E c \in Caller, kind \in {"tool", "output", "report"} :
              queue' = Append(queue, [caller |-> c, kind |-> kind]) /\ MayEnqueue(c, kind),
         \A q \in Question : held'[q] = "waiting" => held[q] = "waiting",
         \A c \in Caller : /\ held'[<<c, "model">>] \in Asking => caller'[c] = "asking"
                           /\ held'[<<c, "tool">>] = held[<<c, "tool">>],
         StageShape'
  PROVE  IInv'
<1>0. TypeOK /\ aborted \in BOOLEAN /\ fanout \in BOOLEAN
  BY QueueTyped DEF IInv
<1>1. TaskInv' /\ queue' \in Seq(TaskRecord)
  BY CallersMove
<1>2. EffectsAreLogged'
  BY LoggedKept DEF ToolsKept
<1>3. WaitersCanBeAnswered' /\ AttemptLeavesNoOrphan'
  BY WaitersKept, OrphanKept
<1>4. AskShape'
  BY DEF IInv, AskShape, At
<1>5. QueueTypeOK'
  BY <1>0, <1>1 DEF TypeOK, QueueTypeOK, TaskRecord, CallerState, HeldState
<1>6. TypeOK'
  BY <1>0, <1>5 DEF TypeOK, StoreKept
<1> QED BY <1>1, <1>2, <1>3, <1>4, <1>6 DEF IInv, StoreKept

\* The steps of a caller.
LEMMA CallerStepInductive == ASSUME IInv, NEW c \in Caller, CallerStep(c) \/ CallerEnds(c) PROVE IInv'
<1>0. /\ TypeOK /\ executionRevision \in Nat /\ held \in [Question -> HeldState]
      /\ caller \in [Caller -> CallerState] /\ reportsLeft \in 0 .. MaxReports
      /\ attempt \in {"loop", "joined"}
  BY QueueTyped DEF IInv, TypeOK, QueueTypeOK, CallerState, CallerStep, CallerEnds
<1>pairs. \A d \in Caller : <<d, "model">> \in Question /\ <<d, "tool">> \in Question
  BY DEF Question
<1>1. UNCHANGED <<storeVars, fanout, executionRevision, job, effect, aborted, loopVars>>
  BY DEF CallerStep, CallerEnds, CallTools, Interact, Report, Reply, InteractReturns
<1>2. StoreKept /\ OpenKept
  BY <1>1, SameStore
<1>3. StageShape'
  BY <1>0, <1>1, StageKept DEF loopVars
<1>4. ASSUME UNCHANGED held, reportsLeft' \in 0 .. MaxReports,
             NEW state \in CallerState, state # "suspended", state # caller[c] => caller[c] = "working",
             caller' = [caller EXCEPT ![c] = state],
             \/ queue' = queue
             \/ \E kind \in {"tool", "output", "report"} :
                  queue' = Append(queue, [caller |-> c, kind |-> kind]) /\ MayEnqueue(c, kind)
      PROVE  IInv'
  <2>1. \A d \in Caller : /\ caller[d] \in {"calling", "replying"} => caller'[d] = caller[d]
                          /\ caller'[d] = "suspended" => caller[d] = "suspended"
                          /\ caller[d] = "asking" => caller'[d] = "asking"
    BY <1>0, <1>4
  <2>2. caller' \in [Caller -> CallerState]
    BY <1>0, <1>4
  <2>3. \A d \in Caller : held[<<d, "model">>] \in Asking => caller'[d] = "asking"
    BY <2>1 DEF IInv, AskShape
  <2> QED BY <1>0, <1>1, <1>2, <1>3, <1>4, <2>1, <2>2, <2>3, CallersInductive DEF storeVars, loopVars
<1>5. ASSUME UNCHANGED <<queue, reportsLeft>>,
             NEW state \in {"asking", "working", "over"}, caller[c] \in {"working", "asking"},
             caller' = [caller EXCEPT ![c] = state],
             NEW question \in {"raising", "rejected", "over"}, question = "over" \/ state = "asking",
             held' = [held EXCEPT ![<<c, "model">>] = question]
      PROVE  IInv'
  <2>1. \A d \in Caller : /\ caller[d] \in {"calling", "replying"} => caller'[d] = caller[d]
                          /\ caller'[d] = "suspended" => caller[d] = "suspended"
    BY <1>0, <1>5
  <2>2. caller' \in [Caller -> CallerState] /\ held' \in [Question -> HeldState]
    BY <1>0, <1>5 DEF CallerState, HeldState
  <2>3. \A d \in Caller : /\ held'[<<d, "model">>] \in Asking => caller'[d] = "asking"
                          /\ held'[<<d, "tool">>] = held[<<d, "tool">>]
    BY <1>0, <1>pairs, <1>5 DEF IInv, AskShape, Asking
  <2>4. \A q \in Question : held'[q] = "waiting" => held[q] = "waiting"
    BY <1>0, <1>5
  <2> QED BY <1>0, <1>1, <1>2, <1>3, <1>5, <2>1, <2>2, <2>3, <2>4, CallersInductive
          DEF storeVars, loopVars
<1>6. CASE CallTools(c)
  <2>1. caller' = [caller EXCEPT ![c] = "calling"] /\ caller[c] = "working"
    BY <1>6 DEF CallTools
  <2>2. \A k \in 1 .. LastCall(c) : Idle(<<c, k>>)
    BY <1>6 DEF CallTools, CallsOf, LastCall, Idle
  <2>3. MayEnqueue(c, "tool")
    BY <1>0, <2>1, <2>2 DEF MayEnqueue
  <2> QED BY <1>0, <1>4, <1>6, <2>1, <2>3 DEF CallTools, Enqueue, CallerState
<1>7. CASE Interact(c)
  <2>1. Asked(<<c, "model">>) \in {"raising", "rejected"}
    BY DEF Asked
  <2> QED BY <1>5, <1>7, <2>1 DEF Interact
<1>8. CASE Report(c)
  <2>1. reportsLeft' \in 0 .. MaxReports
    BY <1>0, <1>8, MaxReportsAssumption DEF Report
  <2>2. caller' = [caller EXCEPT ![c] = caller[c]] /\ caller[c] \in CallerState
        /\ caller[c] # "suspended"
    BY <1>0, <1>8 DEF Report
  <2>3. MayEnqueue(c, "report")
    BY DEF MayEnqueue
  <2> QED BY <1>4, <1>8, <2>1, <2>2, <2>3 DEF Report, Enqueue
<1>9. CASE Reply(c)
  <2>1. caller' = [caller EXCEPT ![c] = "replying"] /\ caller[c] = "working"
    BY <1>9 DEF Reply
  <2>2. MayEnqueue(c, "output")
    BY <1>0, <2>1 DEF MayEnqueue
  <2> QED BY <1>0, <1>4, <1>9, <2>1, <2>2 DEF Reply, Enqueue, CallerState
<1>10. CASE InteractReturns(c)
  BY <1>5, <1>10 DEF InteractReturns
<1>11. CASE CallerEnds(c)
  BY <1>0, <1>4, <1>11 DEF CallerEnds, CallerState
<1> QED BY <1>6, <1>7, <1>8, <1>9, <1>10, <1>11 DEF CallerStep

\* A fan-out is joined, and the join Phase takes the Tool Call over.
LEMMA JoinInductive == ASSUME IInv, Join \/ EnterJoin PROVE IInv'
<1>0. /\ TypeOK /\ executionRevision \in Nat /\ held \in [Question -> HeldState]
      /\ run.revision \in Nat /\ caller \in [Caller -> CallerState]
      /\ reportsLeft \in 0 .. MaxReports
  BY QueueTyped DEF IInv, TypeOK, QueueTypeOK, CallerState
<1>1. \A c \in Caller : held[<<c, "model">>] \in Asking => caller[c] = "asking"
  BY DEF IInv, AskShape
<1>2. CASE Join
  <2>1. /\ UNCHANGED <<storeVars, fanout, executionRevision, queue, job, held, effect, aborted,
                       reportsLeft, result, cancelling, flight>>
        /\ attempt' = "joining" /\ fanout /\ Settled
    BY <1>2 DEF Join
  <2>2. PICK kept \in SUBSET Suspended :
          caller' = [c \in Caller |-> IF c \in Suspended \ kept THEN "over" ELSE caller[c]]
    BY <1>2 DEF Join
  <2>3. \A c \in Caller : caller[c] \in Through
    BY <2>1 DEF Settled, Suspended, Through
  <2>4. \A c \in Caller : caller'[c] \in Through /\ (caller'[c] = "suspended" => caller[c] = "suspended")
    BY <2>2, <2>3 DEF Through
  <2>5. caller' \in [Caller -> CallerState]
    BY <1>0, <2>2 DEF CallerState
  <2>6. StageShape'
    BY <2>1, <2>4 DEF StageShape
  <2>7. StoreKept /\ OpenKept
    BY <2>1, SameStore
  <2>8. \A c \in Caller : /\ held[<<c, "model">>] \notin Asking
                          /\ caller[c] \notin {"calling", "replying"}
    BY <1>1, <2>3 DEF Through
  <2> QED BY <1>0, <2>1, <2>4, <2>5, <2>6, <2>7, <2>8, CallersInductive DEF storeVars
<1>3. CASE EnterJoin
  <2>1. /\ UNCHANGED <<fanout, job, held, effect, aborted, reportsLeft, result, cancelling, flight>>
        /\ CommitPhase /\ executionRevision' = run.revision + 1
        /\ attempt = "joining" /\ attempt' = "joined"
        /\ caller' = [c \in Caller |-> IF c \in Suspended THEN "calling" ELSE caller[c]]
    BY <1>3 DEF EnterJoin
  <2>2. PICK c \in Suspended : Enqueue(c, "tool")
    BY <1>3 DEF EnterJoin
  <2>3. fanout /\ \A d \in Caller : caller[d] \in Through
    BY <2>1 DEF IInv, StageShape
  <2>4. c \in Caller /\ caller[c] = "suspended"
    BY DEF Suspended
  <2>5. MayEnqueue(c, "tool")
    <3>1. \A k \in 1 .. LastCall(c) : Idle(<<c, k>>)
      BY <2>3, <2>4 DEF IInv, TaskInv, SuspendedIdle, LastCall
    <3> QED BY <2>1, <2>4, <3>1 DEF MayEnqueue
  <2>6. caller' \in [Caller -> CallerState]
    BY <1>0, <2>1 DEF CallerState
  <2>7. StageShape'
    BY <2>1, <2>3 DEF StageShape
  <2>8. StoreKept /\ OpenKept /\ toolCalls' = toolCalls
    BY <2>1, CommitPhaseKeeps DEF CommitPhase
  <2>9. \A d \in Caller : /\ held[<<d, "model">>] \notin Asking
                          /\ caller[d] \notin {"calling", "replying"}
                          /\ caller'[d] = "suspended" => caller[d] = "suspended"
    BY <1>1, <2>1, <2>3 DEF Through
  <2>10. \E d \in Caller, kind \in {"tool", "output", "report"} :
            queue' = Append(queue, [caller |-> d, kind |-> kind]) /\ MayEnqueue(d, kind)
    BY <2>2, <2>4, <2>5 DEF Enqueue
  <2>11. executionRevision' \in Nat
    BY <1>0, <2>1
  <2> QED BY <1>0, <2>1, <2>6, <2>7, <2>8, <2>9, <2>10, <2>11, CallersInductive
<1> QED BY <1>2, <1>3

-----------------------------------------------------------------------------
(* The tasks *)

JobRecord == [caller: Caller, at: 1 .. BatchSize, step: Step, next: Step,
              revision: Nat, batch: BOOLEAN]
EffectState == {"none", "running", "asked", "done", "unknown"}

\* The types of the task that runs and of what it works on.
LEMMA JobTyped ==
  ASSUME TypeOK
  PROVE  /\ caller \in [Caller -> CallerState]
         /\ effect \in [ToolCallId -> EffectState]
         /\ reportsLeft \in 0 .. MaxReports
         /\ job = NoJob \/ job \in JobRecord
         /\ job # NoJob => Call \in ToolCallId /\ job.caller \in Caller /\ job.at \in 1 .. BatchSize
BY DEF TypeOK, QueueTypeOK, CallerState, EffectState, JobRecord, Call, ToolCallId

\* The Tool Calls of a caller's task are its first, up to the last.
LEMMA CallsTyped ==
  ASSUME NEW c \in Caller
  PROVE  /\ LastCall(c) \in 1 .. BatchSize
         /\ \A k \in 1 .. LastCall(c) : <<c, k>> \in ToolCallId
         /\ CallsOf(c) = {c} \X (1 .. LastCall(c))
         /\ Cardinality(CallsOf(c)) = LastCall(c)
<1>1. BatchSize \in Nat \ {0}
  BY CallerAssumption
<1>2. LastCall(c) \in 1 .. BatchSize /\ CallsOf(c) = {c} \X (1 .. LastCall(c))
  BY <1>1 DEF LastCall, CallsOf
<1>3. \A k \in 1 .. LastCall(c) : <<c, k>> \in ToolCallId
  BY <1>1, <1>2 DEF ToolCallId
<1>4. Cardinality(CallsOf(c)) = LastCall(c)
  <2>1. PICK n \in Nat : n = LastCall(c) /\ n >= 1
    BY <1>1, <1>2
  <2>2. IsFiniteSet(1 .. n) /\ Cardinality(1 .. n) = n
    BY <2>1, FS_Interval
  <2>3. IsFiniteSet({c}) /\ Cardinality({c}) = 1
    BY FS_Singleton
  <2>4. Cardinality({c} \X (1 .. n)) = 1 * n
    BY <2>2, <2>3, FS_Product
  <2> QED BY <1>2, <2>1, <2>4
<1> QED BY <1>2, <1>3, <1>4

\* No task's record is the record of no task.
LEMMA RecordIsJob == ASSUME NEW j \in JobRecord PROVE j # NoJob
BY DEF JobRecord, NoJob, Step

\* A step of the Tool queue preserves the invariant if it preserves the parts
\* about tasks, questions and effects.
LEMMA TaskFrame ==
  ASSUME IInv, UNCHANGED <<fanout, aborted, reportsLeft, loopVars>>,
         StoreKept, OpenKept, EffectsAreLogged', AskShape', TaskInv',
         executionRevision' \in Nat,
         queue' \in Seq(TaskRecord), queue = <<>> => queue' = <<>>,
         job' = NoJob \/ job' \in JobRecord,
         caller' \in [Caller -> CallerState],
         \A c \in Caller : caller[c] \in Through => caller'[c] \in Through,
         effect' \in [ToolCallId -> EffectState],
         held' \in [Question -> HeldState],
         \A q \in Question : held'[q] = "waiting" => held[q] = "waiting"
  PROVE  IInv'
<1>0. TypeOK /\ aborted \in BOOLEAN /\ fanout \in BOOLEAN /\ reportsLeft \in 0 .. MaxReports
  BY QueueTyped, JobTyped DEF IInv
<1>1. WaitersCanBeAnswered' /\ AttemptLeavesNoOrphan'
  BY WaitersKept, OrphanKept DEF loopVars
<1>2. StageShape'
  BY StageKept DEF loopVars
<1>3. QueueTypeOK'
  BY <1>0 DEF QueueTypeOK, TaskRecord, JobRecord, CallerState, HeldState, EffectState
<1>4. TypeOK'
  BY <1>0, <1>3 DEF TypeOK, StoreKept, loopVars
<1> QED BY <1>1, <1>2, <1>4 DEF IInv, StoreKept

\* A task that does not wait for an answer has asked nothing.
LEMMA AsksSame ==
  ASSUME IInv, held' = held, ~At("wait"),
         \A c \in Caller : caller[c] = "asking" => caller'[c] = "asking"
  PROVE  AskShape'
BY DEF IInv, AskShape

\* Tool Calls are written before their effects.
LEMMA WrittenIsLogged ==
  ASSUME IInv, effect' = effect, NEW ts, NEW status \in {"pending", "in_progress", "completed", "failed"},
         \A t \in ToolCallId : toolCalls'[t] = IF t \in ts THEN status ELSE toolCalls[t],
         status # "pending" \/ \A t \in ts : Idle(t)
  PROVE  EffectsAreLogged'
BY DEF IInv, EffectsAreLogged, Idle

\* The task in front leaves the queue; the others are as they were.
LEMMA TaskBegins ==
  ASSUME IInv, queue # <<>>, queue' = Tail(queue),
         \A c \in Caller, kind \in {"tool", "output", "report"} :
           /\ Waits(c, kind)
           /\ kind # "report" /\ Head(queue).kind # "report" => c # Head(queue).caller
           => Waits(c, kind)'
  PROVE  queue' \in Seq(TaskRecord) /\ \A i \in 1 .. Len(queue') : TaskShape(i)'
<1>0. /\ queue \in Seq(TaskRecord)
      /\ \A i \in 1 .. Len(queue) : /\ queue[i].caller \in Caller
                                    /\ queue[i].kind \in {"tool", "output", "report"}
                                    /\ TaskShape(i)
  BY TasksTyped DEF IInv, TaskInv
<1>1. /\ queue' \in Seq(TaskRecord) /\ Len(queue') = Len(queue) - 1 /\ Len(queue) \in Nat \ {0}
      /\ \A i \in 1 .. Len(queue') : queue'[i] = queue[i + 1]
  BY <1>0, HeadTailProperties, EmptySeq
<1>2. Head(queue) = queue[1]
  BY <1>0
<1>3. \A i \in 1 .. Len(queue') : i + 1 \in 1 .. Len(queue) /\ i + 1 # 1
  BY <1>1
<1>4. ASSUME NEW i \in 1 .. Len(queue') PROVE TaskShape(i)'
  <2>1. PICK c \in Caller, kind \in {"tool", "output", "report"} :
          c = queue[i + 1].caller /\ kind = queue[i + 1].kind
    BY <1>0, <1>3
  <2>2. 1 \in 1 .. Len(queue)
    BY <1>1
  <2>3. kind # "report" /\ queue[1].kind # "report" => c # queue[1].caller
    BY <1>0, <1>3, <2>1, <2>2 DEF TaskShape
  <2>4. Waits(c, kind)
    BY <1>0, <1>3, <2>1 DEF TaskShape
  <2>5. Waits(c, kind)'
    BY <1>2, <2>3, <2>4
  <2>6. ASSUME NEW j \in 1 .. Len(queue'), j # i, kind # "report", queue'[j].kind # "report"
        PROVE  queue'[j].caller # c
    <3>1. j + 1 # i + 1
      BY <1>1, <2>6
    <3> QED BY <1>0, <1>1, <1>3, <2>1, <2>6, <3>1 DEF TaskShape
  <2> QED BY <1>1, <2>1, <2>5, <2>6 DEF TaskShape, Waits
<1> QED BY <1>1, <1>4

\* The running task goes on with the same Tool Call.
LEMMA JobGoes ==
  ASSUME IInv, job # NoJob,
         UNCHANGED <<fanout, queue, caller, aborted, reportsLeft, loopVars>>,
         held' \in [Question -> HeldState], AskShape',
         \A q \in Question : held'[q] = "waiting" => held[q] = "waiting",
         StoreKept, OpenKept, EffectsAreLogged', executionRevision' \in Nat,
         effect' \in [ToolCallId -> EffectState],
         NEW t, t = Call, \A u \in ToolCallId : u # t => effect'[u] = effect[u],
         NEW step \in Step \ {"reserveAll"}, NEW next \in Step, NEW revision \in Nat,
         job' = [job EXCEPT !.step = step, !.next = next, !.revision = revision],
         step \in Before => effect'[t] \in {"none", "asked"},
         step = "reserve" => toolCalls'[t] = "absent" /\ next \in {"start", "deny", "ask"},
         step = "execute" => toolCalls'[t] \notin {"absent", "pending"},
         step = "running" => effect'[t] = "running"
  PROVE  IInv'
<1>0. /\ TypeOK /\ job \in JobRecord /\ t = <<job.caller, job.at>> /\ job.at \in 1 .. BatchSize
      /\ caller \in [Caller -> CallerState]
      /\ queue \in Seq(TaskRecord) /\ job.caller \in Caller
  BY JobTyped, QueueTyped, TasksTyped DEF IInv, Call
<1>1. /\ job' \in JobRecord /\ job'.caller = job.caller /\ job'.at = job.at
      /\ job'.step = step /\ job'.next = next
  BY <1>0 DEF JobRecord
<1>2. job' # NoJob /\ Call' = t
  BY <1>0, <1>1, RecordIsJob DEF Call
<1>3. ASSUME NEW c \in Caller, NEW k \in 1 .. LastCall(c), <<c, k>> # t, Idle(<<c, k>>)
      PROVE  Idle(<<c, k>>)'
  <2>1. <<c, k>> \in ToolCallId
    BY CallsTyped
  <2> QED BY <1>3, <2>1 DEF Idle
<1>4. JobShape'
  <2>1. /\ caller[job.caller] = "calling" /\ job.at <= LastCall(job.caller)
        /\ \A k \in 1 .. LastCall(job.caller) : k > job.at => Idle(<<job.caller, k>>)
    BY DEF IInv, TaskInv, JobShape
  <2>2. LastCall(job.caller)' = LastCall(job.caller)
    BY <1>1 DEF LastCall
  <2>3. \A k \in 1 .. LastCall(job.caller) : k > job.at => Idle(<<job.caller, k>>)'
    BY <1>0, <1>3, <2>1
  <2>4. step \in Before => Idle(t)'
    BY DEF Idle
  <2> QED BY <1>0, <1>1, <1>2, <2>1, <2>2, <2>3, <2>4 DEF JobShape, Idle
<1>5. \A i \in 1 .. Len(queue) : TaskShape(i)'
  <2> SUFFICES ASSUME NEW i \in 1 .. Len(queue) PROVE TaskShape(i)'
    OBVIOUS
  <2>1. PICK c \in Caller, kind \in {"tool", "output", "report"} :
           c = queue[i].caller /\ kind = queue[i].kind
    BY <1>0, TasksTyped
  <2>2. Waits(c, kind) /\ TaskShape(i)
    BY <2>1 DEF IInv, TaskInv, TaskShape
  <2>3. LastCall(c)' = LastCall(c)
    BY DEF LastCall
  <2>4. kind = "tool" => \A k \in 1 .. LastCall(c) : Idle(<<c, k>>)'
    BY <1>0, <1>3, <2>2 DEF Waits
  <2>5. Waits(c, kind)'
    BY <1>1, <2>2, <2>3, <2>4 DEF Waits
  <2> QED BY <2>1, <2>2, <2>5 DEF TaskShape, Waits
<1>6. SuspendedIdle'
  <2> SUFFICES ASSUME fanout, NEW c \in Caller, caller[c] = "suspended" PROVE Idle(<<c, 1>>)'
    BY DEF SuspendedIdle
  <2>1. Idle(<<c, 1>>) /\ LastCall(c) = 1
    BY DEF IInv, TaskInv, SuspendedIdle, LastCall
  <2>2. c # job.caller
    BY DEF IInv, TaskInv, JobShape
  <2> QED BY <1>0, <1>3, <2>1, <2>2
<1>7. TaskInv'
  BY <1>4, <1>5, <1>6 DEF TaskInv
<1> QED BY <1>0, <1>1, <1>7, TaskFrame

\* The variables a step of the running task leaves alone.
TaskLeaves == UNCHANGED <<fanout, queue, held, aborted, reportsLeft, loopVars>>

\* It goes on, and has asked nothing.
LEMMA JobGoesOn ==
  ASSUME IInv, NEW from \in Step \ {"wait"}, At(from), TaskLeaves, caller' = caller, effect' = effect,
         StoreKept, OpenKept, EffectsAreLogged', executionRevision' \in Nat,
         NEW step \in Step \ {"reserveAll", "running"}, NEW next \in Step, NEW revision \in Nat,
         job' = [job EXCEPT !.step = step, !.next = next, !.revision = revision],
         step \in Before => Idle(Call),
         step = "reserve" => toolCalls'[Call] = "absent" /\ next \in {"start", "deny", "ask"},
         step = "execute" => toolCalls'[Call] \notin {"absent", "pending"}
  PROVE  IInv'
<1>1. /\ TypeOK /\ job # NoJob /\ ~At("wait")
      /\ held \in [Question -> HeldState] /\ effect \in [ToolCallId -> EffectState]
  BY QueueTyped, JobTyped DEF IInv, At
<1>2. PICK t \in ToolCallId : t = Call
  BY <1>1, JobTyped
<1>3. AskShape'
  BY <1>1, AsksSame DEF TaskLeaves
<1> QED BY <1>1, <1>2, <1>3, JobGoes DEF TaskLeaves, Idle

\* Changing one field of the task is changing it and keeping the others.
LEMMA JobForms ==
  ASSUME job \in JobRecord, NEW step, NEW revision
  PROVE  /\ [job EXCEPT !.step = step] =
              [job EXCEPT !.step = step, !.next = job.next, !.revision = job.revision]
         /\ [job EXCEPT !.step = step, !.revision = revision] =
              [job EXCEPT !.step = step, !.next = job.next, !.revision = revision]
BY DEF JobRecord

\* The task ends and its caller goes on, is through, or suspends.
LEMMA JobEnds ==
  ASSUME IInv, NEW from \in Step \ {"wait"}, At(from), TaskLeaves, effect' = effect,
         StoreKept, OpenKept, EffectsAreLogged', executionRevision' \in Nat,
         NEW state \in {"working", "over", "suspended"},
         job' = NoJob, caller' = [caller EXCEPT ![job.caller] = state],
         state = "suspended" => Idle(Call)
  PROVE  IInv'
<1>0. /\ TypeOK /\ job # NoJob /\ job \in JobRecord /\ Call = <<job.caller, job.at>>
      /\ job.at \in 1 .. BatchSize /\ job.caller \in Caller /\ ~At("wait")
      /\ caller \in [Caller -> CallerState] /\ held \in [Question -> HeldState]
      /\ effect \in [ToolCallId -> EffectState] /\ queue \in Seq(TaskRecord)
      /\ BatchSize \in Nat
  BY JobTyped, QueueTyped, TasksTyped, CallerAssumption DEF IInv, Call, At
<1>1. caller[job.caller] = "calling" /\ job.at <= LastCall(job.caller)
  BY <1>0 DEF IInv, TaskInv, JobShape
<1>2. /\ caller' \in [Caller -> CallerState]
      /\ caller'[job.caller] = state
      /\ \A c \in Caller : c # job.caller => caller'[c] = caller[c]
  BY <1>0 DEF CallerState
<1>3. \A i \in 1 .. Len(queue) : TaskShape(i)'
  <2> SUFFICES ASSUME NEW i \in 1 .. Len(queue) PROVE TaskShape(i)'
    OBVIOUS
  <2>1. PICK c \in Caller, kind \in {"tool", "output", "report"} :
           c = queue[i].caller /\ kind = queue[i].kind
    BY <1>0, TasksTyped
  <2>2. Waits(c, kind) /\ TaskShape(i)
    BY <2>1 DEF IInv, TaskInv, TaskShape
  <2>3. Waits(c, kind)'
    BY <1>0, <1>1, <1>2, <2>2 DEF Waits, Idle, LastCall, TaskLeaves
  <2> QED BY <2>1, <2>2, <2>3 DEF TaskShape, Waits, TaskLeaves
<1>4. SuspendedIdle'
  <2> SUFFICES ASSUME fanout, NEW c \in Caller, caller'[c] = "suspended" PROVE Idle(<<c, 1>>)
    BY DEF SuspendedIdle, TaskLeaves, Idle
  <2>1. CASE c # job.caller
    BY <1>2, <2>1 DEF IInv, TaskInv, SuspendedIdle
  <2>2. CASE c = job.caller
    <3>1. job.at = 1
      BY <1>0, <1>1 DEF LastCall
    <3> QED BY <1>0, <1>2, <2>2, <3>1
  <2> QED BY <2>1, <2>2
<1>5. TaskInv'
  BY <1>3, <1>4 DEF TaskInv, JobShape, TaskLeaves
<1>6. \A c \in Caller : /\ caller[c] = "asking" => caller'[c] = "asking"
                        /\ caller[c] \in Through => caller'[c] \in Through
  BY <1>1, <1>2 DEF Through
<1>7. AskShape'
  BY <1>0, <1>6, AsksSame DEF TaskLeaves
<1> QED BY <1>0, <1>2, <1>5, <1>6, <1>7, TaskFrame DEF TaskLeaves

\* It ends, or goes on with the next Tool Call of its batch, which has not run.
LEMMA NextCallInductive ==
  ASSUME IInv, NEW from \in Step \ {"wait"}, At(from), TaskLeaves, effect' = effect,
         StoreKept, OpenKept, EffectsAreLogged', executionRevision' \in Nat,
         NEW returned \in Nat, NextCall(returned)
  PROVE  IInv'
<1>0. /\ TypeOK /\ job # NoJob /\ job \in JobRecord
      /\ job.at \in 1 .. BatchSize /\ job.caller \in Caller /\ ~At("wait")
      /\ caller \in [Caller -> CallerState] /\ held \in [Question -> HeldState]
      /\ effect \in [ToolCallId -> EffectState] /\ queue \in Seq(TaskRecord)
      /\ BatchSize \in Nat
  BY JobTyped, QueueTyped, TasksTyped, CallerAssumption DEF IInv, At
<1>1. CASE job' = NoJob /\ caller' = [caller EXCEPT ![job.caller] = "working"]
  BY <1>1, JobEnds
<1>2. ASSUME job.at < LastCall(job.caller), caller' = caller,
             job' = [job EXCEPT !.at = job.at + 1, !.step = "decide", !.revision = returned]
      PROVE  IInv'
  <2>0. LastCall(job.caller) \in 1 .. BatchSize
    BY <1>0, CallsTyped
  <2>1. PICK n \in 1 .. BatchSize : n = job.at + 1 /\ n <= LastCall(job.caller) /\ n > job.at
    <3>1. \A m \in Nat : \A at, last \in 1 .. m :
            at < last => at + 1 \in 1 .. m /\ at + 1 <= last /\ at + 1 > at
      OBVIOUS
    <3> QED BY <1>0, <1>2, <2>0, <3>1
  <2>2. /\ job' \in JobRecord /\ job'.caller = job.caller /\ job'.at = n /\ job'.step = "decide"
    BY <1>0, <1>2, <2>1 DEF JobRecord, Step
  <2>3. job' # NoJob /\ Call' = <<job.caller, n>>
    BY <2>2, RecordIsJob DEF Call
  <2>4. /\ caller[job.caller] = "calling"
        /\ \A k \in 1 .. LastCall(job.caller) : k > job.at => Idle(<<job.caller, k>>)
    BY <1>0 DEF IInv, TaskInv, JobShape
  <2>5. n \in 1 .. LastCall(job.caller)
    BY <1>0, <2>0, <2>1
  <2>6. \A k \in 1 .. LastCall(job.caller) : k > n => k > job.at
    BY <1>0, <2>0, <2>1
  <2>7. JobShape'
    BY <1>2, <2>1, <2>2, <2>3, <2>4, <2>5, <2>6 DEF JobShape, Idle, LastCall, TaskLeaves
  <2>8. \A i \in 1 .. Len(queue) : TaskShape(i)'
    <3> SUFFICES ASSUME NEW i \in 1 .. Len(queue) PROVE TaskShape(i)'
      OBVIOUS
    <3>1. PICK c \in Caller, kind \in {"tool", "output", "report"} :
           c = queue[i].caller /\ kind = queue[i].kind
      BY <1>0, TasksTyped
    <3>2. Waits(c, kind) /\ TaskShape(i)
      BY <3>1 DEF IInv, TaskInv, TaskShape
    <3>3. Waits(c, kind)'
      BY <1>0, <1>2, <2>2, <3>2 DEF Waits, Idle, LastCall, TaskLeaves
    <3> QED BY <3>1, <3>2, <3>3 DEF TaskShape, Waits, TaskLeaves
  <2>9. SuspendedIdle'
    BY <1>2 DEF IInv, TaskInv, SuspendedIdle, Idle, TaskLeaves
  <2>10. TaskInv'
    BY <2>7, <2>8, <2>9 DEF TaskInv, TaskLeaves
  <2>11. AskShape'
    BY <1>0, <1>2, AsksSame DEF TaskLeaves
  <2> QED BY <1>0, <1>2, <2>2, <2>10, <2>11, TaskFrame DEF TaskLeaves
<1>3. Cardinality(CallsOf(job.caller)) = LastCall(job.caller)
  BY <1>0, CallsTyped
<1> QED BY <1>1, <1>2, <1>3 DEF NextCall

-----------------------------------------------------------------------------
(* Every step of the Tool queue *)

\* A write that is not accepted ends the task, but for the clean-up of Throw.
LEMMA RefusedInductive ==
  ASSUME IInv, NEW from \in Step \ {"wait"}, At(from), TaskLeaves, caller' = caller, effect' = effect,
         NEW step \in Step \ (Before \cup {"running"}), UNCHANGED storeVars,
         executionRevision' = executionRevision, Goes(step)
  PROVE  IInv'
<1>1. job \in JobRecord /\ job.next \in Step /\ job.revision \in Nat /\ executionRevision \in Nat
  BY JobTyped, QueueTyped DEF IInv, At, JobRecord
<1>2. job' = [job EXCEPT !.step = step, !.next = job.next, !.revision = job.revision]
  BY <1>1, JobForms DEF Goes
<1>3. StoreKept /\ OpenKept /\ EffectsAreLogged'
  BY SameStore, LoggedKept
<1> QED BY <1>1, <1>2, <1>3, JobGoesOn DEF Before

\* The Store writes Tool Calls of the task, and the task adopts the revision.
LEMMA WriteAdopted ==
  ASSUME IInv, NEW from \in Step \ {"wait"}, At(from), TaskLeaves, caller' = caller, effect' = effect,
         Accepts(job.revision), NEW ts \in SUBSET ToolCallId,
         NEW status \in {"pending", "in_progress", "completed", "failed"},
         \/ ReserveToolCalls(ts) /\ status = "pending"
         \/ \E t \in ToolCallId : SetToolCall(t, status) /\ ts = {t},
         status # "pending" \/ \A t \in ts : Idle(t),
         NEW step \in Step \ {"reserveAll", "reserve", "running"}, Adopt(step),
         step \in Before => Idle(Call),
         step = "execute" => status # "pending" /\ Call \in ts
  PROVE  IInv'
<1>1. /\ job \in JobRecord /\ job.next \in Step /\ run.revision + 1 \in Nat /\ Call \in ToolCallId
  BY JobTyped, QueueTyped DEF IInv, At, JobRecord
<1>2. /\ job' = [job EXCEPT !.step = step, !.next = job.next, !.revision = run.revision + 1]
      /\ executionRevision' = run.revision + 1
  BY <1>1, JobForms DEF Adopt
<1>3. /\ StoreKept /\ OpenKept
      /\ \A t \in ToolCallId : toolCalls'[t] = IF t \in ts THEN status ELSE toolCalls[t]
  BY ToolsWritten DEF Accepts
<1>4. EffectsAreLogged'
  BY <1>3, WrittenIsLogged
<1>5. step = "execute" => toolCalls'[Call] \notin {"absent", "pending"}
  BY <1>1, <1>3
<1> QED BY <1>1, <1>2, <1>3, <1>4, <1>5, JobGoesOn

\* The Store writes the Tool Call of the task, and the task goes on to the next
\* or leaves its caller in another state.
LEMMA CallWritten ==
  ASSUME IInv, NEW from \in Step \ {"wait"}, At(from), TaskLeaves, effect' = effect, HasToken,
         NEW status \in {"pending", "in_progress", "completed", "failed"}, SetToolCall(Call, status),
         status # "pending" \/ Idle(Call), executionRevision' = run.revision + 1
  PROVE  StoreKept /\ OpenKept /\ EffectsAreLogged' /\ executionRevision' \in Nat /\ run.revision + 1 \in Nat
<1>1. run.revision \in Nat /\ Call \in ToolCallId
  BY JobTyped, QueueTyped DEF IInv, At
<1>2. PICK t \in ToolCallId : t = Call
  BY <1>1
<1> DEFINE ts == {t}
<1>3. /\ StoreKept /\ OpenKept
      /\ \A u \in ToolCallId : toolCalls'[u] = IF u \in ts THEN status ELSE toolCalls[u]
  <2>1. /\ ts \in SUBSET ToolCallId
        /\ \/ ReserveToolCalls(ts) /\ status = "pending"
           \/ \E u \in ToolCallId : SetToolCall(u, status) /\ ts = {u}
    BY <1>2
  <2> HIDE DEF ts
  <2> QED BY <2>1, ToolsWritten
<1>4. EffectsAreLogged'
  <2>1. status # "pending" \/ \A u \in ts : Idle(u)
    BY <1>2
  <2> HIDE DEF ts
  <2> QED BY <1>3, <2>1, WrittenIsLogged
<1> QED BY <1>1, <1>3, <1>4

\* What a task knows of the Tool Call it works on.
LEMMA JobKnows ==
  ASSUME IInv, job # NoJob
  PROVE  /\ job.step \in Before => Idle(Call)
         /\ job.step = "reserveAll" => \A t \in CallsOf(job.caller) : Idle(t)
         /\ job.step = "reserve" => toolCalls[Call] = "absent" /\ job.next \in {"start", "deny", "ask"}
         /\ job.step = "execute" => toolCalls[Call] \notin {"absent", "pending"}
         /\ job.step = "running" => effect[Call] = "running"
<1>1. /\ job.step \in Before => Idle(Call)
      /\ job.step = "reserve" => toolCalls[Call] = "absent" /\ job.next \in {"start", "deny", "ask"}
      /\ job.step = "execute" => toolCalls[Call] \notin {"absent", "pending"}
      /\ job.step = "running" => effect[Call] = "running"
  BY DEF IInv, TaskInv, JobShape
<1>2. ASSUME job.step = "reserveAll", NEW t \in CallsOf(job.caller) PROVE Idle(t)
  <2>1. job.caller \in Caller
    BY JobTyped DEF IInv
  <2>2. PICK k \in 1 .. LastCall(job.caller) : t = <<job.caller, k>>
    BY <2>1, CallsTyped
  <2>3. job.at = 1 /\ (k > job.at => Idle(t)) /\ Idle(<<job.caller, job.at>>)
    BY <1>2, <2>2 DEF IInv, TaskInv, JobShape, Before, Call
  <2>4. k = 1 \/ k > 1
    BY <2>1, CallsTyped
  <2> QED BY <2>2, <2>3, <2>4
<1> QED BY <1>1, <1>2

\* beforeToolCall decides: where its Tool Call goes from there.
LEMMA DecideInductive ==
  ASSUME IInv, NEW choice \in {"start", "deny", "ask"}, Decide(choice)
  PROVE  loopVars' = loopVars => IInv'
<1> SUFFICES ASSUME loopVars' = loopVars PROVE IInv'
  OBVIOUS
<1>1. /\ At("decide") /\ TaskLeaves /\ caller' = caller /\ effect' = effect
      /\ UNCHANGED storeVars /\ executionRevision' = executionRevision
  BY DEF Decide, TaskLeaves
<1>2. /\ job \in JobRecord /\ job.revision \in Nat /\ executionRevision \in Nat /\ Call \in ToolCallId
      /\ job # NoJob /\ job.step = "decide" /\ Idle(Call)
  BY <1>1, JobTyped, QueueTyped, JobKnows DEF IInv, At, JobRecord, Before
<1>3. CASE Goes("throw")
  BY <1>1, <1>3, RefusedInductive DEF Step, Before
<1>4. ASSUME NEW step \in {"reserve", "execute", "start", "deny", "ask"},
             step = "reserve" => toolCalls[Call] = "absent",
             step = "execute" => toolCalls[Call] = "in_progress",
             job' = [job EXCEPT !.next = choice, !.step = step]
      PROVE  IInv'
  <2>1. job' = [job EXCEPT !.step = step, !.next = choice, !.revision = job.revision]
    BY <1>2, <1>4 DEF JobRecord
  <2>2. StoreKept /\ OpenKept /\ EffectsAreLogged' /\ toolCalls' = toolCalls
    BY <1>1, SameStore, LoggedKept DEF storeVars
  <2>3. /\ step = "reserve" => toolCalls'[Call] = "absent" /\ choice \in {"start", "deny", "ask"}
        /\ step = "execute" => toolCalls'[Call] \notin {"absent", "pending"}
    BY <1>4, <2>2
  <2>4. /\ "decide" \in Step \ {"wait"} /\ step \in Step \ {"reserveAll", "running"} /\ choice \in Step
        /\ executionRevision' \in Nat
    BY <1>1, <1>2 DEF Step
  <2> QED BY <1>1, <1>2, <2>1, <2>2, <2>3, <2>4, JobGoesOn
<1> DEFINE step == IF toolCalls[Call] = "absent" THEN "reserve"
                   ELSE IF choice = "start" /\ toolCalls[Call] = "in_progress" THEN "execute"
                   ELSE choice
<1>5. \/ Goes("throw")
      \/ job' = [job EXCEPT !.next = choice, !.step = step]
  BY DEF Decide
<1>6. /\ step \in {"reserve", "execute", "start", "deny", "ask"}
      /\ step = "reserve" => toolCalls[Call] = "absent"
      /\ step = "execute" => toolCalls[Call] = "in_progress"
  OBVIOUS
<1> HIDE DEF step
<1> QED BY <1>3, <1>4, <1>5, <1>6

\* The steps of a task that write to the Store.
LEMMA WritesInductive ==
  ASSUME IInv, ReserveAll \/ Reserve \/ Deny \/ Start \/ Commit \/ Fold \/ Indeterminate
  PROVE  loopVars' = loopVars => IInv'
<1> SUFFICES ASSUME loopVars' = loopVars PROVE IInv'
  OBVIOUS
<1>0. /\ job # NoJob /\ job \in JobRecord /\ job.caller \in Caller /\ Call \in ToolCallId
      /\ job.revision \in Nat /\ run.revision \in Nat /\ executionRevision \in Nat
      /\ TaskLeaves /\ effect' = effect
  BY JobTyped, QueueTyped DEF IInv, At, JobRecord, TaskLeaves, ReserveAll, Reserve, Deny, Start,
     Commit, Fold, Indeterminate
<1>1. CASE ReserveAll
  <2>1. CallsOf(job.caller) \in SUBSET ToolCallId /\ \A t \in CallsOf(job.caller) : Idle(t)
    <3>1. CallsOf(job.caller) \in SUBSET ToolCallId
      BY <1>0, CallsTyped
    <3> QED BY <1>0, <1>1, <3>1, JobKnows DEF ReserveAll, At
  <2>2. At("reserveAll") /\ caller' = caller /\ Idle(Call)
    BY <1>0, <1>1, JobKnows DEF ReserveAll, At, Before
  <2>3. CASE ReserveToolCalls(CallsOf(job.caller)) /\ Adopt("decide") /\ Accepts(job.revision)
    BY <1>0, <2>1, <2>2, <2>3, WriteAdopted DEF Step
  <2>4. CASE Refused
    BY <1>0, <2>2, <2>4, RefusedInductive DEF Refused, Step, Before
  <2> QED BY <1>1, <2>3, <2>4 DEF ReserveAll
<1>2. CASE Reserve
  <2>1. /\ At("reserve") /\ caller' = caller /\ Idle(Call) /\ job.next \in {"start", "deny", "ask"}
    BY <1>0, <1>2, JobKnows DEF Reserve, At, Before
  <2>2. CASE ReserveToolCalls({Call}) /\ Adopt(job.next) /\ Accepts(job.revision)
    BY <1>0, <2>1, <2>2, WriteAdopted DEF Step
  <2>3. CASE Refused
    BY <1>0, <2>1, <2>3, RefusedInductive DEF Refused, Step, Before
  <2> QED BY <1>2, <2>2, <2>3 DEF Reserve
<1>3. CASE Deny
  <2>1. At("deny")
    BY <1>3 DEF Deny
  <2>2. CASE /\ Accepts(job.revision) /\ SetToolCall(Call, "failed")
             /\ executionRevision' = run.revision + 1 /\ NextCall(run.revision + 1)
    <3>1. StoreKept /\ OpenKept /\ EffectsAreLogged' /\ executionRevision' \in Nat
      BY <1>0, <2>1, <2>2, CallWritten DEF Step, Accepts
    <3> QED BY <1>0, <2>1, <2>2, <3>1, NextCallInductive DEF Step
  <2>3. CASE Refused /\ UNCHANGED caller
    BY <1>0, <2>1, <2>3, RefusedInductive DEF Refused, Step, Before
  <2> QED BY <1>3, <2>2, <2>3 DEF Deny
<1>4. CASE Start
  <2>1. At("start") /\ caller' = caller /\ Idle(Call)
    BY <1>0, <1>4, JobKnows DEF Start, At, Before
  <2>2. CASE SetToolCall(Call, "in_progress") /\ Adopt("execute") /\ Accepts(job.revision)
    <3>1. PICK ts \in SUBSET ToolCallId : ts = {Call}
      BY <1>0
    <3> QED BY <1>0, <2>1, <2>2, <3>1, WriteAdopted DEF Step
  <2>3. CASE Refused
    BY <1>0, <2>1, <2>3, RefusedInductive DEF Refused, Step, Before
  <2> QED BY <1>4, <2>2, <2>3 DEF Start
<1>5. CASE Commit
  <2>1. At("commit") /\ caller' = caller
    BY <1>5 DEF Commit
  <2>2. CASE SetToolCall(Call, "completed") /\ Adopt("fold") /\ Accepts(job.revision)
    <3>1. PICK ts \in SUBSET ToolCallId : ts = {Call}
      BY <1>0
    <3> QED BY <1>0, <2>1, <2>2, <3>1, WriteAdopted DEF Step, Before
  <2>3. CASE UNCHANGED <<storeVars, executionRevision>> /\ Goes("indeterminate")
    BY <1>0, <2>1, <2>3, RefusedInductive DEF Step, Before
  <2> QED BY <1>5, <2>2, <2>3 DEF Commit
<1>6. CASE Fold
  <2>1. At("fold") /\ NextCall(job.revision) /\ UNCHANGED storeVars /\ executionRevision' \in Nat
    BY <1>0, <1>6 DEF Fold
  <2>2. StoreKept /\ OpenKept /\ EffectsAreLogged'
    BY <1>0, <2>1, SameStore, LoggedKept
  <2> QED BY <1>0, <2>1, <2>2, NextCallInductive DEF Step
<1>7. CASE Indeterminate
  <2>1. At("indeterminate")
    BY <1>7 DEF Indeterminate
  <2>2. CASE /\ CommitIndeterminate
             /\ executionRevision' = run.revision + 1 /\ NextCall(run.revision + 1)
    <3>1. StoreKept /\ OpenKept /\ EffectsAreLogged'
      BY <1>0, <2>2, CommitIndeterminateKeeps, LoggedKept
    <3> QED BY <1>0, <2>1, <2>2, <3>1, NextCallInductive DEF Step
  <2>3. CASE Refused /\ UNCHANGED caller
    BY <1>0, <2>1, <2>3, RefusedInductive DEF Refused, Step, Before
  <2> QED BY <1>7, <2>2, <2>3 DEF Indeterminate
<1> QED BY <1>1, <1>2, <1>3, <1>4, <1>5, <1>6, <1>7

\* A Tool Call runs only once it is logged as started.
LEMMA ExecuteInductive ==
  ASSUME IInv, Execute \/ ExecuteReturns
  PROVE  loopVars' = loopVars => IInv'
<1> SUFFICES ASSUME loopVars' = loopVars PROVE IInv'
  OBVIOUS
<1>0. /\ job # NoJob /\ job \in JobRecord /\ ~At("wait")
      /\ job.next \in Step /\ job.revision \in Nat /\ executionRevision \in Nat
      /\ held \in [Question -> HeldState] /\ effect \in [ToolCallId -> EffectState]
      /\ UNCHANGED <<fanout, storeVars, executionRevision, queue, caller, held, aborted, reportsLeft>>
  BY JobTyped, QueueTyped DEF IInv, At, JobRecord, Execute, ExecuteReturns
<1>1. PICK t \in ToolCallId : t = Call
  BY <1>0, JobTyped DEF IInv
<1>2. StoreKept /\ OpenKept /\ toolCalls' = toolCalls
  BY <1>0, SameStore DEF storeVars
<1>3. AskShape'
  BY <1>0, AsksSame
<1>4. toolCalls[t] \notin {"absent", "pending"}
  BY <1>0, <1>1, JobKnows DEF Execute, ExecuteReturns, At, IInv, EffectsAreLogged
<1>5. ASSUME NEW outcome \in EffectState, effect' = [effect EXCEPT ![t] = outcome]
      PROVE  /\ EffectsAreLogged' /\ effect' \in [ToolCallId -> EffectState]
             /\ effect'[t] = outcome /\ \A u \in ToolCallId : u # t => effect'[u] = effect[u]
  BY <1>0, <1>1, <1>2, <1>4, <1>5 DEF IInv, EffectsAreLogged
<1>6. ASSUME NEW step \in Step, NEW outcome \in EffectState, Goes(step),
             effect' = [effect EXCEPT ![t] = outcome],
             \/ step = "running" /\ outcome = "running"
             \/ step \in {"commit", "indeterminate", "throw"}
             \/ step = "suspend" /\ outcome = "asked"
      PROVE  IInv'
  <2>1. job' = [job EXCEPT !.step = step, !.next = job.next, !.revision = job.revision]
    BY <1>0, <1>6, JobForms DEF Goes
  <2>2. /\ EffectsAreLogged' /\ effect' \in [ToolCallId -> EffectState]
        /\ effect'[t] = outcome /\ \A u \in ToolCallId : u # t => effect'[u] = effect[u]
    BY <1>5, <1>6
  <2>3. /\ step \in Step \ {"reserveAll"}
        /\ step \in Before => effect'[t] \in {"none", "asked"}
        /\ step # "reserve" /\ step # "execute"
        /\ step = "running" => effect'[t] = "running"
    BY <1>6, <2>2 DEF Before
  <2> QED BY <1>0, <1>1, <1>2, <1>3, <2>1, <2>2, <2>3, JobGoes
<1>7. CASE Execute
  BY <1>1, <1>6, <1>7 DEF Execute, EffectState, Step
<1>8. CASE ExecuteReturns
  <2>1. PICK outcome \in {"done", "unknown", "asked"} :
          /\ effect' = [effect EXCEPT ![Call] = outcome]
          /\ Goes(CASE outcome = "done" -> "commit"
                    [] outcome = "unknown" -> "indeterminate"
                    [] aborted -> "throw"
                    [] OTHER -> "suspend")
    BY <1>8 DEF ExecuteReturns
  <2> DEFINE step == CASE outcome = "done" -> "commit"
                       [] outcome = "unknown" -> "indeterminate"
                       [] aborted -> "throw"
                       [] OTHER -> "suspend"
  <2>2. Goes(step) /\ step \in {"commit", "indeterminate", "throw", "suspend"}
        /\ (step = "suspend" => outcome = "asked")
    BY <2>1
  <2> HIDE DEF step
  <2>3. {"commit", "indeterminate", "throw", "suspend"} \subseteq Step /\ outcome \in EffectState
    BY DEF Step, EffectState
  <2> QED BY <1>1, <1>6, <2>1, <2>2, <2>3
<1> QED BY <1>7, <1>8

\* A Provider's Tool Call waits in the queue for its answer.
LEMMA AwaitInductive ==
  ASSUME IInv, NEW from \in {"ask", "suspend"}, At(from), AwaitInPlace,
         UNCHANGED <<storeVars, fanout, executionRevision, queue, effect, aborted, reportsLeft, loopVars>>
  PROVE  IInv'
<1>0. /\ job # NoJob /\ job \in JobRecord /\ job.caller \in Caller /\ ~At("wait")
      /\ job.next \in Step /\ job.revision \in Nat /\ executionRevision \in Nat
      /\ held \in [Question -> HeldState] /\ effect \in [ToolCallId -> EffectState]
  BY JobTyped, QueueTyped DEF IInv, At, JobRecord
<1>1. PICK t \in ToolCallId : t = Call
  BY <1>0, JobTyped DEF IInv
<1>2. StoreKept /\ OpenKept /\ EffectsAreLogged'
  BY SameStore, LoggedKept
<1>3. /\ job' = [job EXCEPT !.step = "wait", !.next = job.next, !.revision = job.revision]
      /\ caller' = caller
  BY <1>0, JobForms DEF AwaitInPlace, Goes
<1>4. Asked(<<job.caller, "tool">>) \in {"raising", "rejected"}
  BY DEF Asked
<1>5. <<job.caller, "tool">> \in Question
  BY <1>0 DEF Question
<1>6. /\ held' \in [Question -> HeldState]
      /\ \A q \in Question : held'[q] = "waiting" => held[q] = "waiting"
      /\ \A q \in Question : q # <<job.caller, "tool">> => held'[q] = held[q]
  BY <1>0, <1>4, <1>5 DEF AwaitInPlace, HeldState
<1>7. At("wait")' /\ job'.caller = job.caller
  BY <1>0, <1>3, RecordIsJob DEF At, JobRecord, NoJob
<1>8. AskShape'
  <2>1. \A c \in Caller : <<c, "model">> \in Question /\ <<c, "tool">> \in Question
    BY DEF Question
  <2> QED BY <1>0, <1>3, <1>6, <1>7, <2>1 DEF IInv, AskShape
<1>9. effect'[t] \in {"none", "asked"}
  BY <1>0, <1>1, JobKnows DEF At, Before, Idle
<1>10. "wait" \in Step \ {"reserveAll"} /\ effect' = effect
  BY DEF Step, queueVars
<1>11. PICK step \in Step \ {"reserveAll"} : step = "wait"
  BY <1>10
<1>12. /\ job' = [job EXCEPT !.step = step, !.next = job.next, !.revision = job.revision]
       /\ step \notin {"reserve", "execute", "running"}
  BY <1>3, <1>11
<1>13. /\ effect' \in [ToolCallId -> EffectState] /\ executionRevision' \in Nat
       /\ \A u \in ToolCallId : u # t => effect'[u] = effect[u]
       /\ UNCHANGED <<fanout, queue, caller, aborted, reportsLeft, loopVars>>
  BY <1>0, <1>3, <1>10
<1> QED BY <1>0, <1>1, <1>2, <1>6, <1>8, <1>9, <1>12, <1>13, JobGoes

\* A Tool Call that asks, and its caller when it has no answer.
LEMMA AsksInductive ==
  ASSUME IInv, AskFirst \/ Suspend \/ Declined \/ Throw
  PROVE  loopVars' = loopVars => IInv'
<1> SUFFICES ASSUME loopVars' = loopVars PROVE IInv'
  OBVIOUS
<1>0. /\ job # NoJob /\ job.caller \in Caller /\ Call \in ToolCallId
      /\ run.revision \in Nat /\ executionRevision \in Nat
      /\ UNCHANGED <<fanout, queue, effect, aborted, reportsLeft>>
  BY JobTyped, QueueTyped DEF IInv, At, AskFirst, Suspend, Declined, Throw
<1>1. ASSUME UNCHANGED storeVars PROVE StoreKept /\ OpenKept /\ EffectsAreLogged'
  BY <1>0, <1>1, SameStore, LoggedKept
<1>2. CASE AskFirst
  <2>1. At("ask") /\ Idle(Call) /\ UNCHANGED <<storeVars, executionRevision>>
    BY <1>0, <1>2, JobKnows DEF AskFirst, At, Before
  <2>2. CASE AwaitInPlace
    BY <1>0, <2>1, <2>2, AwaitInductive
  <2>3. CASE Boundary /\ UNCHANGED held
    BY <1>0, <1>1, <2>1, <2>3, JobEnds DEF Boundary, TaskLeaves, Step
  <2> QED BY <1>2, <2>2, <2>3 DEF AskFirst
<1>3. CASE Suspend
  <2>1. At("suspend") /\ Idle(Call)
    BY <1>0, <1>3, JobKnows DEF Suspend, At, Before
  <2>2. CASE AwaitInPlace /\ UNCHANGED <<storeVars, executionRevision>>
    BY <1>0, <2>1, <2>2, AwaitInductive
  <2>3. CASE /\ UNCHANGED held /\ Accepts(job.revision) /\ SetToolCall(Call, "pending")
             /\ executionRevision' = run.revision + 1 /\ Boundary
    <3>1. TaskLeaves /\ HasToken
      BY <1>0, <2>3 DEF TaskLeaves, Accepts
    <3>2. StoreKept /\ OpenKept /\ EffectsAreLogged' /\ executionRevision' \in Nat
      BY <1>0, <2>1, <2>3, <3>1, CallWritten DEF Step
    <3> QED BY <1>0, <2>1, <2>3, <3>1, <3>2, JobEnds DEF Boundary, Step
  <2>4. CASE UNCHANGED held /\ Refused /\ UNCHANGED caller
    BY <1>0, <2>1, <2>4, RefusedInductive DEF Refused, TaskLeaves, Step, Before
  <2> QED BY <1>3, <2>2, <2>3, <2>4 DEF Suspend
<1>4. ASSUME NEW from \in {"declined", "throw"}, At(from), UNCHANGED held,
             \/ /\ Accepts(executionRevision) /\ SetToolCall(Call, "failed")
                /\ executionRevision' = run.revision + 1
             \/ UNCHANGED <<storeVars, executionRevision>>,
             NEW state \in {"working", "over"},
             job' = NoJob, caller' = [caller EXCEPT ![job.caller] = state]
      PROVE  IInv'
  <2>1. TaskLeaves /\ from \in Step \ {"wait"}
    BY <1>0, <1>4 DEF TaskLeaves, Step
  <2>2. StoreKept /\ OpenKept /\ EffectsAreLogged' /\ executionRevision' \in Nat
    <3>1. CASE Accepts(executionRevision) /\ SetToolCall(Call, "failed")
               /\ executionRevision' = run.revision + 1
      BY <1>0, <1>4, <2>1, <3>1, CallWritten DEF Accepts
    <3> QED BY <1>0, <1>1, <1>4, <3>1
  <2> QED BY <1>0, <1>4, <2>1, <2>2, JobEnds
<1>5. CASE Declined
  <2>1. PICK state \in {"working", "over"} : caller' = [caller EXCEPT ![job.caller] = state]
    BY <1>5 DEF Declined
  <2>2. At("declined") /\ UNCHANGED held /\ job' = NoJob
    BY <1>5 DEF Declined
  <2>3. \/ /\ Accepts(executionRevision) /\ SetToolCall(Call, "failed")
           /\ executionRevision' = run.revision + 1
        \/ UNCHANGED <<storeVars, executionRevision>>
    BY <1>5 DEF Declined
  <2> QED BY <1>4, <2>1, <2>2, <2>3
<1>6. CASE Throw
  <2>1. caller' = [caller EXCEPT ![job.caller] = "over"] /\ At("throw") /\ UNCHANGED held /\ job' = NoJob
    BY <1>6 DEF Throw
  <2>2. \/ /\ Accepts(executionRevision) /\ SetToolCall(Call, "failed")
           /\ executionRevision' = run.revision + 1
        \/ UNCHANGED <<storeVars, executionRevision>>
    BY <1>6 DEF Throw
  <2> QED BY <1>4, <2>1, <2>2
<1> QED BY <1>2, <1>3, <1>5, <1>6

\* The answer has come, or the rejection.
LEMMA WaitEndsInductive ==
  ASSUME IInv, WaitEnds
  PROVE  loopVars' = loopVars => IInv'
<1> SUFFICES ASSUME loopVars' = loopVars PROVE IInv'
  OBVIOUS
<1>0. /\ job # NoJob /\ job \in JobRecord /\ job.caller \in Caller /\ At("wait")
      /\ job.next \in Step /\ job.revision \in Nat /\ executionRevision \in Nat
      /\ held \in [Question -> HeldState] /\ effect \in [ToolCallId -> EffectState]
      /\ UNCHANGED <<fanout, storeVars, executionRevision, queue, caller, effect, aborted, reportsLeft>>
  BY JobTyped, QueueTyped DEF IInv, At, JobRecord, WaitEnds
<1>1. PICK t \in ToolCallId : t = Call
  BY <1>0, JobTyped DEF IInv
<1>2. StoreKept /\ OpenKept /\ EffectsAreLogged'
  BY <1>0, SameStore, LoggedKept
<1>3. PICK step \in {"decide", "declined"}, revision \in Nat :
        job' = [job EXCEPT !.step = step, !.next = job.next, !.revision = revision]
  BY <1>0, JobForms DEF WaitEnds, Goes
<1>4. <<job.caller, "tool">> \in Question
  BY <1>0 DEF Question
<1>5. /\ held' \in [Question -> HeldState]
      /\ \A q \in Question : held'[q] = "waiting" => held[q] = "waiting"
      /\ \A q \in Question : q # <<job.caller, "tool">> => held'[q] = held[q]
      /\ held'[<<job.caller, "tool">>] = "over"
  BY <1>0, <1>4 DEF WaitEnds, HeldState
<1>6. AskShape'
  <2>1. \A c \in Caller : <<c, "model">> \in Question /\ <<c, "tool">> \in Question
    BY DEF Question
  <2> QED BY <1>0, <1>5, <2>1 DEF IInv, AskShape, Asking
<1>7. effect'[t] \in {"none", "asked"}
  BY <1>0, <1>1, JobKnows DEF At, Before, Idle
<1>8. step \in Step \ {"reserveAll"}
  BY DEF Step
<1> QED BY <1>0, <1>1, <1>2, <1>3, <1>5, <1>6, <1>7, <1>8, JobGoes

\* A task begins, or is done at once.
LEMMA BeginInductive ==
  ASSUME IInv, CommitOutput \/ CommitReport \/ BeginTools
  PROVE  loopVars' = loopVars => IInv'
<1> SUFFICES ASSUME loopVars' = loopVars PROVE IInv'
  OBVIOUS
<1>0. /\ job = NoJob /\ queue # <<>> /\ queue' = Tail(queue) /\ ~At("wait")
      /\ run.revision \in Nat /\ executionRevision \in Nat
      /\ held \in [Question -> HeldState] /\ effect \in [ToolCallId -> EffectState]
      /\ caller \in [Caller -> CallerState]
      /\ UNCHANGED <<fanout, held, effect, aborted, reportsLeft>>
  BY JobTyped, QueueTyped DEF IInv, At, CommitOutput, CommitReport, BeginTools, Begin
<1>1. PICK c \in Caller, kind \in {"tool", "output", "report"} :
        /\ c = Head(queue).caller /\ kind = Head(queue).kind
        /\ Waits(c, kind)
  <2>1. queue \in Seq(TaskRecord) /\ Len(queue) \in Nat \ {0}
    BY <1>0, TasksTyped, EmptySeq DEF IInv
  <2>2. 1 \in 1 .. Len(queue) /\ Head(queue) = queue[1]
    BY <2>1
  <2> QED BY <2>2, TasksTyped DEF IInv, TaskInv, TaskShape
<1>2. CASE CommitOutput
  <2>1. kind = "output" /\ caller' = [caller EXCEPT ![c] = "over"] /\ job' = NoJob
    BY <1>0, <1>1, <1>2 DEF CommitOutput, Begin
  <2>2. StoreKept /\ OpenKept /\ ToolsKept /\ executionRevision' \in Nat
    BY <1>0, <1>2, SameStore, CommitPhaseKeeps DEF CommitOutput
  <2>3. caller[c] = "replying"
    BY <1>1, <2>1 DEF Waits
  <2>4. /\ caller' \in [Caller -> CallerState] /\ \A d \in Caller : d # c => caller'[d] = caller[d]
        /\ caller'[c] = "over"
    BY <1>0, <2>1 DEF CallerState
  <2>5. ASSUME NEW d \in Caller, NEW k \in {"tool", "output", "report"}, Waits(d, k),
               k # "report" => d # c
        PROVE  Waits(d, k)'
    BY <1>0, <2>1, <2>4, <2>5 DEF Waits, Idle, LastCall
  <2>6. queue' \in Seq(TaskRecord) /\ \A i \in 1 .. Len(queue') : TaskShape(i)'
    BY <1>0, <1>1, <2>1, <2>5, TaskBegins
  <2>7. TaskInv'
    BY <1>0, <2>1, <2>4, <2>6 DEF IInv, TaskInv, JobShape, SuspendedIdle, Idle
  <2>8. \A d \in Caller : /\ caller[d] = "asking" => caller'[d] = "asking"
                          /\ caller[d] \in Through => caller'[d] \in Through
    BY <2>3, <2>4 DEF Through
  <2>9. EffectsAreLogged' /\ AskShape'
    BY <1>0, <2>2, <2>8, LoggedKept, AsksSame
  <2> QED BY <1>0, <2>1, <2>2, <2>4, <2>6, <2>7, <2>8, <2>9, TaskFrame
<1>3. CASE CommitReport
  <2>1. kind = "report" /\ caller' = caller /\ job' = NoJob
    BY <1>0, <1>1, <1>3 DEF CommitReport, Begin
  <2>2. StoreKept /\ OpenKept /\ ToolsKept /\ executionRevision' \in Nat
    BY <1>0, <1>3, SameStore, RecordToolCallKeeps DEF CommitReport
  <2>3. ASSUME NEW d \in Caller, NEW k \in {"tool", "output", "report"}, Waits(d, k)
        PROVE  Waits(d, k)'
    BY <1>0, <2>1, <2>3 DEF Waits, Idle, LastCall
  <2>4. queue' \in Seq(TaskRecord) /\ \A i \in 1 .. Len(queue') : TaskShape(i)'
    BY <1>0, <1>1, <2>1, <2>3, TaskBegins
  <2>5. TaskInv'
    BY <1>0, <2>1, <2>4 DEF IInv, TaskInv, JobShape, SuspendedIdle, Idle
  <2>6. EffectsAreLogged' /\ AskShape'
    BY <1>0, <2>1, <2>2, LoggedKept, AsksSame
  <2> QED BY <1>0, <2>1, <2>2, <2>4, <2>5, <2>6, TaskFrame
<1>4. CASE BeginTools
  <2>1. /\ kind = "tool" /\ caller' = caller /\ UNCHANGED storeVars
        /\ executionRevision' = executionRevision
    BY <1>1, <1>4 DEF BeginTools, Begin
  <2>2. PICK batch \in {Cardinality(CallsOf(c)) > 1, FALSE} :
          job' = [caller |-> c, at |-> 1, step |-> IF batch THEN "reserveAll" ELSE "decide",
                  next |-> "decide", revision |-> executionRevision, batch |-> batch]
    <3> HIDE DEF CallsOf
    <3> QED BY <1>1, <1>4, Zenon DEF BeginTools
  <2>flag. batch \in BOOLEAN
    <3>1. PICK n \in Nat : n = Cardinality(CallsOf(c))
      BY CallsTyped, CallerAssumption
    <3>2. batch \in {n > 1, FALSE}
      BY <3>1, Zenon
    <3>3. \A b \in {n > 1, FALSE} : b = TRUE \/ b = FALSE
      BY <3>1, Z3
    <3>4. batch = TRUE \/ batch = FALSE
      BY <3>2, <3>3, Zenon
    <3> QED BY <3>4, Zenon
  <2>3. 1 \in 1 .. BatchSize /\ LastCall(c) \in 1 .. BatchSize /\ BatchSize \in Nat
    BY CallerAssumption, CallsTyped
  <2>4. /\ job' \in JobRecord /\ job'.caller = c /\ job'.at = 1 /\ Call' = <<c, 1>>
        /\ job'.step \in {"reserveAll", "decide"}
    BY <1>0, <2>2, <2>3, <2>flag DEF JobRecord, Step, Call
  <2>5. caller[c] = "calling" /\ \A k \in 1 .. LastCall(c) : Idle(<<c, k>>)
    BY <1>1, <2>1 DEF Waits
  <2>6. 1 \in 1 .. LastCall(c) /\ 1 <= LastCall(c)
    BY <2>3
  <2>7. JobShape'
    BY <1>0, <2>1, <2>4, <2>5, <2>6 DEF JobShape, Idle, LastCall, Before
  <2>8. ASSUME NEW d \in Caller, NEW k \in {"tool", "output", "report"}, Waits(d, k),
               k # "report" => d # c
        PROVE  Waits(d, k)'
    BY <1>0, <2>1, <2>4, <2>8 DEF Waits, Idle, LastCall
  <2>9. queue' \in Seq(TaskRecord) /\ \A i \in 1 .. Len(queue') : TaskShape(i)'
    BY <1>0, <1>1, <2>1, <2>8, TaskBegins
  <2>10. TaskInv'
    BY <1>0, <2>1, <2>7, <2>9 DEF IInv, TaskInv, SuspendedIdle, Idle
  <2>11. StoreKept /\ OpenKept /\ EffectsAreLogged'
    BY <1>0, <2>1, SameStore, LoggedKept
  <2>12. AskShape'
    BY <1>0, <2>1, AsksSame
  <2> QED BY <1>0, <2>1, <2>4, <2>9, <2>10, <2>11, <2>12, TaskFrame
<1> QED BY <1>2, <1>3, <1>4

-----------------------------------------------------------------------------
(* The theorems *)

\* A task's step, whichever it is.
LEMMA TaskStepInductive ==
  ASSUME IInv, TaskStep, UNCHANGED loopVars
  PROVE  IInv'
<1>1. CASE CommitOutput \/ CommitReport \/ BeginTools
  BY <1>1, BeginInductive
<1>2. CASE ReserveAll \/ Reserve \/ Deny \/ Start \/ Commit \/ Fold \/ Indeterminate
  BY <1>2, WritesInductive
<1>3. CASE Execute \/ ExecuteReturns
  BY <1>3, ExecuteInductive
<1>4. CASE \E choice \in {"start", "deny", "ask"} : Decide(choice)
  BY <1>4, DecideInductive
<1>5. CASE AskFirst \/ Suspend \/ Declined \/ Throw
  BY <1>5, AsksInductive
<1>6. CASE WaitEnds
  BY <1>6, WaitEndsInductive
<1> QED BY <1>1, <1>2, <1>3, <1>4, <1>5, <1>6 DEF TaskStep

\* A step that changes no variable.
LEMMA StutterInductive == ASSUME IInv, UNCHANGED vars PROVE IInv'
<1>1. UNCHANGED <<run, toolCalls, external, lease, fanout, executionRevision, queue, job, caller,
                  held, effect, aborted, reportsLeft, attempt, result, cancelling, flight>>
  BY DEF vars, storeVars, queueVars
<1>2. TypeOK' /\ TaskInv'
  BY <1>1 DEF IInv, TypeOK, StoreTypeOK, QueueTypeOK, TaskInv, TaskShape, Waits, JobShape,
     SuspendedIdle, Idle, LastCall, Call
<1>3. AskShape' /\ StageShape' /\ NoTokenNoEffect' /\ EffectsAreLogged'
  BY <1>1 DEF IInv, AskShape, At, StageShape, NoTokenNoEffect, EffectsAreLogged
<1>4. AttemptLeavesNoOrphan' /\ WaitersCanBeAnswered'
  BY <1>1 DEF IInv, AttemptLeavesNoOrphan, NothingLeft, WaitersCanBeAnswered, HasToken
<1> QED BY <1>2, <1>3, <1>4 DEF IInv

\* The invariant holds of a Run that has just been claimed.
LEMMA InitInductive == Init => IInv
<1> SUFFICES ASSUME Init PROVE IInv
  OBVIOUS
<1>1. /\ queue = <<>> /\ job = NoJob /\ held = [q \in Question |-> "unasked"]
      /\ effect = [t \in ToolCallId |-> "none"] /\ caller = [c \in Caller |-> "working"]
      /\ attempt = "loop" /\ run.execution /\ run.revision \in Nat
  BY DEF Init, QueueInit, StoreInit
<1>2. TypeOK
  <2>1. StoreTypeOK
    BY DEF Init, StoreInit, StoreTypeOK, Open
  <2>2. queue \in Seq(TaskRecord) /\ reportsLeft \in 0 .. MaxReports
    BY <1>1, MaxReportsAssumption, EmptySeq DEF Init, QueueInit
  <2>3. /\ fanout \in BOOLEAN /\ aborted \in BOOLEAN /\ executionRevision \in Nat
        /\ caller \in [Caller -> CallerState] /\ held \in [Question -> HeldState]
        /\ effect \in [ToolCallId -> EffectState]
    BY <1>1 DEF Init, QueueInit, CallerState, HeldState, EffectState
  <2>4. QueueTypeOK
    BY <1>1, <2>2, <2>3 DEF QueueTypeOK, CallerState, HeldState, EffectState, TaskRecord
  <2> QED BY <2>1, <2>4 DEF Init, TypeOK
<1>3. TaskInv
  <2>1. Len(queue) = 0
    BY <1>1
  <2>2. \A c \in Caller : caller[c] = "working"
    BY <1>1
  <2> QED BY <1>1, <2>1, <2>2 DEF TaskInv, JobShape, SuspendedIdle
<1>4. AskShape
  BY <1>1 DEF AskShape, Question, Asking
<1>5. EffectsAreLogged /\ WaitersCanBeAnswered
  BY <1>1 DEF EffectsAreLogged, WaitersCanBeAnswered
<1>6. StageShape /\ NoTokenNoEffect /\ AttemptLeavesNoOrphan
  BY <1>1 DEF StageShape, NoTokenNoEffect, AttemptLeavesNoOrphan
<1> QED BY <1>2, <1>3, <1>4, <1>5, <1>6 DEF IInv

\* Every step of the attempt, the host and the Store keeps the invariant.
LEMMA StepInductive == IInv /\ [Next]_vars => IInv'
<1> SUFFICES ASSUME IInv, [Next]_vars PROVE IInv'
  OBVIOUS
<1>1. CASE UNCHANGED vars
  BY <1>1, StutterInductive
<1>2. ASSUME NEW c \in Caller, CallerStep(c) \/ CallerEnds(c) PROVE IInv'
  BY <1>2, CallerStepInductive
<1>3. CASE TaskStep /\ UNCHANGED loopVars
  BY <1>3, TaskStepInductive
<1>4. ASSUME NEW q \in Question, RaiseStep(q) PROVE IInv'
  BY <1>4, RaiseInductive
<1>5. CASE \/ \E q \in Question : Respond(q)
           \/ \E f \in flight : Tell(f)
           \/ ReplyToHeld \/ Cancel \/ Abort \/ Revise \/ Expire
  BY <1>5, HostInductive
<1>6. CASE Join \/ EnterJoin
  BY <1>6, JoinInductive
<1>7. CASE LoopEnds
  BY <1>7, LoopEndsInductive
<1>8. CASE EndStep
  BY <1>8, EndStepInductive
<1> QED BY <1>1, <1>2, <1>3, <1>4, <1>5, <1>6, <1>7, <1>8 DEF Next

\* The inductive invariant, from which every theorem below follows.
THEOREM Inductive == Spec => []IInv
<1>1. Spec => Init /\ [][Next]_vars
  BY DEF Spec
<1> QED BY <1>1, InitInductive, StepInductive, PTL

\* Type correctness: the Run in the Store, the queue, the task that runs, what
\* callers and waiters are at, and what the host still has to tell.
THEOREM TypeCorrect == Spec => []TypeOK
<1>1. IInv => TypeOK
  BY DEF IInv
<1> QED BY <1>1, Inductive, PTL

\* Write-ahead of startToolCall: in every interleaving of callers, answers,
\* revisions and a lost lease, the Store knows of a Tool that has touched the
\* outside world before it has.
THEOREM EffectsLogged == Spec => []EffectsAreLogged
<1>1. IInv => EffectsAreLogged
  BY DEF IInv
<1> QED BY <1>1, Inductive, PTL

\* Whichever of its last commits is refused, execute() leaves neither the token
\* nor a Tool Call in progress behind, unless it was cancelled, or a revision
\* superseded the Run (whose Tool Calls it interrupts only if the Run was running).
THEOREM NoOrphan == Spec => []AttemptLeavesNoOrphan
<1>1. IInv => AttemptLeavesNoOrphan
  BY DEF IInv
<1> QED BY <1>1, Inductive, PTL

\* execute() returns only when the Tool queue is empty, no task runs, and nobody
\* who asked a question is left without an end.
THEOREM EndsQuiet == Spec => []AttemptEndsQuiet
<1>1. ASSUME IInv, attempt = "done"
      PROVE  /\ queue = <<>> /\ job = NoJob
             /\ \A q \in Question : held[q] \notin {"raising", "dropped", "waiting"}
  <2>1. queue = <<>> /\ \A c \in Caller : caller[c] \in Through
    BY <1>1 DEF IInv, StageShape
  <2>2. job = NoJob
    BY <1>1, <2>1, JobTyped DEF IInv, TaskInv, JobShape, Through
  <2>3. ASSUME NEW q \in Question PROVE held[q] \notin Asking
    <3>1. PICK c \in Caller : q = <<c, "model">> \/ q = <<c, "tool">>
      BY DEF Question
    <3> QED BY <1>1, <2>1, <2>2, <3>1 DEF IInv, AskShape, At, Through
  <2> QED BY <2>1, <2>2, <2>3 DEF Asking
<1>2. IInv => AttemptEndsQuiet
  BY <1>1 DEF AttemptEndsQuiet
<1> QED BY <1>2, Inductive, PTL

\* As long as the attempt has its token, a caller that waits for an answer waits
\* for a question the Store still shows, or its answer is about to be told.
THEOREM WaitersAnswerable == Spec => []WaitersCanBeAnswered
<1>1. IInv => WaitersCanBeAnswered
  BY DEF IInv
<1> QED BY <1>1, Inductive, PTL

\* A task begins only what has not run, and ends only what is running.
LEMMA EffectStep ==
  ASSUME IInv, Next, NEW t \in ToolCallId, effect[t] \in {"done", "unknown"}
  PROVE  effect'[t] = effect[t]
<1>1. CASE Execute \/ ExecuteReturns
  <2>1. /\ effect \in [ToolCallId -> EffectState] /\ Call \in ToolCallId
        /\ effect[Call] \notin {"done", "unknown"}
    BY <1>1, JobTyped, JobKnows DEF IInv, At, Execute, ExecuteReturns, Before, Idle
  <2>2. effect' = [effect EXCEPT ![Call] = effect'[Call]]
    BY <1>1, <2>1 DEF Execute, ExecuteReturns
  <2> QED BY <2>1, <2>2
<1>2. CASE TaskStep /\ ~(Execute \/ ExecuteReturns)
  BY <1>2 DEF TaskStep, CommitOutput, CommitReport, BeginTools, ReserveAll, Reserve, Deny, Start,
     Commit, Fold, Indeterminate, Decide, AskFirst, Suspend, WaitEnds, Declined, Throw
<1>3. ASSUME NEW c \in Caller, CallerStep(c) \/ CallerEnds(c) PROVE effect' = effect
  BY <1>3 DEF CallerStep, CallerEnds, CallTools, Interact, Report, Reply, InteractReturns
<1>4. ASSUME NEW q \in Question, RaiseStep(q) \/ Respond(q) PROVE effect' = effect
  BY <1>4 DEF RaiseStep, Raise, Respond, queueVars
<1>5. CASE Join \/ EnterJoin \/ LoopEnds
  BY <1>5 DEF Join, EnterJoin, LoopEnds
<1>6. CASE EndStep
  BY <1>6 DEF EndStep, Drain, EndCancelled, EndInputRequired, EndWithOutcome, CaughtCancelled,
     CaughtFailed, Fallback, Ends, Caught, queueVars
<1>7. ASSUME NEW f \in flight, Tell(f) PROVE effect' = effect
  BY <1>7 DEF Tell
<1>8. CASE ReplyToHeld \/ Cancel \/ Abort \/ Revise \/ Expire
  BY <1>8 DEF ReplyToHeld, Cancel, Abort, Revise, Expire, queueVars
<1> QED BY <1>1, <1>2, <1>3, <1>4, <1>5, <1>6, <1>7, <1>8 DEF Next

\* A Tool that has returned, or whose outcome nobody knows, is not run again:
\* not by its batch after an answer, not by the task after a refused result.
THEOREM NoRepeatedEffect == Spec => EffectsAreNotRepeated
<1>1. IInv /\ [Next]_vars =>
        [\A t \in ToolCallId : effect[t] \in {"done", "unknown"} => effect'[t] = effect[t]]_vars
  BY EffectStep
<1>2. Spec => [][Next]_vars
  BY DEF Spec
<1> QED BY <1>1, <1>2, Inductive, PTL DEF EffectsAreNotRepeated
=============================================================================
