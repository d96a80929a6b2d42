---------------------------- MODULE RunExecution ----------------------------
(***************************************************************************)
(* AgentRuntime.execute from the claim to the end of the attempt: the      *)
(* Phase loop with its callers, the Tool queue, and the ways an attempt    *)
(* ends; with the host that answers, replies, cancels and revises, and the *)
(* lease that may be lost (packages/agent/src/runtime/durable-runtime.ts,  *)
(* packages/agent/src/loop/runners.ts).                                    *)
(***************************************************************************)
EXTENDS ToolQueue

VARIABLES
  attempt,      \* where execute() is
  result,       \* what executeOnce returned
  cancelling,   \* cancellationRequested
  flight        \* answers and replies recorded in the Store and not yet told here

vars == <<storeVars, queueVars, attempt, result, cancelling, flight>>
loopVars == <<attempt, result, cancelling, flight>>

TypeOK ==
  /\ StoreTypeOK /\ QueueTypeOK
  /\ cancelling \in BOOLEAN
  /\ attempt \in {"loop", "joining", "joined", "draining", "ending", "caught", "fallback", "done"}
  /\ result \in {"none", "input_required", "outcome"}
  /\ flight \subseteq [questions: SUBSET Question, revision: Nat, settles: {"answered", "rejected"}]

Init ==
  /\ StoreInit /\ QueueInit
  /\ attempt = "loop" /\ result = "none"
  /\ cancelling = FALSE
  /\ flight = {}

-----------------------------------------------------------------------------
(* The Phase loop *)

\* A Phase asks the model, and then runs its batch; parallel Phases do all of
\* this at the same time.
MayCallTools(c) ==
  fanout \/ c \in Bridged \/ \A b \in Bridged : caller[b] = "over"

CallerStep(c) ==
  /\ attempt = "loop"
  /\ \/ MayCallTools(c) /\ CallTools(c)
     \/ Interact(c)
     \/ Report(c)
     \/ fanout /\ Reply(c)
     \/ InteractReturns(c)
  /\ UNCHANGED loopVars

\* A caller is through, or its model, its policy or its Phase fails: what the
\* attempt does then is the same but for the outcome it commits.
CallerEnds(c) ==
  /\ attempt \in {"loop", "joined"} /\ caller[c] = "working"
  /\ caller' = [caller EXCEPT ![c] = "over"]
  /\ UNCHANGED <<storeVars, fanout, executionRevision, queue, job, held, effect, aborted, reportsLeft,
                 loopVars>>

Suspended == {c \in Caller : caller[c] = "suspended"}
Settled == \A c \in Caller \ Suspended : caller[c] = "over"

\* waitForBackgroundTasks drops the Phases that failed, even those that asked
\* for input.  What they asked is in the state their drivers share, where the
\* last one that wrote it leaves at most one suspended Tool Call.
Join ==
  /\ attempt = "loop" /\ fanout /\ Settled
  /\ attempt' = "joining"
  /\ \E kept \in SUBSET Suspended :
       /\ Cardinality(kept) <= 1
       /\ caller' = [c \in Caller |-> IF c \in Suspended \ kept THEN "over" ELSE caller[c]]
  /\ UNCHANGED <<storeVars, fanout, executionRevision, queue, job, held, effect, aborted,
                 reportsLeft, result, cancelling, flight>>

\* The join Phase is entered.  If it asks a model it takes that Tool Call for
\* its own, and runs it before anything else.
EnterJoin ==
  /\ attempt = "joining" /\ Suspended # {} /\ Accepts(executionRevision)
  /\ CommitPhase
  /\ executionRevision' = run.revision + 1
  /\ attempt' = "joined"
  /\ caller' = [c \in Caller |-> IF c \in Suspended THEN "calling" ELSE caller[c]]
  /\ \E c \in Suspended : Enqueue(c, "tool")
  /\ UNCHANGED <<fanout, job, held, effect, aborted, reportsLeft, result, cancelling, flight>>

\* executeOnce returns.  The entered Phase is committed first; a serial Phase
\* that suspended makes the attempt end with its questions.
Returned(r) == IF r = "input_required" THEN held ELSE RejectLive

LoopEnds ==
  /\ \/ attempt = "joining"
     \/ attempt = "joined" /\ Settled
     \/ attempt = "loop" /\ ~fanout /\ Settled
  /\ IF attempt = "joining" /\ Accepts(executionRevision)
     THEN CommitPhase /\ executionRevision' = run.revision + 1
     ELSE UNCHANGED <<storeVars, executionRevision>>
  /\ result' = IF attempt # "joining" /\ Suspended # {} THEN "input_required" ELSE "outcome"
  /\ held' = Returned(result')
  /\ attempt' = "draining"
  /\ UNCHANGED <<fanout, queue, job, caller, effect, aborted, reportsLeft, cancelling, flight>>

-----------------------------------------------------------------------------
(* The end of the attempt *)

\* await toolQueue
DrainAtOnce == attempt = "draining"  \* mutant: the Tool queue is not awaited
Drained == attempt = "draining" /\ queue = <<>> /\ job = NoJob

Drain ==
  /\ Drained
  /\ attempt' = "ending"
  /\ UNCHANGED <<storeVars, queueVars, result, cancelling, flight>>

SuspendedQuestions == {<<c, "tool">> : c \in Suspended}
SuspendedCalls == {t \in OpenTools : t[1] \in Suspended}

Ends == attempt' = "done" /\ UNCHANGED <<queueVars, result, cancelling, flight>>
Caught == /\ attempt' = "caught"
          /\ UNCHANGED <<storeVars, queueVars, result, cancelling, flight>>

Stopped == cancelling \/ aborted

\* cancelRun with the attempt's revision.
MayCancel == lease /\ run.revision = executionRevision

EndCancelled ==
  /\ attempt = "ending" /\ Stopped
  /\ IF MayCancel THEN CancelRun /\ Ends ELSE Caught

EndInputRequired ==
  /\ attempt = "ending" /\ ~Stopped /\ result = "input_required"
  /\ IF MayCommitInputRequired(executionRevision, SuspendedCalls)
     THEN CommitInputRequired(SuspendedQuestions) /\ Ends
     ELSE Caught

EndWithOutcome ==
  /\ attempt = "ending" /\ ~Stopped /\ result = "outcome"
  /\ IF MayCommitOutcome(executionRevision)
     THEN (\E outcome \in {"completed", "failed"} : CommitOutcome(outcome)) /\ Ends
     ELSE Caught

\* The catch of execute().  A cancelled Run is cancelled again with the same
\* revision, and a refusal is swallowed; otherwise the failure is committed.
CaughtCancelled ==
  /\ attempt = "caught" /\ cancelling
  /\ IF MayCancel THEN CancelRun ELSE UNCHANGED storeVars
  /\ Ends

CaughtFailed ==
  /\ attempt = "caught" /\ ~cancelling
  /\ IF MayCommitOutcome(executionRevision) THEN CommitOutcome("failed") /\ Ends
     ELSE /\ attempt' = "fallback"
          /\ UNCHANGED <<storeVars, queueVars, result, cancelling, flight>>

FallbackWithRevision ==  \* mutant: the last resort presents a revision too
  /\ attempt = "fallback"
  /\ IF MayCancel THEN CancelRun ELSE UNCHANGED storeVars
  /\ Ends
\* What cannot be committed is cancelled, whatever its revision.
Fallback ==
  /\ attempt = "fallback"
  /\ IF lease THEN CancelRun ELSE UNCHANGED storeVars
  /\ Ends

EndStep ==
  \/ Drain \/ EndCancelled \/ EndInputRequired \/ EndWithOutcome
  \/ CaughtCancelled \/ CaughtFailed \/ Fallback

-----------------------------------------------------------------------------
(* The host and the owner, until execute() has returned *)

Tells(questions, settles) ==
  flight' = flight \cup {[questions |-> questions, revision |-> run.revision + 1,
                          settles |-> settles]}

\* respondInteraction, up to the Store.
Respond(q) ==
  /\ attempt # "done" /\ AnswerInteraction(q)
  /\ \E settles \in {"answered", "rejected"} : Tells({q}, settles)
  /\ UNCHANGED <<queueVars, attempt, result, cancelling>>

\* start() of an Agent whose Run is held, up to the Store.
ReplyToHeld ==
  /\ attempt # "done" /\ ReplyToRun
  /\ Tells(run.openInteractions, "rejected")
  /\ UNCHANGED <<queueVars, attempt, result, cancelling>>

TellFirst(f) ==  \* mutant: a reply rejects one of the waiters
  [q \in Question |->
    IF held[q] = "waiting" /\ q \in f.questions
       /\ \A p \in f.questions : held[p] = "waiting" => (q[2] = "model" \/ p[2] = "tool")
    THEN f.settles ELSE held[q]]
\* ... and from there: the attempt's revision, then the waiters.
Told(f) ==
  [q \in Question |-> IF held[q] = "waiting" /\ q \in f.questions THEN f.settles ELSE held[q]]

Tell(f) ==
  /\ attempt # "done"
  /\ flight' = flight \ {f}
  /\ executionRevision' = Newer(f.revision)
  /\ held' = Told(f)
  /\ UNCHANGED <<storeVars, fanout, queue, job, caller, effect, aborted, reportsLeft,
                 attempt, result, cancelling>>

\* cancel() while execute() is in flight.
Cancel ==
  /\ attempt # "done" /\ ~cancelling
  /\ cancelling' = TRUE
  /\ aborted' = TRUE
  /\ held' = RejectLive
  /\ UNCHANGED <<storeVars, fanout, executionRevision, queue, job, caller, effect, reportsLeft,
                 attempt, result, flight>>

\* The same abort follows a revision that superseded the Run and a heartbeat
\* that finds the lease gone.  A Run that its own Tool failed has no such step.
Abort ==
  /\ attempt # "done" /\ ~aborted
  /\ ~lease \/ run.state = "cancelled"
  /\ aborted' = TRUE
  /\ held' = RejectLive
  /\ UNCHANGED <<storeVars, fanout, executionRevision, queue, job, caller, effect, reportsLeft, loopVars>>

Revise == attempt # "done" /\ SupersedeRun /\ UNCHANGED <<queueVars, loopVars>>
Expire == attempt # "done" /\ LoseLease /\ UNCHANGED <<queueVars, loopVars>>

-----------------------------------------------------------------------------

RaiseStep(q) == Raise(q) /\ UNCHANGED loopVars

Next ==
  \/ \E c \in Caller : CallerStep(c) \/ CallerEnds(c)
  \/ TaskStep /\ UNCHANGED loopVars
  \/ \E q \in Question : RaiseStep(q) \/ Respond(q)
  \/ Join \/ EnterJoin \/ LoopEnds \/ EndStep
  \/ \E f \in flight : Tell(f)
  \/ ReplyToHeld \/ Cancel \/ Abort \/ Revise \/ Expire

\* Policies and Tools return, models end, and the Store's answers arrive.
\* Nobody has to answer a question, to cancel or to report.  Every attempt of
\* this model is bounded, so none of these steps can starve another: it is
\* enough that the event loop does not stop while one of them is due.
Due ==
  \/ TaskStep /\ UNCHANGED loopVars
  \/ \E c \in Caller :
       \/ CallerEnds(c)
       \/ InteractReturns(c) /\ attempt = "loop" /\ UNCHANGED loopVars
  \/ \E q \in Question : RaiseStep(q)
  \/ \E f \in flight : Tell(f)
  \/ Join \/ LoopEnds \/ EndStep \/ Abort

Fairness == WF_vars(Due)

Spec == Init /\ [][Next]_vars /\ Fairness

-----------------------------------------------------------------------------
(* Properties *)

\* A Tool has touched the outside world only if the Store knows that it was
\* started, so a crash at any moment finds it (write-ahead of startToolCall).
EffectsAreLogged ==
  \A t \in ToolCallId :
    effect[t] \in {"running", "done", "unknown"} => toolCalls[t] \notin {"absent", "pending"}

\* Nothing of the attempt is left in the Store: no token and no Tool Call in
\* progress, except those of a Run that a revision superseded while it was held.
NothingLeft ==
  ~run.execution /\ (run.invalidated \/ \A t \in ToolCallId : toolCalls[t] # "in_progress")

\* Whatever was refused on the way, an attempt that ends by itself leaves no
\* orphan.  (A cancelled attempt may: its last cancelRun presents a revision.)
AttemptLeavesNoOrphan == attempt = "done" /\ ~cancelling /\ lease => NothingLeft

\* No step of the attempt's own is still to come once execute() has returned:
\* nothing is queued, no waiter is left and no Tool runs.
AttemptEndsQuiet ==
  attempt = "done" =>
    /\ queue = <<>> /\ job = NoJob
    /\ \A q \in Question : held[q] \notin {"raising", "dropped", "waiting"}

\* Whoever waits in a held Run can be answered: the Store has the question
\* open, or the answer is on its way.
WaitersCanBeAnswered ==
  \A q \in Question :
    held[q] = "waiting" /\ HasToken =>
      q \in run.openInteractions \/ \E f \in flight : q \in f.questions

\* A Tool whose effect has happened, or may have, is never run again.
EffectsAreNotRepeated ==
  [][\A t \in ToolCallId : effect[t] \in {"done", "unknown"} => effect'[t] = effect[t]]_vars

\* The attempt comes to an end, or stops for a question that the Store shows,
\* whatever is refused, declined, revised or lost on the way.
StopsOnlyForQuestions ==
  <>[](\/ attempt = "done"
       \/ \E q \in Question : held[q] = "waiting" /\ q \in run.openInteractions)

\* Cancellation reaches every caller, queued task and waiter of the attempt:
\* once cancelled, which is never taken back, it ends.
CancelledAttemptEnds == <>[](cancelling => attempt = "done")

\* packages/agent/README.md: cancel() terminates an unfinished Run.  When it
\* returns, with every answer told, the Run has no token and no Tool runs.
CancelLeavesNoOrphan ==
  attempt = "done" /\ cancelling /\ lease /\ flight = {} => NothingLeft
=============================================================================
