------------------------------ MODULE Scheduler ------------------------------
(***************************************************************************)
(* The scheduler of one Runtime process: pump, execute and cancel of       *)
(* packages/agent/src/runtime/durable-runtime.ts, working on a Store that  *)
(* behaves as AgentQueue (which RunStore implements).                      *)
(*                                                                         *)
(* The process is single threaded: what happens between two awaits is one  *)
(* step, and steps of pump, of every execute() and of the host's calls     *)
(* interleave.  A call of the Store takes effect when it is made; what the *)
(* caller does with the answer is a later step, unless nothing the caller  *)
(* reads can have changed by then.  That is so for pump's listRuns: Store  *)
(* answers arrive in call order, so a wake-up for a Run the list missed    *)
(* comes after pump has used the list.                                     *)
(***************************************************************************)
EXTENDS AgentQueue, FiniteSets

CONSTANTS
  Concurrency,  \* the option of AgentRuntime.init
  MaxEpochs,    \* bound: processes that own the Store
  MaxRevision,  \* bound: an attempt does not suspend its Run, nor is it overtaken, beyond it
  Suspendable,  \* bound: the Runs whose attempts ask: suspended, or answered meanwhile
  Deferrable,   \* bound: the Runs whose Configuration the Provider may defer
  Cancellable   \* bound: the Runs the host may cancel

ASSUME SchedulerAssumption ==
  /\ MaxRuns \in Nat
  /\ Concurrency \in Nat \ {0}
  /\ MaxEpochs \in Nat
  /\ MaxRevision \in Nat
  /\ Suspendable \subseteq Runs
  /\ Deferrable \subseteq Runs
  /\ Cancellable \subseteq Runs

VARIABLES
  revision,         \* Store: of every Run, moved by each change of its phase
  overtaken,        \* Runs whose revision is past what their attempt has last learned
  pumping,          \* pump awaits the list of queued Runs
  wakeDue,          \* a host call or init has changed the queue and is about to pump
  timers,           \* Runs whose retryAfterMs timer is set
  activeAgents,     \* Agents an execute() was started for
  exec,             \* where the execute() of a Run is; executionDone has the Runs not "none"
  executions,       \* claimed Runs pump counts against the limit
  autoCompacted,    \* autoCompactionRuns
  cancelRequested,  \* cancellationRequested
  cancelReads       \* the host's cancel() calls that have read a Run and not cancelled it yet

process == <<pumping, wakeDue, timers, activeAgents, exec, executions,
             autoCompacted, cancelRequested, cancelReads>>
vars == <<qvars, revision, overtaken, process>>

ExecStep == {"none", "resolving", "claimed", "executing", "caught", "settling"}

TypeOK ==
  /\ epoch \in Nat
  /\ phase \in [Runs -> Phase]
  /\ agentOf \in [Runs -> Agent]
  /\ control \in [Runs -> BOOLEAN]
  /\ revision \in [Runs -> Nat]
  /\ overtaken \subseteq Runs
  /\ pumping \in BOOLEAN
  /\ wakeDue \in BOOLEAN
  /\ timers \subseteq Runs
  /\ activeAgents \subseteq Agent
  /\ exec \in [Runs -> ExecStep]
  /\ executions \subseteq Runs
  /\ autoCompacted \subseteq Runs
  /\ cancelRequested \subseteq Runs
  /\ cancelReads \subseteq [run : Runs, revision : Nat]

Init ==
  /\ QueueInit
  /\ \E a \in Agent : agentOf = [r \in Runs |-> a]
  /\ revision = [r \in Runs |-> 0]
  /\ overtaken = {}
  /\ pumping = FALSE
  /\ wakeDue = TRUE
  /\ timers = {} /\ activeAgents = {} /\ executions = {}
  /\ autoCompacted = {} /\ cancelRequested = {} /\ cancelReads = {}
  /\ exec = [r \in Runs |-> "none"]

\* A Store step moves the revision of every Run whose phase it changes.  What
\* happens while an attempt lives moves it too: Overtake, where the attempt does
\* not know; what the attempt itself commits and has learned of is left out.
Revised ==
  /\ revision' = [r \in Runs |-> IF phase'[r] # phase[r] THEN revision[r] + 1 ELSE revision[r]]
  /\ overtaken' = {r \in overtaken : phase'[r] = "active"}
StoreKept == UNCHANGED <<qvars, revision, overtaken>>

Unfinished == {"ready", "active", "parked"}

-----------------------------------------------------------------------------
(* The pump *)

\* What is remembered of a Run in flight: its Agent.
Taken(r) == agentOf[r]

\* Position among the Runs of the Agent.
AgentSequence(r) == Cardinality({q \in Runs : q < r /\ agentOf[q] = agentOf[r]})

CandidatesOfAnyAgent == {r \in Runs : phase[r] = "ready"}  \* mutant
\* Queued Runs of Agents with nothing in flight.
Candidates == {r \in Runs : phase[r] = "ready" /\ agentOf[r] \notin activeAgents}

NewestBefore(q, r) ==  \* mutant: a stack instead of a queue
  \/ control[q] /\ ~control[r]
  \/ control[q] = control[r] /\ AgentSequence(q) > AgentSequence(r)
\* Control Runs go first, then the order of listRuns.
Before(q, r) == \/ control[q] /\ ~control[r]
                \/ control[q] = control[r] /\ AgentSequence(q) < AgentSequence(r)
FirstInList == {r \in Candidates : \A q \in Candidates : ~Before(q, r)}

SlotFree == Cardinality(executions) < Concurrency

\* pump() goes on to list Runs when a slot is free; a call while it does is ignored.
PumpCalled == pumping' = (pumping \/ SlotFree')

\* The pump() after a host call, or of init.
Wake ==
  /\ wakeDue
  /\ wakeDue' = FALSE
  /\ StoreKept
  /\ UNCHANGED <<timers, activeAgents, exec, executions, autoCompacted, cancelRequested,
                 cancelReads>>
  /\ PumpCalled

\* The list has arrived: execute() starts for its first Run, and pump lists again
\* when a slot is free now.
Dispatch(r) ==
  /\ pumping
  /\ r \in FirstInList
  /\ pumping' = SlotFree
  /\ activeAgents' = activeAgents \cup {Taken(r)}
  /\ exec' = [exec EXCEPT ![r] = "resolving"]
  /\ StoreKept
  /\ UNCHANGED <<wakeDue, timers, executions, autoCompacted, cancelRequested, cancelReads>>

\* Nothing in the list can be started.
PumpIdle ==
  /\ pumping
  /\ Candidates = {}
  /\ pumping' = FALSE
  /\ StoreKept
  /\ UNCHANGED <<wakeDue, timers, activeAgents, exec, executions, autoCompacted,
                 cancelRequested, cancelReads>>

\* The retry timer of a deferred Configuration fires.
TimerFires(r) ==
  /\ r \in timers
  /\ timers' = timers \ {r}
  /\ StoreKept
  /\ UNCHANGED <<wakeDue, activeAgents, exec, executions, autoCompacted, cancelRequested,
                 cancelReads>>
  /\ PumpCalled

-----------------------------------------------------------------------------
(* execute: before the claim *)

\* What a step of execute() for r leaves alone but for exec itself.
ExecuteOnly(r, step) ==
  /\ exec' = [exec EXCEPT ![r] = step]
  /\ UNCHANGED <<pumping, wakeDue, activeAgents, executions, cancelRequested, cancelReads>>

\* No Configuration: failQueuedRun, unless the Run has moved on meanwhile.
FailQueued(r) ==
  /\ exec[r] = "resolving"
  /\ IF phase[r] = "ready" THEN Finish(r) ELSE UNCHANGED qvars
  /\ Revised
  /\ ExecuteOnly(r, "settling")
  /\ UNCHANGED <<timers, autoCompacted>>

\* The Provider defers: a timer is set and execute() returns.
Defer(r) ==
  /\ exec[r] = "resolving"
  /\ r \in Deferrable
  /\ timers' = timers \cup {r}
  /\ StoreKept
  /\ ExecuteOnly(r, "settling")
  /\ UNCHANGED autoCompacted

\* Assembling the Configuration throws: execute() rejects, the Run stays queued.
AssemblyFails(r) ==
  /\ exec[r] = "resolving"
  /\ StoreKept
  /\ ExecuteOnly(r, "settling")
  /\ UNCHANGED <<timers, autoCompacted>>

\* The context is nearly full: a compaction Control Run is queued in front, once
\* for each Run, and execute() returns.
AutoCompact(r, compaction) ==
  /\ exec[r] = "resolving"
  /\ ~control[r] /\ r \notin autoCompacted
  /\ Enter(compaction, agentOf[r], MaxRuns + 1)
  /\ control'[compaction]
  /\ Revised
  /\ autoCompacted' = autoCompacted \cup {r}
  /\ ExecuteOnly(r, "settling")
  /\ UNCHANGED timers

\* claimRun succeeds.
Claim(r) ==
  /\ exec[r] = "resolving"
  /\ Start(r)
  /\ Revised
  /\ ExecuteOnly(r, "claimed")
  /\ UNCHANGED <<timers, autoCompacted>>

\* claimRun is refused: the Run has moved on, or another one comes first.
ClaimRefused(r) ==
  /\ exec[r] = "resolving"
  /\ ~MayStart(r)
  /\ StoreKept
  /\ ExecuteOnly(r, "settling")
  /\ UNCHANGED <<timers, autoCompacted>>

-----------------------------------------------------------------------------
(* execute: after the claim *)

\* The answer of claimRun arrives and the attempt takes its slot.
Occupy(r) ==
  /\ exec[r] = "claimed"
  /\ executions' = executions \cup {r}
  /\ exec' = [exec EXCEPT ![r] = "executing"]
  /\ StoreKept
  /\ UNCHANGED <<pumping, wakeDue, timers, activeAgents, autoCompacted, cancelRequested,
                 cancelReads>>

\* An answer to a question the attempt has raised, or a Tool Call of it, moves the
\* revision of the live Run, and the attempt has yet to learn of it: the caller
\* of respondInteraction tells it some awaits later, a reply never does, and a
\* batch that returns sets it back to its own.
Overtake(r) ==
  /\ phase[r] = "active" /\ exec[r] # "claimed"
  /\ r \in Suspendable /\ revision[r] < MaxRevision
  /\ revision' = [revision EXCEPT ![r] = @ + 1]
  /\ overtaken' = overtaken \cup {r}
  /\ UNCHANGED <<qvars, process>>

\* onRevision, or a Tool Call committed since: the attempt is up to date again.
Learn(r) ==
  /\ exec[r] \in {"executing", "caught"}
  /\ r \in overtaken
  /\ overtaken' = overtaken \ {r}
  /\ UNCHANGED <<qvars, revision, process>>

\* A requested cancellation wins over any result of the loop.
Result(r) == Finish(r) \/ (Park(r) /\ r \in Suspendable /\ revision[r] < MaxRevision)
CommitAnyway(r) == Result(r)  \* mutant: the request is not looked at
Commit(r) == IF r \in cancelRequested THEN Finish(r) ELSE Result(r)

\* The loop returns and the attempt is committed; or it throws, or its commit is
\* refused, as it always is when the Run has moved on, and execute() catches that.
CommitAttempt(r) ==
  /\ exec[r] = "executing"
  /\ \/ phase[r] = "active" /\ r \notin overtaken /\ Commit(r) /\ ExecuteOnly(r, "settling")
     \/ UNCHANGED qvars /\ ExecuteOnly(r, "caught")
  /\ Revised
  /\ UNCHANGED <<timers, autoCompacted>>

GiveUpAtRevision(r) ==  \* mutant: the last resort of a failure presents the revision too
  IF r \in overtaken THEN UNCHANGED qvars ELSE Finish(r)
\* What becomes of a live attempt that was caught.  A requested cancellation
\* presents the revision the attempt knows, and its refusal is swallowed; a
\* failure that is refused ends in a cancellation that presents none.
GiveUp(r) ==
  IF r \in cancelRequested /\ r \in overtaken THEN UNCHANGED qvars ELSE Finish(r)

\* The catch of execute().
CaughtAttempt(r) ==
  /\ exec[r] = "caught"
  /\ IF phase[r] = "active" THEN GiveUp(r) ELSE UNCHANGED qvars
  /\ Revised
  /\ ExecuteOnly(r, "settling")
  /\ UNCHANGED <<timers, autoCompacted>>

\* The Agent and the slot are free, and whoever awaits the execution goes on.
Release(r) ==
  /\ exec[r] = "settling"
  /\ exec' = [exec EXCEPT ![r] = "none"]
  /\ activeAgents' = activeAgents \ {Taken(r)}
  /\ executions' = executions \ {r}
  /\ cancelRequested' = cancelRequested \ {r}
  /\ autoCompacted' = IF phase[r] # "ready" THEN autoCompacted \ {r} ELSE autoCompacted
  /\ StoreKept
  /\ UNCHANGED <<wakeDue, timers, cancelReads>>

\* The finally of execute().
SettleWithoutPump(r) == Release(r) /\ UNCHANGED pumping  \* mutant: it wakes nobody
Settle(r) == Release(r) /\ PumpCalled

-----------------------------------------------------------------------------
(* The host *)

HostOnly == UNCHANGED <<pumping, timers, activeAgents, exec, executions, autoCompacted,
                        cancelRequested, cancelReads>>

\* start, unless a suspended Run takes the input as its answer (Answer), or
\* runPhase for a Control Run, which looks for a busy Agent some awaits earlier.
StartRun(a, r, isControl) ==
  /\ Enter(r, a, MaxRuns + 1)
  /\ control'[r] = isControl
  /\ Revised
  /\ wakeDue' = TRUE
  /\ HostOnly

\* respondInteraction, or start as a reply, closes the last question of a suspended Run.
Answer(r) ==
  /\ Resume(r)
  /\ Revised
  /\ wakeDue' = TRUE
  /\ HostOnly

\* revise supersedes the Runs of the Agent from some point on.
Revise(a, from, r) ==
  /\ Enter(r, a, from)
  /\ ~control'[r]
  /\ Revised
  /\ wakeDue' = TRUE
  /\ HostOnly

\* cancel of a Run an execute() is working on leaves the rest to that execute()
\* and awaits it; otherwise it reads the Run to cancel it by itself.
Cancel(r) ==
  /\ r \in Cancellable
  /\ phase[r] \in Unfinished
  /\ \A c \in cancelReads : c.run # r  \* bound: one such call for each Run at a time
  /\ IF exec[r] # "none"
     THEN cancelRequested' = cancelRequested \cup {r} /\ UNCHANGED cancelReads
     ELSE /\ cancelReads' = cancelReads \cup {[run |-> r, revision |-> revision[r]]}
          /\ UNCHANGED cancelRequested
  /\ StoreKept
  /\ UNCHANGED <<pumping, wakeDue, timers, activeAgents, exec, executions, autoCompacted>>

\* cancelRun by the host itself, refused when the Run was changed since it was read.
CancelRun(c) ==
  /\ c \in cancelReads
  /\ cancelReads' = cancelReads \ {c}
  /\ IF c.revision = revision[c.run] THEN Finish(c.run) ELSE UNCHANGED qvars
  /\ Revised
  /\ UNCHANGED <<pumping, wakeDue, timers, activeAgents, exec, executions, autoCompacted,
                 cancelRequested>>

\* The process closes or dies and another one opens the Store.  Nothing in
\* memory survives; the first pump of the new process is due.
Restart ==
  /\ epoch < MaxEpochs
  /\ LoseOwner /\ epoch' = epoch + 1
  /\ Revised
  /\ pumping' = FALSE /\ wakeDue' = TRUE
  /\ timers' = {} /\ activeAgents' = {} /\ executions' = {}
  /\ autoCompacted' = {} /\ cancelRequested' = {} /\ cancelReads' = {}
  /\ exec' = [r \in Runs |-> "none"]

-----------------------------------------------------------------------------

Execute(r) ==
  \/ FailQueued(r)
  \/ Defer(r)
  \/ AssemblyFails(r)
  \/ \E compaction \in Runs : AutoCompact(r, compaction)
  \/ Claim(r)
  \/ ClaimRefused(r)

Host ==
  \/ \E a \in Agent, r \in Runs, isControl \in BOOLEAN : StartRun(a, r, isControl)
  \/ \E a \in Agent, from \in Runs, r \in Runs : Revise(a, from, r)
  \/ \E r \in Runs : Answer(r) \/ Cancel(r)
  \/ \E c \in cancelReads : CancelRun(c)

Next ==
  \/ Wake \/ PumpIdle
  \/ \E r \in Runs : Dispatch(r) \/ TimerFires(r) \/ Execute(r)
                     \/ Occupy(r) \/ Overtake(r) \/ Learn(r)
                     \/ CommitAttempt(r) \/ CaughtAttempt(r) \/ Settle(r)
  \/ Host
  \/ Restart

\* Continuations run, in an order that lets every Run of the list have its turn
\* before an execute() it overtook has come round again; a Configuration that
\* is looked up again and again is available some time; attempts end.
Fairness ==
  /\ WF_vars(Wake) /\ WF_vars(PumpIdle)
  /\ \A r \in Runs :
       /\ SF_vars(Dispatch(r))
       /\ WF_vars(Execute(r)) /\ SF_vars(Claim(r))
       /\ WF_vars(Occupy(r)) /\ WF_vars(CommitAttempt(r))
       /\ WF_vars(CaughtAttempt(r)) /\ WF_vars(Settle(r))

Spec == Init /\ [][Next]_vars /\ Fairness

-----------------------------------------------------------------------------
(* What the scheduler promises *)

\* A notification is never lost: when pump is idle, nobody is about to call it
\* and a slot is free, no queued Run waits for an Agent with nothing in flight.
NoStrandedRun == ~pumping /\ ~wakeDue /\ SlotFree => Candidates = {}

\* Every attempt the Store believes alive has an execute() that will end it: a
\* refused commit is caught, and a refused failure is cancelled.  The exception is
\* the cancellation the catch of execute() makes with a revision that was
\* overtaken: nothing in the process ends that Run any more.
AttemptHasExecutor ==
  \A r \in Runs : phase[r] = "active" =>
    \/ exec[r] \in {"claimed", "executing", "caught"}
    \/ /\ r \in overtaken
       /\ exec[r] = "none" \/ (exec[r] = "settling" /\ r \in cancelRequested)

\* One execute() for each Agent, through deferrals, refusals, revisions and restarts.
OneExecutionPerAgent ==
  \A q, r \in Runs :
    exec[q] # "none" /\ exec[r] # "none" /\ agentOf[q] = agentOf[r] => q = r

\* A cancellation that reaches a claimed attempt before it commits ends the Run,
\* whatever the loop returns or throws, or execute() is over and the Store's
\* revision was one the attempt did not know.
ClaimedCancelEnds ==
  \A r \in Runs :
    (r \in cancelRequested /\ exec[r] \in {"claimed", "executing", "caught"})
      ~> \/ phase[r] = "ended"
         \/ r \in overtaken /\ exec[r] \in {"settling", "none"}

\* A Run whose turn it is does not stay queued for ever: neither the limit, nor
\* blocked Runs of other Agents, nor deferrals and refusals starve it.
FirstInLineServed == \A r \in Runs : []<>~MayStart(r)

-----------------------------------------------------------------------------
(* What documents say of the scheduler, and the scheduler does not do *)

\* packages/agent/README.md: cancel() terminates an unfinished Run.  When the
\* execute() it awaits returns without a claim, or has just suspended the Run,
\* the request is dropped with that execute().
CancelTerminates ==
  [][epoch' = epoch => \A r \in cancelRequested \ cancelRequested' : phase'[r] = "ended"]_vars
=============================================================================
