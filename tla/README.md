# Rowan Agent: specification, model checking and proofs

This directory specifies the durable runtime of Rowan Agent
(`src/packages/agent/src/runtime`) in TLA+. TLC checks the modules on small
instances; TLAPS proves theorems about them for every value of the constants.
Paths below are relative to `src/packages/agent/src/` unless they start with
`src/`; `PROJECT.json` maps every definition to the lines it models.

| Module | What it is |
| --- | --- |
| `RunStore` | the durable Run state machine: ownership, Runs, attempts, Interactions, Tool Calls |
| `AgentQueue` | what the Store promises, without any of that: one FIFO server per Agent |
| `Scheduler` | `pump`, `execute`, `cancel` and the host calls of one process, over `AgentQueue` |
| `MCRunStore` | the symmetry of `RunStore` for TLC |
| `RunStoreProofs` | the inductive invariant of `RunStore` and its safety theorems |
| `RunStoreRefinement` | proof that `RunStore` implements `AgentQueue` |
| `SchedulerProofs` | the inductive invariant of `Scheduler` and its safety theorems |
| `HeldRun` | one claimed Run as its attempt sees it in the Store, with the revision every operation presents |
| `ToolQueue` | the serial Tool queue of an attempt and the live Interactions, over `HeldRun` |
| `RunExecution` | `execute` from the claim to the end of the attempt, over `ToolQueue` |
| `RunExecutionProofs` | the inductive invariant of `RunExecution` and its safety theorems |
| `PhaseLoop` | the Phase loop: routing, what a Phase is given, suspension and resumption |
| `PhaseLoopProofs` | the inductive invariant of `PhaseLoop` and its theorems |
| `ConfigCommands` | Configurations: the commands as sagas over Store and Provider, and what a Turn runs on |
| `ConfigCommandsProofs` | the inductive invariant of `ConfigCommands` and its theorems |
| `EventLog` | the durable event log, the Runs that append to it, and `compact` |
| `Consumers` | `consume`, its checkpoints, and the consumer that reports a child's Runs |
| `Observer` | `observe`: the merge of transient with durable events |
| `EventDelivery` | the log with its consumers and an observer, and the end of the process |
| `EventDeliveryProofs` | the inductive invariant of `EventDelivery` and its safety theorems |
| `SqliteStore` | owner row, caches and transactions of several processes over one file |
| `SqliteStoreProofs` | the inductive invariant of `SqliteStore` and its safety theorems |

## 1. Inventory of the system

Rowan runs *Agents*. A host starts *Runs* of an Agent; a Run is executed by an
*Execution Attempt* that loops over Phases, Turns and Tool Calls; it may stop
to ask the host a question (an *Interaction*); and everything that matters is
written to a durable *Store* so that another process can take over.

### Durable Store — `runtime/durable-store.ts`, `contracts.ts`, `runtime-events.ts`
*State*: the owner row (epoch, expiry), Agents, Runs (state, execution token,
open Interactions, checkpoint, revision), Tool Calls, transcript, operation
receipts, event log, consumer checkpoints.
*Operations*: `openOwner`, `renewOwner`, `releaseOwner`, `sealAndReleaseOwner`,
`createRun`, `claimRun`, `failQueuedRun`, `cancelRun`, `commitInputRequired`,
`raiseInteraction`, `answerInteraction`, `reserveToolCalls`, `startToolCall`,
`suspendToolCall`, `commitToolResult`, `recordToolCall`, `commitOutcome`,
`reviseMessage`, `withdraw`, Phase commits, Agent reservation and deletion,
event listing, consumer checkpoints, `compact`.
*Interaction*: called by the runtime of every process that shares the Store;
each call is atomic and fenced by the owner epoch, the execution token and
`expectedRevision`.
*Hard*: orders of calls nobody wrote a test for — held against suspended
waiting, Control Runs that overtake, revisions that supersede Runs in any
state, tokens of attempts that ended, a lease that expires and is revived.
*Correct when*: an old token never writes again; an Agent has one attempt at a
time and its Runs start in order; an attempt lost with its owner is reported
and never silently repeated; no effect of unknown outcome disappears; a Run
waits exactly while a question is open.

### SQLite Store — `runtime/sqlite-durable-store.ts`
Runs the in-memory Store inside transactions. *State*: tables, a cache per
owner, session files mirrored next to it. *Hard*: a cache mutated before a
COMMIT that fails, a mirror written before it, two processes on one database.
*Correct when* what a caller was told is in the tables, whichever statement
fails and whoever takes over, and an opening leaves nothing of earlier owners.

### Scheduler — `AgentRuntime` in `runtime/durable-runtime.ts` (`pump`, `execute`, `cancel`)
*State*: `activeAgents`, `executions`, `executionDone`, `pumping`,
`cancellationRequested`, `autoCompactionRuns`, retry timers; none of it
durable. *Operations*: `pump`, `execute`, and the host's `start`, `runPhase`,
`respondInteraction`, `revise`, `cancel`, `close`. *Interaction*: calls the
Store; woken by host calls, by the end of an execution and by timers.
*Hard*: everything between two awaits — a wake while the list is fetched, a
cancellation before, during or after the claim, a superseded attempt still
running, a slot counted late. *Correct when* no wake is lost, every attempt has
an executor, an Agent has one `execute()` in flight, a cancellation ends the
Run and no Run starves.

### Run execution — `durable-runtime.ts` from `execute` inwards, `runtime/execution.ts`
One attempt: a serial queue for Tool commits (`toolQueue`), a local copy of the
Run's revision, live Interactions, abort signals. *Hard*: the local revision
against the Store's, an abort while a Tool runs, a held Interaction answered
while others are open. *Correct when* each Tool effect is started once per
reservation and its result, or its unknown outcome, is committed, and when the
attempt ends, or stops for a question the Store shows, without leaving a token
or a Tool behind.

### Event log and consumers — `durable-store.ts` (events), `durable-runtime.ts` (`consume`, `observe`)
*State*: an append-only log, one cursor per durable consumer, a retention
floor. *Hard*: at-least-once delivery, compaction behind slow consumers, the
merge of live (transient) with durable events. *Correct when* a consumer sees
every event from its cursor on, in order.

### Transient events — `runtime/transient-run-events.ts`, `tool-call-merge.ts`
A bounded queue per observer that drops and merges. *Correct when* text streamed
before a committed Message is not shown after it.

### Child reports — `runtime/child-reports.ts`
A durable consumer that turns the end of a child's Run into an input of its
parent. *Correct when* each end is reported once although it may be delivered
more than once.

### Configuration — `runtime/config-commands.ts`, `config-provider.ts`, `configuration-snapshot.ts`, `turn-configuration.ts`
The Store keeps tokens; a *Config Provider* keeps what they stand for. *State*: the
Agent's current token, a Run's pinned one, receipts, and what the Provider stored.
*Operations*: `createAgent` (reserve, put, activate), `updateAgentConfig` (put,
commit), and the resolving and pinning inside `start`, `respondInteraction` and
`execute`. *Hard*: a crash, a retry or another command between two of the steps; a
Provider that throws, defers, forgets, or stores and does not answer. *Correct when*
no token dangles, a retried command does not undo a newer one, a message sees the
updates before it, and a Turn keeps what it began with.

### Resources and extensions — `runtime/resource-registry.ts`, `extension-lifetime.ts`, `extensions.ts`, `extensions/*`
Registration with leases and reference counts, hook order, disposal after the
last use. *Correct when* nothing in use is disposed and everything unused is.

### Loop and Phases — `loop/*`, `harness/phases/*`, `harness/tools/*`
Phase routing, Turns, suspension and resumption inside one attempt. *State*:
`ExecutionState` (Phase, attempt counter, payload, entry Phases, continuation)
and the locals of the loop, of which a suspension keeps a part in the
checkpoint. *Hard*: the Configuration may change between two Turns; the
checkpoint, the state and the locals each hold part of what the next Phase is to
be told. *Correct when* each Phase sees what was meant for it, nothing is run
twice because a Run was resumed, and circles end.

### The rest
Read models, session files and model context (projections and formats); harness
loading, skills and prompts (text; resource selection is a pure algorithm);
`src/packages/models` (HTTP and SSE wire formats, OAuth login and refresh);
`src/packages/cli` (arguments and I/O); `src/packages/logging` (output).

```
 host ── start / respond / revise / cancel ──► Scheduler ── claim, commit ──►  Store ──► events ──► consumers
                                                │   ▲                            ▲                     │
                                                ▼   │ done                       │ fenced writes       │
                                             Run execution ── Phases, Tools ─────┘        child reports, observers
```

## 2. What is modelled

### RunStore
Four variables: `lease` and `ownerEpoch` are the owner row; `runs` and
`toolCalls` are the Store's records without their contents. One action is one
Store operation, which the code runs without an await (and SQLite in one
transaction), so that what is checked is the order of the calls.

| Action | Operation |
| --- | --- |
| `OpenOwner`, `RenewOwner`, `SealAndReleaseOwner(e)` | the operations of that name, each with `interruptOwner` in it where the code calls it |
| `ExpireOwner` | the clock passes `expiresAt` |
| `CreateRun`, `ReplyToRun` | `createRun`, and its branch that answers a waiting Run instead |
| `ClaimRun`, `FailQueuedRun`, `CancelRun`, `ReviseMessage` | the operations of that name |
| `CommitInputRequired`, `RaiseInteraction`, `AnswerInteraction` | suspending, holding, answering |
| `ReserveToolCalls` … `CommitToolResult`, `CommitIndeterminate`, `RecordToolCall` | Tool Calls; `CommitIndeterminate` is `commitToolResult` with an unknown outcome |
| `CommitOutcome` | `commitOutcome` |

An executor may present any token ever handed out (`Tokens(r)`), so fencing is
exercised by every operation of it. Abstracted:

- A call with a stale `expectedRevision`, or a repeated one answered from its
  receipt, changes nothing and is no step.
- Runs are numbered in creation order. Within an Agent that is `agentSequence`,
  which is all the code compares.
- Contents, the transcript, `readySequence`, Phase commits, configuration
  tokens, `withdraw`, `deleteAgent` and `compact` are left out. `InTranscript`
  over-approximates which Runs have a Message that can be revised.
- Interaction ids are fresh while open. `commitInputRequired` is called with at
  least one, as `runtime/execution.ts` (318-343) always does, and a checkpoint lists the
  pending Tool Calls it was given.
- `recordToolCall` presents an execution and `external: true`, as its only
  caller does. That a Tool Call it finds is external and of the same Run is a guard
  of the model, not of the code (`durable-store.ts` 1657-1670): it holds as long as
  a Provider gives what it runs ids of its own.
- Failure codes are the ones the properties tell apart; an incompatible
  checkpoint counts as `configuration_unavailable`.

### AgentQueue
Five phases of a Run — `none`, `ready`, `active`, `parked`, `ended` — and who may
move it. A Run is `active` while it has an attempt, running or held; it is
`parked` when it waits without one. `RunStore!Queue` is the mapping.

### Scheduler
The Store is `AgentQueue`, plus the `revision` that `cancelRun` and a commit
compare, and whether the attempt of a Run knows it. The process is single threaded, so a step is what runs between two
awaits:

| Variable | Code |
| --- | --- |
| `overtaken` | the Runs whose revision in the Store is not the `executionRevision` of their attempt |
| `pumping` | `pump` awaits `listRuns` |
| `wakeDue` | a host call or `init` is about to call `pump` |
| `activeAgents`, `executions`, `autoCompacted`, `cancelRequested` | the fields of `AgentRuntime` |
| `exec[r]` | where `execute(r)` is: `resolving` its configuration, `claimed`, `executing` (in `executions`), `caught` (in the `catch`), `settling` (in the `finally`) |
| `timers` | the `setTimeout` of a deferred configuration |
| `cancelReads` | `cancel` calls between reading the Run and `cancelRun` |

Abstracted: a Store call takes effect when it is made, and its answer is a
later step unless nothing the caller reads can have changed by then; that is so
for `listRuns`, as answers arrive in call order, so the list and its use are one
step. What the loop does between claim and result is any result. The revision moves
with the phase, and by `Overtake`, which stands for an answer, a reply or a Tool Call
that moves it without the attempt learning of it yet; `Learn` is the attempt coming
up to date (`onRevision`, the next Tool Call). How that comes about step by step is
`RunExecution`'s; here it matters that a commit of such an attempt is refused and
caught (`CommitAttempt`), and what `CaughtAttempt` then does: a failure that is refused
too ends in a `cancelRun` without a revision, but a requested cancellation presents
the stale revision and swallows the refusal (`GiveUp`). A Store call fails only by
being refused. `StartRun` takes the checks of `runPhase` and `start` as passed,
since they are made some awaits earlier. `Restart` is one step: the closing
window of `close()` is not modelled, nor are extension hooks and the deletion
of Agents. The Run of `isCompactControlRun` is any Control Run.

### EventLog, Consumers, Observer, EventDelivery
The log is a sequence of events of four kinds, those that readers react to;
`retentionFloor` says from where it is retained. The Runs of one Agent append to
it, each operation in one step with the change of the Run. `EventDelivery`
composes the four parties, which share only the log:

| Action | Code |
| --- | --- |
| `CreateRun` … `EndRun`, `ReviseMessage`, `InterruptOwner` | what the Store operations append (`EventLog`) |
| `Consume`, `Poll`, `Handle`, `Acknowledged`, `Advance`, `Stop` | `consume` and `runConsumer`: register, read a batch, `onEvent` until it succeeds, checkpoint; `Stop` is the host's or that of `close` (`Consumers`) |
| `Handle` of a `Reporter` | `reportChildEvent`: one Run of the parent per pending Interaction, found again by its key |
| `Compact(cutoff)` | `compact` with the events up to `cutoff` older than the retention time |
| `Observe`, `CheckRun`, `List`, `Deliver`, `TopTransient`, `ListedTransient`, `BatchTransient`, `Abort` | the generator of `observe` between its awaits and yields |
| `Publish`, `ClearTransients`, `YieldTransient` | the bounded queue of the subscription |
| `ProcessEnds` | a crash, or the seal that ends `close`: subscriptions are gone, checkpoints stay |

A subscription's `caughtUp` is `pending`, `resolved` or `rejected`, settles once and
outlives the loop (`Settled`, `Left`): it resolves at the waterline, at an empty read,
and when the loop was stopped, whatever it has handled (line 2826); a stop in the
middle of a batch leaves it pending. Abstracted: contents; of transient events a text delta of the Run's Message and a
Phase status are told apart; merging is of neighbours of one kind. Each Run
streams one Message. Time is a choice of `cutoff`.

### HeldRun, ToolQueue, RunExecution
One attempt of one Run. `RunStore` has all Runs and owners but no revision;
`HeldRun` has one Run with its revision, which every operation presents and
moves, and refuses what it was not given. `ToolQueue` is the serial `toolQueue`
of `execute`: callers (the Phase, and a Provider in the middle of its stream,
serial or as parallel Phases) enqueue batches, reports and outputs; a task runs
them call by call; `liveInteract` raises a question whose waiter is registered
before the Store knows it. A step is one Store call with the assignment of the
revision it returns, so that everything between two awaits can interleave.
`RunExecution` adds the loop's callers, fan-out and join, the drain of the queue,
the ways an attempt ends (`EndCancelled`, `EndInputRequired`, `EndWithOutcome`,
`CaughtCancelled`, `CaughtFailed`, `Fallback`) and the host: `Respond` and
`ReplyToHeld` record an answer and `Tell` its waiter later, `Cancel`, `Revise`,
`Abort` when the heartbeat fails, `Expire`. Abstracted: contents of results;
permission hooks decide anything; a Store call fails only when it is refused or
the lease is lost. Left out: the signal a caller may give for one Tool Call
(`durable-runtime.ts` 2586-2601, 2686), on which the task goes on and commits `failed`
while the Tool may still run.

### PhaseLoop
One attempt after the other of one Run: `startPhaseLoop` and `runPhaseLoop` with
the checkpoint between them. `phase` … `continuation` are `ExecutionState`,
`continuing` … `progressed` the locals; `claim` is what the next attempt starts
from. What a Phase is given is named after its giver: a payload, and a briefing,
which stands for results and instruction since they go the same way. `due`,
`cut` and `kept` are history: what the Phase was entered with, and what of it a
suspension may rightly have cut off. One action per way out of the loop body:
`LimitReached`, `Enter`, `Skip`, `Fails`, `Ask`, `Complete`, `Continue`, `Wait`,
`Route`, `FanOut`, and `Overflow` for the compaction in the middle of an attempt.
`Resume(r)` is the next attempt under any Configuration `r`. Abstracted: what the
model says decides nothing but which way out is taken; a fan-out is one step,
its members being callers of `RunExecution`; payload schemas either accept or
throw.

### ConfigCommands
One Agent. A step is what runs between two awaits, so every command is a record of
how far it has come, beside the Store (`agent`, `receipts`, `runs`) and the Provider
(`stored`). The Provider gives each operation id a token of its own, so an operation
is its token.

| Variable | Code |
| --- | --- |
| `stored` | the Provider's entries: a `Configuration`, or a snapshot of one |
| `agent`, `runs`, `receipts` | the `AgentRecord`, the `RunRecord`s with their `pinnedConfigToken`, the receipts of `updateAgentConfigToken` |
| `commands` | `createAgent` and the updates, between `put` and the commit |
| `calls` | `start` and `respondInteraction`, with the token read at the start and the snapshot to pin |
| `exec` | the `execute()` in flight, resolving or about to claim |
| `asked`, `current`, `under` in `runs` | history: what each command asks for, what was the Agent's identity since a message was sent, what a Turn's attempts execute under |

| Action | Code |
| --- | --- |
| `PutCommand`, `ActivateAgent`, `UpdateAgentConfigToken` | the sagas of `config-commands.ts`, with the Store operations they end in |
| `Send`, `ResolvePayload`, `CheckBoundary`, `CreateRun` | `start`: read the Agent, prepare a `phasePayload`, look for a Run at its boundary, commit |
| `Answer`, `ResolveAnswer`, `RecordAnswer`, `AnswerQuestion` | `respondInteraction` at a boundary of Turns, and in the middle of one |
| `Execute`, `Unavailable`, `Deferred`, `ResolveConfig`, `AutoCompact`, `ClaimRun` | `execute` up to the claim |
| `AttemptEnds`, `Crash` | the end of an attempt; the end of the process, with the interruption of the next opening |

`PutFails` is every way a `put` gives no token, the answer that is lost after the
Provider stored included. Abstracted: a Configuration is its identity, and whether
its resources are resolved; resource revisions, the checks of a Provider's answers
and `contextConfiguration` are left out; `autoCompactionRuns` is not remembered
(`AutoCompact` may postpone an `execute()` again); `reserveAgent` has no step of its
own since nobody sees a reserved Agent; held Runs and Control Runs are those of
`RunStore`; a Turn ends with one question, named after its Turn; the Provider is
`InMemoryConfigProvider`, except for the failures.

### SqliteStore
`db` is what is committed, `cache[s]` the Store in memory of a `SqliteStore`
object, `held[s]` the leases it has returned. A transaction is one step, for it
is synchronous and `BEGIN IMMEDIATE` excludes others; a read is two, for it has
none (`ReadChecks`, `ReadServes`). Each way to fail is an action or a disjunct:
the operation throws (`OperationThrows`), the tables or the mirror cannot be
written (`PersistFails`), COMMIT fails (`CommitFails`, and in `OpenOwner` and
`Seal`), the process dies (`Crash`). Only rows that the `ChangeTracker` has
recorded are written (`Persisted`). The operations are represented by creating,
claiming and ending a Run; claiming and creating have a receipt, ending has not.
`told` is history: the last state of each Run that a caller was told.

## 3. What is checked

| Run | Instance | Shows |
| --- | --- | --- |
| `order` | 3 Runs of one Agent, 2 claims each, 2 owners, 2 Interactions | fencing, one attempt, start order, retry from checkpoints only, takeover, `AgentQueue` is implemented |
| `batch` | 1 Run, 3 Tool Calls, 2 Interactions, 2 claims, 2 owners | waiting means a question is open, Tool Calls belong to live attempts, what is suspended is resumable, results and ends are final, unknown effects are reported |
| `scheduler` | 2 Agents, 2 Runs, 1 slot, one restart, one suspension, a deferral, a cancellation | no lost wake, one `execute()` per Agent, a Run whose turn it is does not stay queued; every attempt has an executor and a cancellation of a claimed attempt ends the Run, except when that cancellation is refused for a revision the attempt did not know (section 6, `attempt_cancel`) |
| `events` | 2 Runs, 3 events, 1 consumer, 1 observer, one restart | checkpoints vouch for what lies before them, compaction passes no consumer, only the last event is given twice, every event is handled; `caughtUp` means handled, except for a consumer that was stopped (section 6); the observer sees the log in order, no stale text, and an end |
| `attempt` | a Phase with a batch of 2 Tool Calls and a Provider that calls, asks and reports, serial or parallel | effects are logged first and happen once; an attempt ends, or stops for a question, and leaves no orphan (but for `attempt_cancel`), no waiter and no task in its queue |
| `config` | 2 identities, 1 update, 2 messages, every fault of the Provider | no token dangles, a repeated update does not undo a newer one (a repeated `createAgent` does, section 6), new Runs see them, a Turn keeps its Configuration |
| `loop` | 2 Phases, 4 Configurations with Stop or compact, 2 executions in a row | every Phase is told what was meant for it, entry Phases are run once, circles come back to the human |
| `sqlite` | 2 processes, 2 Runs, 2 owners | what was told is durable, except what a failed COMMIT or seal leaves in a cache (section 6), nothing of an earlier owner is left running |
| `cancel`, `observe`, `reports`, `attempt_cancel` | the same or smaller instances | the disagreements of section 6 |

*Bounds.* `MaxRuns`, `MaxAttempts`, `MaxEpoch`, `MaxEpochs`, `MaxRevision`,
`Suspendable`, `Deferrable`, `Cancellable`, `MaxEvents`, `MaxRestarts`, `BatchSize`,
`MaxReports`, `MaxUpdates` and `MaxMessages` cap what would grow without end, in the range of ids or in the guard
of one action each. (`PhaseLoop`'s `MaxAttempts` and `MaxBuffered` are the limits
of the code itself, small.) Three Runs let a Control Run overtake a queued one
that stands behind a suspended one; two claims make one token old; two epochs
make one owner old and let a released, an expired and a revived lease occur;
three Tool Calls are the one that is committed, one in progress and one pending
beside it; two Interactions make the last answer differ from the first. In the
scheduler two Agents compete for one slot, or two Runs for one Agent, both of
which the instance contains since the Agent of a Run is chosen when it is
created. Three events let one be handled, one be in a batch and one arrive, with
compaction before any of them. Two callers are the least that make a revision
stale. Two executions in a row let a limit be reached by a skip, a continuation
or a route; no Configuration of the run has both Stop, which makes three ways of
routing, and compact. `sqlite` also passes with three owners (1.8 million
states). In `config` the update lets the Agent's identity change in the middle of
everything else, and two messages are a Run and one that replies to it, opens its
next Turn or queues behind it; it also passes with two updates and one message. The
theorems of section 4 do not depend on any of these numbers.

In `scheduler`, `Suspendable` are the Runs whose attempts ask a question: they may be
suspended, or answered while they live, which moves the revision and overtakes the
attempt; `MaxRevision` leaves room for either after a claim.

*Agents in `RunStore` runs.* One Agent: Runs of different Agents share only
owner, Interaction and Tool identities, and no operation compares them. The
theorems hold for any set.

*Type invariants.* Every module that is checked has one, and it is a theorem
(`TypeCorrect` of its proof module); no cfg lists it again.

*Deadlock* is not checked: when every Run has ended, and a bound is reached, the
system may rightly stop. That a scheduler which stops leaves nothing behind is
`NoStrandedRun`; that an attempt does not stop half way is `StopsOnlyForQuestions`.

*Fairness.* None is used for `RunStore`, `SqliteStore` and `ConfigCommands`. `Scheduler`'s:

- weak fairness of `Wake`, `PumpIdle`, `Execute(r)`, `Occupy(r)`, `CaughtAttempt(r)`,
  `Settle(r)`: continuations of an event loop run; and of `CommitAttempt(r)`: attempts
  end. `Learn(r)` is not fair: an attempt need not come up to date.
- strong fairness of `Dispatch(r)`: every Run that is first in the list again and
  again is dispatched. `pump` takes ties in list order and a deferred or refused
  Run comes round only after several awaits, in which `pump` takes the next;
- strong fairness of `Claim(r)`: a configuration looked up again and again is
  available some time. A Provider that always defers starves its own Run only.

`EventDelivery`'s: weak fairness of each consumer's loop, of the observer's, and of
`ClearTransients`, which an executor whose Run has ended calls on its way out; a
listener that fails is called again and succeeds some time, and the reader of the
generator asks for more. `CheckRun` is strongly fair: the generator looks at its
Run after an interval by the clock, whatever it yields in between.
`RunExecution`'s: one weak fairness, of `Due`, whatever the event loop has to go on
with: the running task, the callers, a waiter to be told, the steps of `execute`.
Continuations run, Tools and models return. It does not matter which of them comes
first, for an attempt of the model is bounded and none can be repeated for ever.
`PhaseLoop`'s: weak fairness of the loop's next step; that somebody answers is not
assumed. Host calls, answers, timers, expiries and restarts are not fair: nothing
has to happen.

## 4. What is proved

Every safety invariant and every action property of a passing run is a theorem. The
assumptions are those the modules name (`BoundsAssumption` and the like): the bounds are
naturals, the limits are at least one, names with a meaning of their own are no
ordinary names, a `Bridged` caller is a caller. Sets of Agents, Tool Calls,
Interactions, processes, Runs (of `SqliteStore`), Phases, Configurations, identities,
consumers and callers are arbitrary.

**`RunStoreProofs`.** `TypeCorrect` is inductive by itself. The invariants of the
runs are not: that one attempt runs per Agent needs that a running Run has an
attempt and only live Runs have one; start order needs creation order; retry
from checkpoints needs that a suspended Run has one. `IInv` adds these
(`RunShape`, `CreatedInOrder`). The step is proved in two parts. Every operation
but `claimRun` is a `QuietStep`: it appends, ends, suspends, holds or answers
Runs and keeps the owner or ends every attempt; a quiet step preserves `IInv`
whatever operation it came from. `ClaimRunInductive` is the other part, and is
where the two scans of `claimRun` are used. From `IInv` follow
`FencedByNewestAttempt`, `OneAttemptAtATime`, `InOrder`, `NoSilentRetry`,
`WaitsIffAsked`, and the action properties `EndedForGood` and `TakeoverComplete`.

The Tool Calls need a second invariant, `ToolInv`, inductive relative to `IInv`. Of a
Tool Call it says (`ToolShape`) who settled it, and that one in progress has the
execution of its Run, or of the held Run that a revision has superseded; of a Run,
that a waiting one without an attempt has a checkpoint that lists its open Tool Calls.
It cannot be shown operation by operation on the Tool Calls alone, since ending a Run
is what makes its Tool Calls wrong: `RunFate` says what a step has to account for when
an attempt ends (its Tool Calls are no longer in progress) or a Run begins to wait
without one (its open ones are listed), and there is one lemma `*Accounts` per
group of operations. From it follow `InProgressIsOwned`, `SuspendedAreResumable` and,
with `StepReports`, the action properties `SettledForGood` and
`UnknownEffectsAreReported`.

**`RunStoreRefinement`.** `Refines`: `Spec => ImplementsAgentQueue`. A quiet
step of one Run maps to `Enter`, `Park`, `Resume`, `Finish` or a stutter by what it
does to that Run (`OneRunQueued`); the interruption of an owner maps to `LoseOwner`,
because `IInv` says that no attempt is older than the installed epoch; a
revision is `Enter` with everything from the revised Run on; a claim is `Start`,
because its scans imply `MayStart`. This joins the two halves of the project:
`Scheduler` calls the Store only through actions of `AgentQueue`.

**`SchedulerProofs`.** `NothingStranded`, `AttemptsHaveExecutors` and `OneAtATime`
follow from one invariant. Its core is `Books`: `activeAgents` is exactly the
Agents of Runs with an `execute()` in flight, and those Runs exist, so their
Agent cannot change. So `pump` never starts a second one for an Agent, the
`finally` of one never frees the Agent of another, and when the last of an Agent
settles, its queued Runs become candidates in the step that pumps. That an attempt has
an executor (`Attended`) is a part of the invariant too, with the one exception the code
makes: a Run whose cancellation was requested and whose revision was overtaken
when the `catch` gave up on it. A Run that was left so stays overtaken as long as
its attempt lives (`StaysOvertaken`), so the exception needs no history.

**`SqliteStoreProofs`.** `TypeCorrect` is inductive by itself, and so is
`EarlierOwnersLeaveNothing` given the types: `NothingOfEarlierOwners` needs only
that an opening writes what it interrupts and that a claim is written under the
current epoch. `NothingToldIsLost` (`ToldIsDurable`) is not: a cache may be told
from after the tables have moved on, by a read that checked its lease before a
takeover. `IInv` therefore says of every lease that it belongs to one instance and
is not newer than the owner row (`LeasesAreSound`), and of every cache that a held
lease can use that it holds nothing the tables have not, except what a failed
COMMIT or seal left in it, and that under the current lease it is not behind them
either (`CachesAreSound`). `NotBehind` is what makes a write keep the tables
growing; `NotAhead` is what makes a result or a read true. There is one lemma per
action; those that touch one cache share `OtherCaches`, because only the instance
that holds the current lease writes.

**`PhaseLoopProofs`.** `EveryPhaseIsTold` (`PhaseSeesItsInput`) and `EntriesRunOnce`
(`ResumedRunsDoNotRedispatch`) hold for every set of Phases and Configurations. Neither
is inductive: what a Phase is shown is put together from the locals, the state, a
continuation and the checkpoint, at different times. `IInv` says of each of these what
it holds on behalf of the Phase that will read it: the host's payload stays in the
state, so that a continuation without one may fall back to it (`PayloadIsKept`); what
is due to the Phase in hand is in the locals (`InputIsDue`, `ToldRight`); what is due to
the Phase that a suspended Run will resume in is in the checkpoint (`CheckpointIsDue`);
and entry Phases that were run are gone from what a claim carries (`EntriesAreTaken`).

**`ConfigCommandsProofs`.** `NothingDangles`, `NewRunsUpToDate` and
`TurnsKeepConfiguration` follow from one invariant; `NothingUndone` needs only the
types. Three facts carry it. What is stored for an operation never changes
(`Grows`, from `put`'s comparison), so whatever once was true of a token stays true.
What a call has read or stored was the Agent's Configuration at some time since the
call began (`CallsAreSound`), and that set only grows while the call lasts (`Widens`);
a message whose Run exists is not sent again (`RunsAreSound`), so it does not start
over. And what a Turn executes under is named by the Run's pin from the first claim on
(`RunsAreSound`, `ExecIsSound`), which only a message that opens a Turn replaces. There is
one lemma per action; those of a call share `CallStep`, those that deliver a message
`DeliverInductive`, those of an attempt `AttemptStep`.

**`EventDeliveryProofs`.** The four parties share only the log, and so does the proof:
every step of the log is a `LogGrows` step, which appends events, moves the retention
floor forward and takes no streamed Message back, and what a reader relies on is
stable under it. For consumers (`ConsumerInv`), `NothingSkipped` needs to know where a
live subscription is between its checkpoint and the log: `Delivering` says of the batch
in hand that it has no gaps and begins right behind the checkpoint (`BatchFollows`), and
that one event at most is handled beyond the checkpoint (`HandledSoFar`). A consumer
without a checkpoint is protected from nothing, so its batch may begin before what is
retained; the four parts of `Delivering` carry that case along. `CursorsSurvive` holds
because `compact` stops at the smallest checkpoint. A promise outlives its loop, so
`CaughtUpIsHandled` has to follow a subscription beyond its end: every way out of the
loop is a `Leaves` step, which keeps a waterline that was reached, and excepts, as the
property does, the consumer that was stopped. For the observer (`ObserverInv`), a
batch lies behind the cursor and what was shown before it, in the order of the log; no
text of a shown Message is queued, because a Message in the log is one its Run has
committed (`MessagesStreamed`), after which none of its text is published.
From the conjunction follow
`NoEventSkipped`, `CaughtUpIsHandled`, `NoCursorLost`, `AtMostOneRedelivery` and
`ObserverIsFaithful`. That the observer is shown *every* event is false (section 6).

**`RunExecutionProofs`.** `EffectsLogged`, `NoOrphan`, `EndsQuiet`, `WaitersAnswerable`
and the action property `NoRepeatedEffect` follow from one invariant, for any number of
callers. A Tool runs at most once because a caller has at most one task, queued
(`TaskShape`) or running (`JobShape`), and the Tool Calls of the batch that are still to
come have not run: a question, an answer and the second pass of a batch all go through
`Idle`. An effect is logged because the step before it knows what the Store holds of
its Tool Call, and no operation of anybody else takes that back (`ToolsKept`). The end is
quiet because the drain of the queue comes after every caller is through
(`StageShape`) and a question is asked by a caller that waits for it or by the task at
`wait` (`AskShape`). That no orphan is left needs one fact of the Store,
`NoTokenNoEffect`: whoever takes the token from a Run interrupts its Tool Calls, or has
made sure that none is in progress; only `reviseMessage`, of a held Run, does neither
(section 6), which is why `NothingLeft` excepts invalidated Runs. The steps of the Store
are summed up first (`StoreKept`, `OpenKept`, `ToolsKept`), so that an action needs only
the summary of the operation it calls. The revision, on which the disagreement
`attempt_cancel` rests, occurs in none of these: what is proved holds whatever is refused.

*Model-checked only:* the liveness properties (`ClaimedCancelEnds`,
`FirstInLineServed`, `EveryEventHandled`, `ObservationEnds`, `StopsOnlyForQuestions`,
`CancelledAttemptEnds`, `CirclesReachTheHuman`), since TLAPS does not prove fairness
arguments. Everything else that a passing run checks is a theorem as well.

## 5. What is not modelled

The components marked `not_modelled` in `PROJECT.json`, with the reason there.
Of the modelled ones: the abstractions of section 2; the database below the level
of a transaction; the readable session files that are mirrored beside it (they are
appended before COMMIT, so a failed COMMIT leaves lines of events that never were);
a second opening under the same ownerId, since `AgentRuntime` draws a new one each
time (`durable-runtime.ts` 363); contents of messages and events; time, except that
a lease or a timer may expire.

## 6. Where code and documents disagree

| Run | Disagreement |
| --- | --- |
| `cancel` | `cancel()` of a Run whose `execute()` is in flight is forgotten when that `execute()` returns without a claim, or with a suspension just committed. |
| `observe` | while `observe` shows a batch of durable events, a transient event that has arrived takes the turn of a durable one, which is then never shown. |
| `reports` | a child's Interaction report is keyed by the Interaction, but its content depends on the child's history when it is sent: after a revision the repeated report conflicts with the first, and the consumer is stuck. |
| `attempt_cancel` | (excepted in `AttemptHasExecutor`, `ClaimedCancelEnds` and `AttemptLeavesNoOrphan`) a Tool task ends by setting the attempt's revision to one that a question raised meanwhile has overtaken; a cancellation then is refused twice, swallows the refusal and leaves a held Run without an executor. |

Observations without a run of their own. First those where a document says otherwise
(paths under `src/docs/`); the models behave as the code does:

- `interruptOwner` matches Tool Calls by execution id (`durable-store.ts` 358), but a
  suspended Tool Call keeps the id of its earlier attempt: reserve, suspend, answer,
  claim again and lose the owner leaves it pending in a failed Run, and `compact` never
  deletes that Run's events. `releases/0049-held-run-owner-loss.md` 5: "Pending and
  in-progress Tool Calls are interrupted". `InProgressOwned` holds all the same: what is
  left is pending, never in progress.
- `reviseMessage` interrupts the Tool Calls of the Runs that are running (`durable-store.ts`
  663-666) and not those of a held one, whose state is `input_required`: a Tool that runs
  while a question is open stays in progress for ever in the superseded Run, since its
  late commit is refused (`SupersedeRun`). `adr/0010-message-revision-and-history-seed.md`
  24: "A Tool Call touched by the invalid suffix is treated as potentially effectful;
  running calls are stopped and uncertain calls are indeterminate." `InProgressOwned` and
  `NothingLeft` except such Runs.
- The compaction after a context overflow is given the Run's own checkpoint and entry
  Phases (`durable-runtime.ts` 1715, 1330), and runs those instead of compact (`Overflow`
  in `PhaseLoop`). `prd/0011-explicit-resource-removal.md` 302: "automatic, overflow, and
  explicit Control Phase compaction keep working in every Loop shape."
- A `createAgent` that is called again after an update puts and activates the creation's
  Configuration once more, since the receipt of the reservation never shows an activated
  Agent (`ActivateAgent`). `prd/0003` 712: "replay returns the original Agent ID and does
  not update its configuration."
- A message sent after an update may open its Turn on the old Configuration: the boundary
  is looked for before the Run has suspended, or the resolution fails and is caught, or a
  retried answer conflicts with the snapshot of its first try, which is caught too
  (`CheckBoundary`, `ResolveAnswer`). `adr/0019` 165: "The switch applies from the
  Visitor's next message." `NewRunsSeeUpdates` therefore speaks of new Runs.
- A queued Run whose snapshot was put and whose claim was refused conflicts with its own
  snapshot after an update, and fails; so it does when `resolve` throws (`ResolveConfig`,
  `Unavailable`). `prd/0003` 742: "Provider exceptions and invalid responses are transient
  and therefore do not permanently fail a Run."
- A Run that is executed again before its claim keeps the first snapshot under its
  operation id, but executes what it resolved itself: with the same identity and other
  resources the two differ. `adr/0019` 49: "The Run is pinned to that Configuration
  Snapshot, and resume and recovery reuse it." `TurnKeepsItsConfiguration` compares
  identities.
- Neither the claim nor the failing of a queued Run compares the Agent's current token, so
  a stale `unavailable` fails a Run whose Agent has another Configuration by then.
  `prd/0003` 748: "both claim and `queued → failed` also CAS the Agent's current Config
  Token".

- A consumer that is stopped, or whose Runtime closes, before it has caught up either
  resolves `caughtUp` with its events unhandled (`durable-runtime.ts` 2826, when the stop
  falls between two batches or while `openConsumer` is awaited), or never settles it (the
  returns at 2801 and 2809). `adr/0002-host-owned-run-correlation-and-catch-up.md` 18:
  "Stopping before that barrier rejects `caughtUp` with `AbortError`." `prd/0003` 1345:
  "caller AbortSignal before catch-up rejects `caughtUp` with `AbortError`", and 1346 the
  same for a close, with `runtime_closed`. `CaughtUpMeansHandled` leaves out
  a stopped consumer that is gone (`Stop`, `Left`).

The others no document speaks of, or the model states them as an exception:

- `state-machine.ts` allows a waiting Run to be queued or cancelled only; a held
  Run goes back to running, fails or completes. The Store does not consult it.
- The limit counts claimed Runs, while `pump` starts an `execute()` for each
  Agent, so more than the limit execute at once; and the `finally` of a deferred
  `execute()` pumps and finds the same Run long before its retry timer. The same
  loop runs for a queued Run that `claimRun` refuses behind a suspended one. It
  hides that cancelling a queued or suspended Run wakes nobody; `NoStrandedRun`
  holds because of it.
- A Phase that waits for the next turn keeps its payload but not the results and
  the instruction it was given (`cut = "waited"`), though the comment at
  `loop/runners.ts` 946 speaks of keeping its prompt; one that stops for a Tool's
  question resumes with the continuation of an earlier wait, or none (`"asked"`).
- A fan-out without a target that joins at the internal entry Loop loses its
  results: the Loop has no Phase message.
- After a failed COMMIT the cache keeps the change: a retry with the same key is
  acknowledged although nothing was stored. `ToldIsDurable` leaves this out
  (`torn`), as it does what a failed seal leaves in the cache.
- A Tool's result may be refused because a question moved the revision while it
  ran; the outcome then is recorded as failed or not at all (`Commit`,
  `Indeterminate` in `ToolQueue`).
- `compact` deletes Runs whose events it has just decided to keep; a later one
  stops at the first event without a Run.

## 7. Plan

1. **Done**: `RunStore`, `AgentQueue`, `Scheduler`, `SqliteStore`, `PhaseLoop`,
   `ConfigCommands`, `EventDelivery` and `RunExecution`, each with its proofs.
2. Theorems: that `HeldRun` is what `RunStore` shows to one attempt, which would join
   `RunExecution` to `RunStore` as `RunStoreRefinement` joins `Scheduler` to it.
3. Components: `Transcript` (message revision and withdrawal, sequence numbers and
   digests), the resource revisions of a Configuration, the lifetime of extensions, the OAuth refresh, and resource selection, a pure algorithm against
   a reference definition.

## 8. Running it

```
tlc -workers 2 -config RunStoreOrder.cfg MCRunStore      # about 100 s
tlc -workers 2 -config Scheduler.cfg Scheduler           # about 150 s, safety and liveness
tlc -workers 2 -config RunExecution.cfg RunExecution     # about 90 s, safety and liveness
tlc -workers 2 -config EventDelivery.cfg EventDelivery   # about 140 s, safety and liveness
tlc -workers 2 -config ConfigCommands.cfg ConfigCommands # about 100 s
tlc -workers 2 -config PhaseLoop.cfg PhaseLoop           # about 45 s
tlc -workers 2 -config SqliteStore.cfg SqliteStore       # about 30 s
tlapm RunStoreProofs.tla                                 # likewise the other proof modules
```

The definitions marked `mutant` in the modules are wrong variants of the
definition below them, used to show that the properties can fail; no
specification uses them.
