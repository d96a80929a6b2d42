--------------------------- MODULE SchedulerProofs ---------------------------
(***************************************************************************)
(* Proofs about Scheduler, for every set of Agents, every number of Runs,  *)
(* every limit and every bound.                                            *)
(*                                                                         *)
(* What pump and execute() keep in memory is consistent: activeAgents are  *)
(* the Agents of the Runs with an execute() in flight (Books), so pump     *)
(* never starts a second one for an Agent, the finally of one does not     *)
(* free the Agent of another, and a Run queued for an Agent in flight is   *)
(* looked at again when that one settles.                                  *)
(***************************************************************************)
EXTENDS Scheduler, FiniteSetTheorems, TLAPS

InFlight == {r \in Runs : exec[r] # "none"}

\* What pump remembers is what is in flight.
Books == activeAgents = {agentOf[r] : r \in InFlight}

\* Only a Run that exists has an execute(): the Agent of a Run in flight is fixed.
InFlightExists == \A r \in InFlight : phase[r] # "none"

IInv ==
  /\ TypeOK
  /\ Books
  /\ InFlightExists
  /\ OneExecutionPerAgent
  /\ AttemptHasExecutor
  /\ NoStrandedRun

-----------------------------------------------------------------------------
(* What the steps of the Store do to the phases *)

\* No step of the queue but Enter makes a Run ready, and none but Start active.
Calm ==
  /\ agentOf' = agentOf
  /\ \A r \in Runs :
       /\ phase'[r] = "active" => phase[r] = "active"
       /\ phase'[r] = "ready" => phase[r] = "ready"
       /\ phase'[r] = "none" <=> phase[r] = "none"

\* Finishing a Run is calm, and leaves a well-typed queue.
LEMMA FinishCalm ==
  ASSUME TypeOK, NEW r \in Runs, Finish(r)
  PROVE  /\ Calm /\ epoch' = epoch /\ control' = control
         /\ phase' \in [Runs -> Phase]
         /\ phase'[r] = "ended"
BY DEF TypeOK, Finish, Calm, Phase

\* So is suspending one.
LEMMA ParkCalm ==
  ASSUME TypeOK, NEW r \in Runs, Park(r)
  PROVE  /\ Calm /\ epoch' = epoch /\ control' = control
         /\ phase' \in [Runs -> Phase]
         /\ phase'[r] = "parked"
BY DEF TypeOK, Park, Calm, Phase

\* A step that leaves the queue alone is calm.
LEMMA KeptCalm == ASSUME UNCHANGED qvars PROVE Calm
BY DEF qvars, Calm

\* Entering the queue makes only the new Run ready and ends others.
LEMMA Entered ==
  ASSUME TypeOK, NEW r \in Runs, NEW a \in Agent, NEW from, Enter(r, a, from)
  PROVE  /\ phase[r] = "none" /\ phase'[r] = "ready"
         /\ \A q \in Runs \ {r} : phase'[q] = phase[q] \/ (phase[q] # "none" /\ phase'[q] = "ended")
         /\ agentOf' = [agentOf EXCEPT ![r] = a]
         /\ epoch' = epoch
         /\ control' \in [Runs -> BOOLEAN]
         /\ phase' \in [Runs -> Phase]
         /\ agentOf' \in [Runs -> Agent]
BY DEF TypeOK, Enter, Phase

\* A Store step keeps revisions numbers, and overtakes nobody.
LEMMA RevisedTyped ==
  ASSUME TypeOK, Revised
  PROVE  revision' \in [Runs -> Nat] /\ overtaken' \subseteq Runs
BY DEF TypeOK, Revised

-----------------------------------------------------------------------------
(* Type correctness *)

\* The scheduler starts well typed.
LEMMA TypeInit == Init => TypeOK
<1> SUFFICES ASSUME Init PROVE TypeOK
  OBVIOUS
<1>1. epoch \in Nat /\ phase \in [Runs -> Phase] /\ agentOf \in [Runs -> Agent]
  BY DEF Init, QueueInit, Phase
<1>2. control \in [Runs -> BOOLEAN] /\ revision \in [Runs -> Nat] /\ exec \in [Runs -> ExecStep]
  BY DEF Init, QueueInit, ExecStep
<1>3. pumping \in BOOLEAN /\ wakeDue \in BOOLEAN /\ overtaken \subseteq Runs
  BY DEF Init
<1> QED BY <1>1, <1>2, <1>3 DEF Init, TypeOK

\* The steps of pump keep types.
LEMMA PumpTyped ==
  ASSUME TypeOK,
         \/ Wake \/ PumpIdle
         \/ \E r \in Runs : Dispatch(r) \/ TimerFires(r) \/ Occupy(r) \/ Settle(r)
  PROVE  TypeOK'
<1>1. CASE Wake
  BY <1>1 DEF Wake, PumpCalled, StoreKept, qvars, TypeOK
<1>2. CASE PumpIdle
  BY <1>2 DEF PumpIdle, StoreKept, qvars, TypeOK
<1>3. ASSUME NEW r \in Runs, Dispatch(r) PROVE TypeOK'
  BY <1>3 DEF Dispatch, Taken, SlotFree, StoreKept, qvars, TypeOK, ExecStep
<1>4. ASSUME NEW r \in Runs, TimerFires(r) PROVE TypeOK'
  BY <1>4 DEF TimerFires, PumpCalled, StoreKept, qvars, TypeOK
<1>5. ASSUME NEW r \in Runs, Occupy(r) PROVE TypeOK'
  BY <1>5 DEF Occupy, StoreKept, qvars, TypeOK, ExecStep
<1>6. ASSUME NEW r \in Runs, Settle(r) PROVE TypeOK'
  BY <1>6 DEF Settle, Release, Taken, PumpCalled, StoreKept, qvars, TypeOK, ExecStep
<1> QED BY <1>1, <1>2, <1>3, <1>4, <1>5, <1>6

\* So do the steps of execute().
LEMMA ExecuteTyped ==
  ASSUME TypeOK, NEW r \in Runs,
         Execute(r) \/ Overtake(r) \/ Learn(r) \/ CommitAttempt(r) \/ CaughtAttempt(r)
  PROVE  TypeOK'
<1> USE DEF ExecuteOnly
<1>1. CASE FailQueued(r)
  <2>1. phase' \in [Runs -> Phase] /\ UNCHANGED <<epoch, agentOf, control>>
    BY <1>1, FinishCalm DEF FailQueued, Calm, qvars, TypeOK
  <2> QED BY <1>1, <2>1, RevisedTyped DEF FailQueued, TypeOK, ExecStep
<1>2. CASE Defer(r)
  BY <1>2 DEF Defer, StoreKept, qvars, TypeOK, ExecStep
<1>3. CASE AssemblyFails(r)
  BY <1>3 DEF AssemblyFails, StoreKept, qvars, TypeOK, ExecStep
<1>4. ASSUME NEW c \in Runs, AutoCompact(r, c) PROVE TypeOK'
  <2>1. agentOf[r] \in Agent
    BY DEF TypeOK
  <2>2. /\ phase' \in [Runs -> Phase] /\ agentOf' \in [Runs -> Agent]
        /\ control' \in [Runs -> BOOLEAN] /\ epoch' = epoch
    BY <1>4, <2>1, Entered DEF AutoCompact
  <2> QED BY <1>4, <2>2, RevisedTyped DEF AutoCompact, TypeOK, ExecStep
<1>5. CASE Claim(r)
  <2>1. phase' \in [Runs -> Phase] /\ UNCHANGED <<epoch, agentOf, control>>
    BY <1>5 DEF Claim, Start, TypeOK, Phase
  <2> QED BY <1>5, <2>1, RevisedTyped DEF Claim, TypeOK, ExecStep
<1>6. CASE ClaimRefused(r)
  BY <1>6 DEF ClaimRefused, StoreKept, qvars, TypeOK, ExecStep
<1>7. CASE CommitAttempt(r)
  <2>1. phase' \in [Runs -> Phase] /\ UNCHANGED <<epoch, agentOf, control>>
    BY <1>7, FinishCalm, ParkCalm DEF CommitAttempt, Commit, Result, Calm, qvars, TypeOK
  <2> QED BY <1>7, <2>1, RevisedTyped DEF CommitAttempt, TypeOK, ExecStep
<1>8. CASE CaughtAttempt(r)
  <2>1. phase' \in [Runs -> Phase] /\ UNCHANGED <<epoch, agentOf, control>>
    BY <1>8, FinishCalm DEF CaughtAttempt, GiveUp, Calm, qvars, TypeOK
  <2> QED BY <1>8, <2>1, RevisedTyped DEF CaughtAttempt, TypeOK, ExecStep
<1>9. CASE Overtake(r)
  <2>1. revision' \in [Runs -> Nat] /\ overtaken' \subseteq Runs
    BY <1>9 DEF Overtake, TypeOK
  <2> QED BY <1>9, <2>1 DEF Overtake, qvars, process, TypeOK
<1>10. CASE Learn(r)
  <2>1. overtaken' \subseteq Runs
    BY <1>10 DEF Learn, TypeOK
  <2> QED BY <1>10, <2>1 DEF Learn, qvars, process, TypeOK
<1> QED BY <1>1, <1>2, <1>3, <1>4, <1>5, <1>6, <1>7, <1>8, <1>9, <1>10 DEF Execute

\* So do the calls of the host.
LEMMA HostTyped ==
  ASSUME TypeOK, Host
  PROVE  TypeOK'
<1>1. ASSUME NEW a \in Agent, NEW r \in Runs, NEW c \in BOOLEAN, StartRun(a, r, c) PROVE TypeOK'
  <2>1. /\ phase' \in [Runs -> Phase] /\ agentOf' \in [Runs -> Agent]
        /\ control' \in [Runs -> BOOLEAN] /\ epoch' = epoch
    BY <1>1, Entered DEF StartRun
  <2> QED BY <1>1, <2>1, RevisedTyped DEF StartRun, HostOnly, TypeOK
<1>2. ASSUME NEW a \in Agent, NEW from \in Runs, NEW r \in Runs, Revise(a, from, r) PROVE TypeOK'
  <2>1. /\ phase' \in [Runs -> Phase] /\ agentOf' \in [Runs -> Agent]
        /\ control' \in [Runs -> BOOLEAN] /\ epoch' = epoch
    BY <1>2, Entered DEF Revise
  <2> QED BY <1>2, <2>1, RevisedTyped DEF Revise, HostOnly, TypeOK
<1>3. ASSUME NEW r \in Runs, Answer(r) PROVE TypeOK'
  <2>1. phase' \in [Runs -> Phase] /\ UNCHANGED <<epoch, agentOf, control>>
    BY <1>3 DEF Answer, Resume, TypeOK, Phase
  <2> QED BY <1>3, <2>1, RevisedTyped DEF Answer, HostOnly, TypeOK
<1>4. ASSUME NEW r \in Runs, Cancel(r) PROVE TypeOK'
  <2>1. [run |-> r, revision |-> revision[r]] \in [run : Runs, revision : Nat]
    BY DEF TypeOK
  <2> QED BY <1>4, <2>1 DEF Cancel, StoreKept, qvars, TypeOK
<1>5. ASSUME NEW c \in cancelReads, CancelRun(c) PROVE TypeOK'
  <2>1. c.run \in Runs
    BY DEF TypeOK
  <2>2. phase' \in [Runs -> Phase] /\ UNCHANGED <<epoch, agentOf, control>>
    BY <1>5, <2>1, FinishCalm DEF CancelRun, Calm, qvars, TypeOK
  <2> QED BY <1>5, <2>2, RevisedTyped DEF CancelRun, TypeOK
<1> QED BY <1>1, <1>2, <1>3, <1>4, <1>5 DEF Host

\* And a restart.
LEMMA RestartTyped == TypeOK /\ Restart => TypeOK'
<1> SUFFICES ASSUME TypeOK, Restart PROVE TypeOK'
  OBVIOUS
<1>1. phase' \in [Runs -> Phase] /\ UNCHANGED <<agentOf, control>> /\ epoch' \in Nat
  BY DEF Restart, LoseOwner, TypeOK, Phase
<1>2. exec' \in [Runs -> ExecStep] /\ pumping' \in BOOLEAN /\ wakeDue' \in BOOLEAN
  BY DEF Restart, ExecStep
<1> QED BY <1>1, <1>2, RevisedTyped DEF Restart, TypeOK

\* Every reachable state of the scheduler is well typed.
THEOREM TypeCorrect == Spec => []TypeOK
<1>1. TypeOK /\ [Next]_vars => TypeOK'
  <2> SUFFICES ASSUME TypeOK, [Next]_vars PROVE TypeOK'
    OBVIOUS
  <2>1. CASE UNCHANGED vars
    BY <2>1 DEF vars, qvars, process, TypeOK
  <2> QED BY <2>1, PumpTyped, ExecuteTyped, HostTyped, RestartTyped DEF Next
<1> QED BY <1>1, TypeInit, PTL DEF Spec

-----------------------------------------------------------------------------
(* The safety invariant *)

\* What a step does to the books when no execute() starts or settles: the Runs in
\* flight are the same, and none of them changes its Agent or becomes nothing.
LEMMA BooksKept ==
  ASSUME IInv, TypeOK',
         activeAgents' = activeAgents,
         \A r \in Runs : exec'[r] = "none" <=> exec[r] = "none",
         \A r \in InFlight : agentOf'[r] = agentOf[r] /\ phase'[r] # "none"
  PROVE  Books' /\ InFlightExists' /\ OneExecutionPerAgent'
<1>1. InFlight' = InFlight
  BY DEF InFlight
<1>2. {agentOf'[r] : r \in InFlight} = {agentOf[r] : r \in InFlight}
  OBVIOUS
<1>3. Books'
  BY <1>1, <1>2 DEF IInv, Books
<1>4. InFlightExists'
  BY <1>1 DEF InFlightExists
<1>5. OneExecutionPerAgent'
  BY DEF IInv, OneExecutionPerAgent, InFlight
<1> QED BY <1>3, <1>4, <1>5

\* With more claimed Runs there is not a free slot more.
LEMMA SlotsOnlyTaken ==
  ASSUME TypeOK, TypeOK', executions \subseteq executions', SlotFree'
  PROVE  SlotFree
<1>1. IsFiniteSet(Runs)
  BY SchedulerAssumption, FS_Interval DEF Runs
<1>2. IsFiniteSet(executions')
  BY <1>1, FS_Subset DEF TypeOK
<1>3. IsFiniteSet(executions) /\ Cardinality(executions) <= Cardinality(executions')
  BY <1>2, FS_Subset
<1>4. Cardinality(executions) \in Nat /\ Cardinality(executions') \in Nat
  BY <1>2, <1>3, FS_CardinalityType
<1> QED BY <1>3, <1>4, SchedulerAssumption DEF SlotFree

\* A step strands no Run when pump stays as it is, no slot and no Agent comes
\* free, and a Run that becomes ready belongs to an Agent in flight.
LEMMA NobodyStranded ==
  ASSUME IInv, TypeOK',
         pumping' = pumping, wakeDue' = wakeDue,
         executions \subseteq executions', activeAgents \subseteq activeAgents',
         \A r \in Runs : phase'[r] = "ready" =>
            \/ phase[r] = "ready" /\ agentOf'[r] = agentOf[r]
            \/ agentOf'[r] \in activeAgents'
  PROVE  NoStrandedRun'
<1> SUFFICES ASSUME ~pumping', ~wakeDue', SlotFree', NEW r \in Candidates' PROVE FALSE
  BY DEF NoStrandedRun
<1>1. SlotFree
  BY SlotsOnlyTaken DEF IInv
<1>2. r \in Candidates
  BY DEF Candidates
<1> QED BY <1>1, <1>2 DEF IInv, NoStrandedRun

\* What AttemptHasExecutor says of one Run.
Attended(r) ==
  \/ exec[r] \in {"claimed", "executing", "caught"}
  \/ /\ r \in overtaken
     /\ exec[r] = "none" \/ (exec[r] = "settling" /\ r \in cancelRequested)

\* A calm step that touches neither pump nor the books keeps the invariant when
\* every attempt that is still active keeps its execute(), or was given up.
LEMMA CalmStep ==
  ASSUME IInv, TypeOK', Calm,
         UNCHANGED <<pumping, wakeDue, activeAgents>>,
         executions \subseteq executions',
         \A r \in Runs : exec'[r] = "none" <=> exec[r] = "none",
         \A r \in Runs : phase'[r] = "active" => Attended(r)'
  PROVE  IInv'
<1>1. Books' /\ InFlightExists' /\ OneExecutionPerAgent'
  BY BooksKept DEF Calm, InFlight, IInv, InFlightExists
<1>2. NoStrandedRun'
  BY NobodyStranded DEF Calm
<1>3. AttemptHasExecutor'
  BY DEF AttemptHasExecutor, Attended
<1> QED BY <1>1, <1>2, <1>3 DEF IInv

\* A Store step leaves those overtaken that it leaves active.
LEMMA StaysOvertaken ==
  ASSUME Revised \/ StoreKept
  PROVE  \A q \in Runs : phase'[q] = "active" /\ q \in overtaken => q \in overtaken'
BY DEF Revised, StoreKept

\* An attempt stays attended in a step that does not move its execute(), and
\* neither tells it the revision nor drops its cancellation.
LEMMA AttendedKept ==
  ASSUME IInv, NEW q \in Runs, phase[q] = "active", exec'[q] = exec[q],
         q \in overtaken => q \in overtaken',
         q \in cancelRequested => q \in cancelRequested'
  PROVE  Attended(q)'
BY DEF IInv, AttemptHasExecutor, Attended

\* The steps of execute() keep the invariant.
LEMMA ExecuteInductive ==
  ASSUME IInv, NEW r \in Runs,
         \/ Execute(r) \/ Occupy(r) \/ Overtake(r) \/ Learn(r)
         \/ CommitAttempt(r) \/ CaughtAttempt(r)
  PROVE  IInv'
<1>t. TypeOK /\ TypeOK'
  BY ExecuteTyped, PumpTyped DEF IInv
<1>e. exec \in [Runs -> ExecStep]
  BY <1>t DEF TypeOK
<1>a. ASSUME NEW q \in Runs, phase[q] = "active", exec[q] = "resolving" PROVE FALSE
  BY <1>a DEF IInv, AttemptHasExecutor
<1>o. ASSUME NEW step, ExecuteOnly(r, step), Revised \/ StoreKept, Calm, phase'[r] # "active"
      PROVE  \A q \in Runs : phase'[q] = "active" => Attended(q)'
  <2> SUFFICES ASSUME NEW q \in Runs, phase'[q] = "active" PROVE Attended(q)'
    OBVIOUS
  <2>1. q # r /\ phase[q] = "active"
    BY <1>o DEF Calm
  <2>2. exec'[q] = exec[q] /\ cancelRequested' = cancelRequested
    BY <1>e, <1>o, <2>1 DEF ExecuteOnly
  <2> QED BY <1>o, <2>1, <2>2, StaysOvertaken, AttendedKept
<1>c. ASSUME NEW step \in ExecStep \ {"none"}, ExecuteOnly(r, step), exec[r] # "none",
             Revised \/ StoreKept, Calm, phase'[r] # "active"
      PROVE  IInv'
  <2>1. \A q \in Runs : phase'[q] = "active" => Attended(q)'
    BY <1>c, <1>o
  <2>2. /\ UNCHANGED <<pumping, wakeDue, activeAgents, executions>>
        /\ \A q \in Runs : exec'[q] = "none" <=> exec[q] = "none"
    BY <1>c, <1>e DEF ExecuteOnly
  <2> QED BY <1>c, <1>t, <2>1, <2>2, CalmStep
<1>1. CASE FailQueued(r)
  <2>1. Calm
    BY <1>1, <1>t, FinishCalm, KeptCalm DEF FailQueued
  <2>2. phase'[r] # "active"
    BY <1>1, <1>a, <2>1 DEF FailQueued, Calm
  <2> QED BY <1>1, <1>c, <2>1, <2>2 DEF FailQueued, ExecStep
<1>2. CASE Defer(r)
  <2>1. Calm /\ phase' = phase
    BY <1>2, KeptCalm DEF Defer, StoreKept, qvars
  <2> QED BY <1>2, <1>a, <1>c, <2>1 DEF Defer, ExecStep
<1>3. CASE AssemblyFails(r)
  <2>1. Calm /\ phase' = phase
    BY <1>3, KeptCalm DEF AssemblyFails, StoreKept, qvars
  <2> QED BY <1>3, <1>a, <1>c, <2>1 DEF AssemblyFails, ExecStep
<1>4. ASSUME NEW c \in Runs, AutoCompact(r, c) PROVE IInv'
  <2> USE <1>t
  <2>1. agentOf[r] \in Agent
    BY DEF TypeOK
  <2>2. /\ phase[c] = "none" /\ phase'[c] = "ready"
        /\ \A q \in Runs \ {c} :
             phase'[q] = phase[q] \/ (phase[q] # "none" /\ phase'[q] = "ended")
        /\ agentOf' = [agentOf EXCEPT ![c] = agentOf[r]]
    BY <1>4, <2>1, Entered DEF AutoCompact
  <2>3. /\ exec[r] = "resolving"
        /\ exec' = [exec EXCEPT ![r] = "settling"]
        /\ UNCHANGED <<pumping, wakeDue, activeAgents, executions>>
    BY <1>4 DEF AutoCompact, ExecuteOnly
  <2>4. r \in InFlight /\ c \notin InFlight
    BY <2>2, <2>3 DEF IInv, InFlight, InFlightExists
  <2>5. \A q \in InFlight : agentOf'[q] = agentOf[q] /\ phase'[q] # "none"
    BY <2>2, <2>4 DEF IInv, InFlightExists, TypeOK, InFlight
  <2>6. \A q \in Runs : exec'[q] = "none" <=> exec[q] = "none"
    BY <1>e, <2>3
  <2>7. Books' /\ InFlightExists' /\ OneExecutionPerAgent'
    BY <2>3, <2>5, <2>6, BooksKept
  <2>8. AttemptHasExecutor'
    <3> SUFFICES ASSUME NEW q \in Runs, phase'[q] = "active" PROVE Attended(q)'
      BY DEF AttemptHasExecutor, Attended
    <3>1. q # c /\ phase[q] = "active"
      BY <2>2
    <3>2. q # r
      BY <1>a, <2>3, <3>1
    <3>3. exec'[q] = exec[q] /\ cancelRequested' = cancelRequested
      BY <1>4, <1>e, <2>3, <3>2 DEF AutoCompact, ExecuteOnly
    <3>4. q \in overtaken => q \in overtaken'
      BY <1>4, StaysOvertaken DEF AutoCompact
    <3> QED BY <3>1, <3>3, <3>4, AttendedKept
  <2>9. agentOf'[c] \in activeAgents'
    BY <2>2, <2>3, <2>4 DEF IInv, Books, TypeOK
  <2>10. \A q \in Runs : phase'[q] = "ready" =>
            \/ phase[q] = "ready" /\ agentOf'[q] = agentOf[q]
            \/ agentOf'[q] \in activeAgents'
    BY <2>2, <2>9 DEF TypeOK
  <2>11. NoStrandedRun'
    BY <2>3, <2>10, NobodyStranded
  <2> QED BY <2>7, <2>8, <2>11 DEF IInv
<1>5. CASE Claim(r)
  <2>1. /\ phase[r] = "ready"
        /\ phase' = [phase EXCEPT ![r] = "active"]
        /\ agentOf' = agentOf
    BY <1>5 DEF Claim, Start, MayStart
  <2>2. /\ exec[r] = "resolving"
        /\ exec' = [exec EXCEPT ![r] = "claimed"]
        /\ UNCHANGED <<pumping, wakeDue, activeAgents, executions>>
    BY <1>5 DEF Claim, ExecuteOnly
  <2>3. \A q \in Runs : exec'[q] = "none" <=> exec[q] = "none"
    BY <1>e, <2>2
  <2>4. \A q \in InFlight : agentOf'[q] = agentOf[q] /\ phase'[q] # "none"
    BY <1>t, <2>1 DEF IInv, InFlightExists, TypeOK, InFlight
  <2>5. Books' /\ InFlightExists' /\ OneExecutionPerAgent'
    BY <1>t, <2>2, <2>3, <2>4, BooksKept
  <2>6. AttemptHasExecutor'
    <3> SUFFICES ASSUME NEW q \in Runs, phase'[q] = "active" PROVE Attended(q)'
      BY DEF AttemptHasExecutor, Attended
    <3>1. CASE q = r
      BY <1>e, <2>2, <3>1 DEF Attended
    <3>2. CASE q # r
      <4>1. phase[q] = "active"
        BY <1>t, <2>1, <3>2 DEF TypeOK
      <4>2. exec'[q] = exec[q] /\ cancelRequested' = cancelRequested
        BY <1>5, <1>e, <2>2, <3>2 DEF Claim, ExecuteOnly
      <4>3. q \in overtaken => q \in overtaken'
        BY <1>5, StaysOvertaken DEF Claim
      <4> QED BY <4>1, <4>2, <4>3, AttendedKept
    <3> QED BY <3>1, <3>2
  <2>7. NoStrandedRun'
    BY <1>t, <2>1, <2>2, NobodyStranded DEF TypeOK
  <2> QED BY <1>t, <2>5, <2>6, <2>7 DEF IInv
<1>6. CASE ClaimRefused(r)
  <2>1. Calm /\ phase' = phase
    BY <1>6, KeptCalm DEF ClaimRefused, StoreKept, qvars
  <2> QED BY <1>6, <1>a, <1>c, <2>1 DEF ClaimRefused, ExecStep
<1>7. CASE Occupy(r)
  <2>1. Calm /\ phase' = phase
    BY <1>7, KeptCalm DEF Occupy, StoreKept, qvars
  <2>2. /\ exec[r] = "claimed" /\ exec' = [exec EXCEPT ![r] = "executing"]
        /\ executions \subseteq executions'
        /\ UNCHANGED <<pumping, wakeDue, activeAgents, cancelRequested, overtaken>>
    BY <1>7 DEF Occupy, StoreKept
  <2>3. \A q \in Runs : phase'[q] = "active" => Attended(q)'
    <3> SUFFICES ASSUME NEW q \in Runs, phase'[q] = "active" PROVE Attended(q)'
      OBVIOUS
    <3>1. CASE q = r
      BY <1>e, <2>2, <3>1 DEF Attended
    <3>2. CASE q # r
      BY <1>e, <2>1, <2>2, <3>2, AttendedKept
    <3> QED BY <3>1, <3>2
  <2>4. \A q \in Runs : exec'[q] = "none" <=> exec[q] = "none"
    BY <1>e, <2>2
  <2> QED BY <1>t, <2>1, <2>2, <2>3, <2>4, CalmStep
<1>8. CASE CommitAttempt(r)
  <2>1. CASE /\ phase[r] = "active" /\ r \notin overtaken
             /\ Commit(r) /\ ExecuteOnly(r, "settling")
    <3>1. Calm /\ phase'[r] # "active"
      BY <1>t, <2>1, FinishCalm, ParkCalm DEF Commit, Result
    <3> QED BY <1>8, <1>c, <2>1, <3>1 DEF CommitAttempt, ExecStep
  <2>2. CASE UNCHANGED qvars /\ ExecuteOnly(r, "caught")
    <3>1. Calm /\ phase' = phase
      BY <2>2, KeptCalm DEF qvars
    <3>2. /\ exec[r] = "executing" /\ exec' = [exec EXCEPT ![r] = "caught"]
          /\ UNCHANGED <<pumping, wakeDue, activeAgents, executions, cancelRequested>>
      BY <1>8, <2>2 DEF CommitAttempt, ExecuteOnly
    <3>3. \A q \in Runs : phase'[q] = "active" => Attended(q)'
      <4> SUFFICES ASSUME NEW q \in Runs, phase'[q] = "active" PROVE Attended(q)'
        OBVIOUS
      <4>1. CASE q = r
        BY <1>e, <3>2, <4>1 DEF Attended
      <4>2. CASE q # r
        <5>1. q \in overtaken => q \in overtaken'
          BY <1>8, StaysOvertaken DEF CommitAttempt
        <5> QED BY <1>e, <3>1, <3>2, <4>2, <5>1, AttendedKept
      <4> QED BY <4>1, <4>2
    <3>4. \A q \in Runs : exec'[q] = "none" <=> exec[q] = "none"
      BY <1>e, <3>2
    <3> QED BY <1>t, <3>1, <3>2, <3>3, <3>4, CalmStep
  <2> QED BY <1>8, <2>1, <2>2 DEF CommitAttempt
<1>9. CASE CaughtAttempt(r)
  <2>1. CASE phase'[r] # "active"
    <3>1. Calm
      <4>1. CASE phase[r] = "active"
        BY <1>9, <1>t, <4>1, FinishCalm, KeptCalm DEF CaughtAttempt, GiveUp
      <4>2. CASE phase[r] # "active"
        BY <1>9, <4>2, KeptCalm DEF CaughtAttempt
      <4> QED BY <4>1, <4>2
    <3> QED BY <1>9, <1>c, <2>1, <3>1 DEF CaughtAttempt, ExecStep
  <2>2. CASE phase'[r] = "active"
    <3>1. phase[r] = "active" /\ UNCHANGED qvars /\ r \in cancelRequested /\ r \in overtaken
      BY <1>9, <1>t, <2>2, FinishCalm DEF CaughtAttempt, GiveUp, qvars
    <3>2. Calm /\ phase' = phase
      BY <3>1, KeptCalm DEF qvars
    <3>3. /\ exec[r] = "caught" /\ exec' = [exec EXCEPT ![r] = "settling"]
          /\ UNCHANGED <<pumping, wakeDue, activeAgents, executions, cancelRequested>>
          /\ \A q \in Runs : phase'[q] = "active" /\ q \in overtaken => q \in overtaken'
      BY <1>9, StaysOvertaken DEF CaughtAttempt, ExecuteOnly
    <3>4. \A q \in Runs : phase'[q] = "active" => Attended(q)'
      <4> SUFFICES ASSUME NEW q \in Runs, phase'[q] = "active" PROVE Attended(q)'
        OBVIOUS
      <4>1. CASE q = r
        BY <1>e, <2>2, <3>1, <3>3, <4>1 DEF Attended
      <4>2. CASE q # r
        BY <1>e, <3>2, <3>3, <4>2, AttendedKept
      <4> QED BY <4>1, <4>2
    <3>5. \A q \in Runs : exec'[q] = "none" <=> exec[q] = "none"
      BY <1>e, <3>3
    <3> QED BY <1>t, <3>2, <3>3, <3>4, <3>5, CalmStep
  <2> QED BY <2>1, <2>2
<1>10. CASE Overtake(r)
  <2>1. Calm /\ phase' = phase /\ UNCHANGED process /\ overtaken \subseteq overtaken'
    BY <1>10, KeptCalm DEF Overtake, qvars
  <2>2. \A q \in Runs : phase'[q] = "active" => Attended(q)'
    BY <2>1, AttendedKept DEF process
  <2> QED BY <1>t, <2>1, <2>2, CalmStep DEF process
<1>11. CASE Learn(r)
  <2>1. /\ Calm /\ phase' = phase /\ UNCHANGED process
        /\ exec[r] \in {"executing", "caught"} /\ overtaken' = overtaken \ {r}
    BY <1>11, KeptCalm DEF Learn, qvars
  <2>2. \A q \in Runs : phase'[q] = "active" => Attended(q)'
    <3> SUFFICES ASSUME NEW q \in Runs, phase'[q] = "active" PROVE Attended(q)'
      OBVIOUS
    <3>1. CASE q = r
      BY <2>1, <3>1 DEF process, Attended
    <3>2. CASE q # r
      BY <2>1, <3>2, AttendedKept DEF process
    <3> QED BY <3>1, <3>2
  <2> QED BY <1>t, <2>1, <2>2, CalmStep DEF process
<1> QED
  BY <1>1, <1>2, <1>3, <1>4, <1>5, <1>6, <1>7, <1>8, <1>9, <1>10, <1>11 DEF Execute

\* The steps of pump, and the end of execute(), keep the invariant.
LEMMA PumpInductive ==
  ASSUME IInv,
         \/ Wake \/ PumpIdle
         \/ \E r \in Runs : Dispatch(r) \/ TimerFires(r) \/ Settle(r)
  PROVE  IInv'
<1>t. TypeOK /\ TypeOK'
  BY PumpTyped DEF IInv
<1>e. exec \in [Runs -> ExecStep]
  BY <1>t DEF TypeOK
<1>k. ASSUME StoreKept, UNCHANGED <<activeAgents, exec, executions, cancelRequested>>
      PROVE  Books' /\ InFlightExists' /\ OneExecutionPerAgent' /\ AttemptHasExecutor'
  BY <1>k, <1>t, BooksKept
     DEF StoreKept, qvars, AttemptHasExecutor, IInv, InFlightExists, InFlight
<1>1. CASE Wake
  <2>1. NoStrandedRun'
    BY <1>1 DEF Wake, PumpCalled, NoStrandedRun
  <2> QED BY <1>1, <1>t, <1>k, <2>1 DEF Wake, IInv
<1>2. CASE PumpIdle
  <2>1. Candidates' = {}
    BY <1>2 DEF PumpIdle, StoreKept, qvars, Candidates
  <2> QED BY <1>2, <1>t, <1>k, <2>1 DEF PumpIdle, IInv, NoStrandedRun
<1>3. ASSUME NEW r \in Runs, TimerFires(r) PROVE IInv'
  <2>1. NoStrandedRun'
    <3>1. SlotFree' => pumping'
      BY <1>3 DEF TimerFires, PumpCalled
    <3> QED BY <3>1 DEF NoStrandedRun
  <2> QED BY <1>3, <1>t, <1>k, <2>1 DEF TimerFires, IInv
<1>4. ASSUME NEW r \in Runs, Dispatch(r) PROVE IInv'
  <2>1. /\ phase[r] = "ready" /\ agentOf[r] \notin activeAgents
        /\ activeAgents' = activeAgents \cup {agentOf[r]}
        /\ exec' = [exec EXCEPT ![r] = "resolving"]
        /\ pumping' = SlotFree
        /\ UNCHANGED <<phase, agentOf, executions, cancelRequested, overtaken>>
    BY <1>4 DEF Dispatch, FirstInList, Candidates, Taken, StoreKept, qvars
  <2>2. InFlight' = InFlight \cup {r}
    BY <1>e, <2>1 DEF InFlight
  <2>3. Books'
    BY <2>1, <2>2 DEF IInv, Books
  <2>4. InFlightExists'
    BY <2>1, <2>2 DEF IInv, InFlightExists
  <2>5. OneExecutionPerAgent'
    <3>1. \A q \in InFlight : agentOf[q] # agentOf[r]
      BY <2>1 DEF IInv, Books
    <3> QED BY <1>e, <2>1, <3>1 DEF IInv, OneExecutionPerAgent, InFlight
  <2>6. AttemptHasExecutor'
    <3> SUFFICES ASSUME NEW q \in Runs, phase'[q] = "active" PROVE Attended(q)'
      BY DEF AttemptHasExecutor, Attended
    <3>1. q # r
      BY <2>1
    <3> QED BY <1>e, <2>1, <3>1, AttendedKept
  <2>7. NoStrandedRun'
    BY <2>1 DEF NoStrandedRun, SlotFree
  <2> QED BY <1>t, <2>3, <2>4, <2>5, <2>6, <2>7 DEF IInv
<1>5. ASSUME NEW r \in Runs, Settle(r) PROVE IInv'
  <2>1. /\ exec[r] = "settling"
        /\ activeAgents' = activeAgents \ {agentOf[r]}
        /\ exec' = [exec EXCEPT ![r] = "none"]
        /\ SlotFree' => pumping'
        /\ cancelRequested' = cancelRequested \ {r}
        /\ UNCHANGED <<phase, agentOf, overtaken>>
    BY <1>5 DEF Settle, Release, Taken, PumpCalled, StoreKept, qvars
  <2>2. InFlight' = InFlight \ {r}
    BY <1>e, <2>1 DEF InFlight
  <2>3. \A q \in InFlight : agentOf[q] = agentOf[r] => q = r
    BY <2>1 DEF IInv, OneExecutionPerAgent, InFlight
  <2>4. Books'
    BY <2>1, <2>2, <2>3 DEF IInv, Books
  <2>5. InFlightExists' /\ OneExecutionPerAgent'
    BY <1>e, <2>1, <2>2 DEF IInv, InFlightExists, OneExecutionPerAgent
  <2>6. AttemptHasExecutor'
    <3> SUFFICES ASSUME NEW q \in Runs, phase'[q] = "active" PROVE Attended(q)'
      BY DEF AttemptHasExecutor, Attended
    <3>1. CASE q = r
      BY <1>e, <2>1, <3>1 DEF IInv, AttemptHasExecutor, Attended
    <3>2. CASE q # r
      BY <1>e, <2>1, <3>2, AttendedKept
    <3> QED BY <3>1, <3>2
  <2>7. NoStrandedRun'
    BY <2>1 DEF NoStrandedRun
  <2> QED BY <1>t, <2>4, <2>5, <2>6, <2>7 DEF IInv
<1> QED BY <1>1, <1>2, <1>3, <1>4, <1>5

\* The calls of the host keep the invariant: those that make a Run ready are
\* about to call pump.
LEMMA HostInductive ==
  ASSUME IInv, Host
  PROVE  IInv'
<1>t. TypeOK /\ TypeOK'
  BY HostTyped DEF IInv
<1>a. ASSUME Revised \/ StoreKept, exec' = exec, cancelRequested \subseteq cancelRequested',
             \A q \in Runs : phase'[q] = "active" => phase[q] = "active"
      PROVE  \A q \in Runs : phase'[q] = "active" => Attended(q)'
  BY <1>a, StaysOvertaken, AttendedKept
<1>n. ASSUME NEW a \in Agent, NEW from, NEW r \in Runs, Enter(r, a, from), Revised, wakeDue', HostOnly
      PROVE  IInv'
  <2>1. /\ phase[r] = "none" /\ phase'[r] = "ready"
        /\ \A q \in Runs \ {r} :
             phase'[q] = phase[q] \/ (phase[q] # "none" /\ phase'[q] = "ended")
        /\ agentOf' = [agentOf EXCEPT ![r] = a]
    BY <1>t, <1>n, Entered
  <2>2. UNCHANGED <<activeAgents, exec, cancelRequested>>
    BY <1>n DEF HostOnly
  <2>3. \A q \in InFlight : agentOf'[q] = agentOf[q] /\ phase'[q] # "none"
    BY <1>t, <2>1 DEF IInv, InFlightExists, InFlight, TypeOK
  <2>4. Books' /\ InFlightExists' /\ OneExecutionPerAgent'
    BY <1>t, <2>2, <2>3, BooksKept
  <2>5. AttemptHasExecutor'
    <3>1. \A q \in Runs : phase'[q] = "active" => phase[q] = "active"
      BY <2>1
    <3> QED BY <1>n, <1>a, <2>2, <3>1 DEF AttemptHasExecutor, Attended
  <2>6. NoStrandedRun'
    BY <1>n DEF NoStrandedRun
  <2> QED BY <1>t, <2>4, <2>5, <2>6 DEF IInv
<1>1. ASSUME NEW a \in Agent, NEW r \in Runs, NEW c \in BOOLEAN, StartRun(a, r, c) PROVE IInv'
  BY <1>1, <1>n DEF StartRun
<1>2. ASSUME NEW a \in Agent, NEW from \in Runs, NEW r \in Runs, Revise(a, from, r) PROVE IInv'
  BY <1>2, <1>n DEF Revise
<1>3. ASSUME NEW r \in Runs, Answer(r) PROVE IInv'
  <2>1. /\ phase[r] = "parked" /\ phase' = [phase EXCEPT ![r] = "ready"]
        /\ UNCHANGED <<agentOf, activeAgents, exec, cancelRequested>>
    BY <1>3 DEF Answer, Resume, HostOnly
  <2>2. \A q \in InFlight : agentOf'[q] = agentOf[q] /\ phase'[q] # "none"
    BY <1>t, <2>1 DEF IInv, InFlightExists, InFlight, TypeOK
  <2>3. Books' /\ InFlightExists' /\ OneExecutionPerAgent'
    BY <1>t, <2>1, <2>2, BooksKept
  <2>4. AttemptHasExecutor'
    <3>1. \A q \in Runs : phase'[q] = "active" => phase[q] = "active"
      BY <1>t, <2>1 DEF TypeOK
    <3> QED BY <1>3, <1>a, <2>1, <3>1 DEF Answer, AttemptHasExecutor, Attended
  <2>5. NoStrandedRun'
    BY <1>3 DEF Answer, NoStrandedRun
  <2> QED BY <1>t, <2>3, <2>4, <2>5 DEF IInv
<1>4. ASSUME NEW r \in Runs, Cancel(r) PROVE IInv'
  <2>1. Calm /\ phase' = phase
    BY <1>4, KeptCalm DEF Cancel, StoreKept, qvars
  <2>2. \A q \in Runs : phase'[q] = "active" => Attended(q)'
    BY <1>4, <1>a, <2>1 DEF Cancel
  <2> QED BY <1>4, <1>t, <2>1, <2>2, CalmStep DEF Cancel
<1>5. ASSUME NEW c \in cancelReads, CancelRun(c) PROVE IInv'
  <2>1. c.run \in Runs
    BY <1>t DEF TypeOK
  <2>2. Calm
    BY <1>5, <1>t, <2>1, FinishCalm, KeptCalm DEF CancelRun
  <2>3. \A q \in Runs : phase'[q] = "active" => Attended(q)'
    BY <1>5, <1>a, <2>2 DEF CancelRun, Calm
  <2> QED BY <1>5, <1>t, <2>2, <2>3, CalmStep DEF CancelRun
<1> QED BY <1>1, <1>2, <1>3, <1>4, <1>5 DEF Host

\* A restart leaves no attempt and no execute(), and the new process pumps.
LEMMA RestartInductive == IInv /\ Restart => IInv'
<1> SUFFICES ASSUME IInv, Restart PROVE IInv'
  OBVIOUS
<1>1. TypeOK /\ TypeOK'
  BY RestartTyped DEF IInv
<1>2. InFlight' = {}
  BY DEF Restart, InFlight
<1>3. Books' /\ InFlightExists' /\ OneExecutionPerAgent'
  BY <1>2 DEF Restart, Books, InFlightExists, OneExecutionPerAgent
<1>4. \A r \in Runs : phase'[r] # "active"
  BY DEF Restart, LoseOwner
<1>5. AttemptHasExecutor' /\ NoStrandedRun'
  BY <1>4 DEF Restart, AttemptHasExecutor, NoStrandedRun
<1> QED BY <1>1, <1>3, <1>5 DEF IInv

\* The invariant holds at the start: nothing is queued and nothing in flight.
LEMMA InitInductive == Init => IInv
<1> SUFFICES ASSUME Init PROVE IInv
  OBVIOUS
<1>1. InFlight = {}
  BY DEF Init, InFlight
<1>2. Books /\ InFlightExists /\ OneExecutionPerAgent
  BY <1>1 DEF Init, Books, InFlightExists, OneExecutionPerAgent
<1>3. AttemptHasExecutor /\ NoStrandedRun
  BY DEF Init, QueueInit, AttemptHasExecutor, NoStrandedRun
<1> QED BY <1>2, <1>3, TypeInit DEF IInv

\* The invariant the theorems below follow from.
THEOREM Inductive == Spec => []IInv
<1>1. IInv /\ [Next]_vars => IInv'
  <2> SUFFICES ASSUME IInv, [Next]_vars PROVE IInv'
    OBVIOUS
  <2>1. CASE UNCHANGED vars
    BY <2>1 DEF vars, qvars, process, IInv, TypeOK, Books, InFlightExists, InFlight,
       OneExecutionPerAgent, AttemptHasExecutor, NoStrandedRun, SlotFree, Candidates
  <2> QED BY <2>1, PumpInductive, ExecuteInductive, HostInductive, RestartInductive DEF Next
<1> QED BY <1>1, InitInductive, PTL DEF Spec

\* No wake-up is ever lost, for any number of Agents and Runs and any limit.
THEOREM NothingStranded == Spec => []NoStrandedRun
BY Inductive, PTL DEF IInv

\* No attempt is left without the execute() that will end it, but one whose
\* cancellation was refused for a revision it did not know.
THEOREM AttemptsHaveExecutors == Spec => []AttemptHasExecutor
BY Inductive, PTL DEF IInv

\* Pump never runs two execute() of one Agent together.
THEOREM OneAtATime == Spec => []OneExecutionPerAgent
BY Inductive, PTL DEF IInv
=============================================================================
