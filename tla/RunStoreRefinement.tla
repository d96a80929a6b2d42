------------------------- MODULE RunStoreRefinement -------------------------
(***************************************************************************)
(* RunStore implements AgentQueue, for every value of the constants: under *)
(* the mapping Queue of RunStore, in which an attempt, held or running, is *)
(* what occupies the Agent, every operation of the Store is a step of the  *)
(* queue or changes nothing in it.  The scheduler is modelled over the     *)
(* queue, so what is proved of it is about this Store.                     *)
(***************************************************************************)
EXTENDS RunStoreProofs

QPhase == [r \in RunId |-> QueuePhase(runs[r])]
QAgent == [r \in RunId |-> runs[r].agentId]
QControl == [r \in RunId |-> runs[r].control]

\* The phase of a Run by its state, when it has an attempt or not.
LEMMA PhaseOf ==
  ASSUME NEW run \in Run
  PROVE  /\ run.execution # NoExecution => QueuePhase(run) = "active"
         /\ run.execution = NoExecution =>
              /\ run.state = "absent" => QueuePhase(run) = "none"
              /\ run.state = "queued" => QueuePhase(run) = "ready"
              /\ run.state \in Live => QueuePhase(run) = "parked"
              /\ run.state \in Terminal => QueuePhase(run) = "ended"
<1>1. CASE run.execution # NoExecution
  BY <1>1 DEF QueuePhase
<1>2. CASE run.execution = NoExecution
  <2>1. CASE run.state = "absent"
    BY <1>2, <2>1 DEF QueuePhase, Live, Terminal
  <2>2. CASE run.state = "queued"
    BY <1>2, <2>2 DEF QueuePhase, Live, Terminal
  <2>3. CASE run.state \in Live
    BY <1>2, <2>3 DEF QueuePhase, Live, Terminal
  <2>4. CASE run.state \in Terminal
    BY <1>2, <2>4 DEF QueuePhase, Live, Terminal
  <2> QED BY <1>2, <2>1, <2>2, <2>3, <2>4 DEF Run, RunState, Live, Terminal
<1> QED BY <1>1, <1>2

\* What the mapping says of a Run of a reachable Store.
LEMMA PhaseNow ==
  ASSUME IInv, NEW r \in RunId
  PROVE  /\ QueuePhase(runs[r]) \in {"none", "ready", "active", "parked", "ended"}
         /\ QueuePhase(runs[r]) = "active" <=> HasExecution(r)
         /\ QueuePhase(runs[r]) = "none" <=> ~Exists(r)
         /\ QueuePhase(runs[r]) = "ended" <=> runs[r].state \in Terminal
         /\ QueuePhase(runs[r]) = "ready" <=> runs[r].state = "queued"
<1>1. runs[r] \in Run /\ runs[r].state \in RunState \cup {"absent"}
  BY DEF IInv, TypeOK, Run
<1>2. RunShape(r)
  BY DEF IInv
<1> QED BY <1>1, <1>2, PhaseOf DEF RunShape, HasExecution, Exists, RunState, Live, Terminal

\* A step that replaces one Run changes one phase.
LEMMA OneRunPhase ==
  ASSUME TypeOK, NEW r \in RunId, NEW run, runs' = [runs EXCEPT ![r] = run]
  PROVE  /\ QPhase' = [QPhase EXCEPT ![r] = QueuePhase(runs'[r])]
         /\ QAgent' = [QAgent EXCEPT ![r] = runs'[r].agentId]
         /\ QControl' = [QControl EXCEPT ![r] = runs'[r].control]
<1>1. \A q \in RunId : q # r => runs'[q] = runs[q]
  BY DEF TypeOK
<1>2. QPhase' = [QPhase EXCEPT ![r] = QueuePhase(runs'[r])]
  <2>1. QPhase' = [q \in RunId |-> QueuePhase(runs'[q])]
    BY DEF QPhase
  <2>2. \A q \in RunId : QueuePhase(runs'[q]) =
          IF q = r THEN QueuePhase(runs'[r]) ELSE QueuePhase(runs[q])
    BY <1>1
  <2> DEFINE now == QueuePhase(runs'[r])
  <2>3. QPhase' = [q \in RunId |-> IF q = r THEN now ELSE QueuePhase(runs[q])]
    BY <2>1, <2>2
  <2> HIDE DEF now
  <2>4. QPhase' = [QPhase EXCEPT ![r] = now]
    BY <2>3 DEF QPhase
  <2> QED BY <2>4 DEF now
<1>3. QAgent' = [QAgent EXCEPT ![r] = runs'[r].agentId]
  <2>1. \A q \in RunId : runs'[q].agentId = IF q = r THEN runs'[r].agentId ELSE runs[q].agentId
    BY <1>1
  <2> QED BY <2>1 DEF QAgent
<1>4. QControl' = [QControl EXCEPT ![r] = runs'[r].control]
  <2>1. \A q \in RunId : runs'[q].control = IF q = r THEN runs'[r].control ELSE runs[q].control
    BY <1>1
  <2> QED BY <2>1 DEF QControl
<1> QED BY <1>2, <1>3, <1>4

\* The step of an operation on Run r.
OneRunChanged(r) == /\ ownerEpoch' = ownerEpoch
                    /\ \E run : runs' = [runs EXCEPT ![r] = run]

\* Every quiet operation on one Run is a step of its queue, or none.
LEMMA OneRunQueued ==
  ASSUME IInv, TypeOK', NEW r \in RunId, OneRunChanged(r), QuietStep
  PROVE  [Queue!QueueNext]_(Queue!qvars)
<1>0. TypeOK /\ runs[r] \in Run /\ runs'[r] \in Run
  BY DEF IInv, TypeOK
<1>q. ownerEpoch' = ownerEpoch /\ RunStep(r)
  BY DEF OneRunChanged, QuietStep
<1>1. /\ QPhase' = [QPhase EXCEPT ![r] = QueuePhase(runs'[r])]
      /\ QAgent' = [QAgent EXCEPT ![r] = runs'[r].agentId]
      /\ QControl' = [QControl EXCEPT ![r] = runs'[r].control]
  BY <1>0, OneRunPhase DEF OneRunChanged
<1>2. ASSUME Kept(r) PROVE QAgent' = QAgent /\ QControl' = QControl
  BY <1>1, <1>2 DEF Kept, QAgent, QControl
<1>3. ASSUME Kept(r), QueuePhase(runs'[r]) = QueuePhase(runs[r]) PROVE UNCHANGED Queue!qvars
  <2>1. QPhase' = QPhase
    BY <1>1, <1>3 DEF QPhase
  <2> QED BY <1>q, <1>2, <1>3, <2>1 DEF Queue!qvars, QPhase, QAgent, QControl
<1>4. CASE runs'[r] = runs[r]
  BY <1>3, <1>4 DEF Kept, HasExecution
<1>5. CASE AppendedRun(r)
  <2>1. /\ QueuePhase(runs[r]) = "none" /\ QueuePhase(runs'[r]) = "ready"
        /\ \A q \in RunId : q < r => QueuePhase(runs[q]) # "none"
    BY <1>0, <1>5, PhaseOf, PhaseNow DEF AppendedRun, IsNext
  <2>2. runs'[r].agentId \in Agent /\ runs'[r].control \in BOOLEAN
    BY DEF TypeOK, Run
  <2>3. \A q \in RunId : ~(q >= MaxRuns + 1)
    BY BoundsAssumption DEF RunId
  <2>4. QPhase' = [q \in RunId |->
          IF q = r THEN "ready"
          ELSE IF QPhase[q] # "none" /\ QAgent[q] = runs'[r].agentId /\ q >= MaxRuns + 1 THEN "ended"
          ELSE QPhase[q]]
    BY <1>1, <2>1, <2>3 DEF QPhase
  <2>5. Queue!Enter(r, runs'[r].agentId, MaxRuns + 1)
    BY <1>q, <1>1, <2>1, <2>2, <2>4 DEF Queue!Enter, Queue!Runs, RunId, QPhase, QAgent, QControl
  <2>6. MaxRuns + 1 \in 0..MaxRuns + 1 /\ r \in Queue!Runs
    BY BoundsAssumption DEF Queue!Runs, RunId
  <2> QED BY <2>2, <2>5, <2>6 DEF Queue!QueueNext
<1>6. CASE EndedRun(r)
  <2>1. QueuePhase(runs'[r]) = "ended" /\ Kept(r) /\ QueuePhase(runs[r]) # "none"
    BY <1>0, <1>6, PhaseOf, PhaseNow DEF EndedRun
  <2>2. CASE QueuePhase(runs[r]) = "ended"
    BY <1>3, <2>1, <2>2
  <2>3. CASE QueuePhase(runs[r]) # "ended"
    <3>1. QueuePhase(runs[r]) \in {"ready", "active", "parked"}
      BY <2>1, <2>3, PhaseNow
    <3>2. Queue!Finish(r)
      BY <1>q, <1>1, <1>2, <2>1, <3>1 DEF Queue!Finish, QPhase, QAgent, QControl
    <3> QED BY <3>2 DEF Queue!QueueNext, Queue!Runs, RunId
  <2> QED BY <2>2, <2>3
<1>7. CASE SuspendedRun(r)
  <2>1. QueuePhase(runs[r]) = "active" /\ QueuePhase(runs'[r]) = "parked" /\ Kept(r)
    BY <1>0, <1>7, PhaseOf DEF SuspendedRun, HasExecution, Live
  <2>2. Queue!Park(r)
    BY <1>q, <1>1, <1>2, <2>1 DEF Queue!Park, QPhase, QAgent, QControl
  <2> QED BY <2>2 DEF Queue!QueueNext, Queue!Runs, RunId
<1>8. CASE HeldRun(r)
  <2>1. QueuePhase(runs'[r]) = QueuePhase(runs[r]) /\ Kept(r)
    BY <1>0, <1>8, PhaseOf DEF HeldRun, HasExecution
  <2> QED BY <1>3, <2>1
<1>9. CASE RepliedRun(r)
  <2>1. Kept(r) /\ runs[r].state = "input_required" /\ (HasExecution(r)' <=> HasExecution(r))
    BY <1>9 DEF RepliedRun, HasExecution
  <2>2. CASE HasExecution(r) \/ runs'[r].state = "input_required"
    <3>1. QueuePhase(runs'[r]) = QueuePhase(runs[r])
      BY <1>0, <1>9, <2>1, <2>2, PhaseOf DEF RepliedRun, HasExecution, Live
    <3> QED BY <1>3, <2>1, <3>1
  <2>3. CASE ~HasExecution(r) /\ runs'[r].state # "input_required"
    <3>1. QueuePhase(runs[r]) = "parked" /\ QueuePhase(runs'[r]) = "ready"
      BY <1>0, <1>9, <2>1, <2>3, PhaseOf DEF RepliedRun, Answered, HasExecution, Live
    <3>2. Queue!Resume(r)
      BY <1>q, <1>1, <1>2, <2>1, <3>1 DEF Queue!Resume, QPhase, QAgent, QControl
    <3> QED BY <3>2 DEF Queue!QueueNext, Queue!Runs, RunId
  <2> QED BY <2>2, <2>3
<1> QED BY <1>q, <1>4, <1>5, <1>6, <1>7, <1>8, <1>9 DEF RunStep

\* Losing the owner ends what is active, and nothing else.
LEMMA InterruptQueued ==
  ASSUME IInv, NEW e \in Nat, InterruptOwner(e)
  PROVE  /\ QAgent' = QAgent /\ QControl' = QControl
         /\ e < ownerEpoch => QPhase' = QPhase
         /\ e = ownerEpoch =>
              QPhase' = [r \in RunId |-> IF QPhase[r] = "active" THEN "ended" ELSE QPhase[r]]
<1>0. runs \in [RunId -> Run] /\ ownerEpoch \in Nat
  BY DEF IInv, TypeOK
<1>1. ASSUME NEW r \in RunId, r \notin LostRuns(e) PROVE runs'[r] = runs[r]
  BY <1>1 DEF InterruptOwner
<1>2. ASSUME NEW r \in RunId, r \in LostRuns(e)
      PROVE  /\ runs'[r].agentId = runs[r].agentId
             /\ runs'[r].control = runs[r].control
             /\ runs'[r].state = "failed" /\ runs'[r].execution = NoExecution
             /\ HasExecution(r)
  <2>1. runs[r] \in Run /\ HasExecution(r)
    BY <1>0, <1>2 DEF LostRuns
  <2> DEFINE effects == InFlight(AttemptTools(r))
             code == IF effects # {} THEN "tool_indeterminate" ELSE "runtime_interrupted"
  <2>2. runs'[r] = [runs[r] EXCEPT !.state = "failed", !.execution = NoExecution,
           !.openInteractions = {}, !.failure = code, !.indeterminate = effects]
    BY <1>2 DEF InterruptOwner
  <2> HIDE DEF effects, code
  <2> QED BY <2>1, <2>2 DEF Run
<1>3. ASSUME NEW r \in RunId, HasExecution(r) PROVE runs[r].execution.ownerEpoch = ownerEpoch
  <2>1. runs[r].execution = [ownerEpoch |-> ownerEpoch, executionId |-> runs[r].attempts]
    BY <1>3 DEF IInv, FenceNamesNewestAttempt
  <2> QED BY <2>1
<1>4. \A r \in RunId : runs'[r].agentId = runs[r].agentId /\ runs'[r].control = runs[r].control
  BY <1>1, <1>2
<1>5. QAgent' = QAgent /\ QControl' = QControl
  BY <1>4 DEF QAgent, QControl
<1>6. ASSUME e < ownerEpoch PROVE QPhase' = QPhase
  <2>1. \A r \in RunId : r \notin LostRuns(e)
    BY <1>0, <1>3, <1>6 DEF LostRuns
  <2> QED BY <1>1, <2>1 DEF QPhase
<1>7. ASSUME e = ownerEpoch
      PROVE  QPhase' = [r \in RunId |-> IF QPhase[r] = "active" THEN "ended" ELSE QPhase[r]]
  <2>1. \A r \in RunId : HasExecution(r) <=> r \in LostRuns(e)
    BY <1>0, <1>3, <1>7 DEF LostRuns, IInv, RunShape
  <2>2. ASSUME NEW r \in RunId
        PROVE  QueuePhase(runs'[r]) =
                 IF QueuePhase(runs[r]) = "active" THEN "ended" ELSE QueuePhase(runs[r])
    <3>1. CASE HasExecution(r)
      <4>1. QueuePhase(runs'[r]) = "ended"
        BY <1>2, <2>1, <3>1 DEF QueuePhase, Live, Terminal
      <4> QED BY <3>1, <4>1, PhaseNow
    <3>2. CASE ~HasExecution(r)
      BY <1>1, <2>1, <3>2, PhaseNow
    <3> QED BY <3>1, <3>2
  <2>3. QPhase' = [r \in RunId |-> QueuePhase(runs'[r])]
    BY DEF QPhase
  <2>4. \A r \in RunId : QPhase[r] = QueuePhase(runs[r])
    BY DEF QPhase
  <2> QED BY <2>2, <2>3, <2>4
<1> QED BY <1>5, <1>6, <1>7

\* The operations of owners are LoseOwner or nothing.
LEMMA OwnerStepQueued ==
  ASSUME IInv, OwnerStep
  PROVE  [Queue!QueueNext]_(Queue!qvars)
<1>0. ownerEpoch \in Nat
  BY DEF IInv, TypeOK
<1>1. CASE OpenOwner
  <2>1. /\ QAgent' = QAgent /\ QControl' = QControl
        /\ QPhase' = [r \in RunId |-> IF QPhase[r] = "active" THEN "ended" ELSE QPhase[r]]
    <3>1. CASE lease = "expired"
      BY <1>0, <1>1, <3>1, InterruptQueued DEF OpenOwner
    <3>2. CASE lease # "expired"
      <4>1. lease = "none" /\ runs' = runs
        BY <1>1, <3>2 DEF OpenOwner, IInv, TypeOK
      <4>2. \A r \in RunId : QPhase[r] # "active"
        BY <4>1, PhaseNow DEF QPhase, IInv, FenceNamesNewestAttempt
      <4> QED BY <4>1, <4>2 DEF QPhase, QAgent, QControl
    <3> QED BY <3>1, <3>2
  <2>2. ownerEpoch' = ownerEpoch + 1
    BY <1>1 DEF OpenOwner
  <2>3. Queue!LoseOwner
    BY <2>1, <2>2 DEF Queue!LoseOwner, Queue!Runs, RunId, QPhase, QAgent, QControl
  <2> QED BY <2>3 DEF Queue!QueueNext
<1>2. CASE ExpireOwner \/ RenewOwner
  BY <1>2 DEF ExpireOwner, RenewOwner, Queue!qvars
<1>3. ASSUME NEW e \in 1..ownerEpoch, SealAndReleaseOwner(e)
      PROVE  [Queue!QueueNext]_(Queue!qvars)
  <2>0. e \in Nat /\ InterruptOwner(e) /\ ownerEpoch' = ownerEpoch
    BY <1>0, <1>3 DEF SealAndReleaseOwner
  <2>1. CASE e = ownerEpoch
    <3>1. Queue!LoseOwner
      BY <2>0, <2>1, InterruptQueued
         DEF Queue!LoseOwner, Queue!Runs, RunId, QPhase, QAgent, QControl
    <3> QED BY <3>1 DEF Queue!QueueNext
  <2>2. CASE e < ownerEpoch
    BY <2>0, <2>2, InterruptQueued DEF Queue!qvars, QPhase, QAgent, QControl
  <2> QED BY <1>0, <1>3, <2>1, <2>2
<1> QED BY <1>1, <1>2, <1>3 DEF OwnerStep

\* A revision is Enter: the replacement joins the queue and those from the
\* revised Run on leave it.
LEMMA ReviseQueued ==
  ASSUME IInv, TypeOK', NEW a \in Agent, NEW from \in 0..MaxRuns, NEW r \in RunId,
         ReviseMessage(a, from, r)
  PROVE  Queue!QueueNext
<1> DEFINE affected == {q \in RunsOf(a) : q >= from}
<1>0. runs \in [RunId -> Run]
  BY DEF IInv, TypeOK
<1>1. /\ IsNext(r) /\ ownerEpoch' = ownerEpoch
      /\ runs' = [q \in RunId |->
            IF q \in affected THEN Superseded(q)
            ELSE IF q = r
            THEN [Absent(a) EXCEPT !.state = "queued", !.replacement = TRUE]
            ELSE runs[q]]
  BY DEF ReviseMessage
<1>2. r \notin affected /\ QueuePhase(runs[r]) = "none"
      /\ \A q \in RunId : q < r => QueuePhase(runs[q]) # "none"
  BY <1>1, PhaseNow DEF IsNext, RunsOf
<1>3. /\ runs'[r].state = "queued" /\ runs'[r].execution = NoExecution
      /\ runs'[r].agentId = a /\ runs'[r].control = FALSE
  BY <1>1, <1>2 DEF Absent
<1>4. ASSUME NEW q \in affected
      PROVE  /\ runs'[q].state \in Terminal /\ runs'[q].execution = NoExecution
             /\ runs'[q].agentId = runs[q].agentId /\ runs'[q].control = runs[q].control
  <2>1. q \in RunId /\ runs[q] \in Run /\ RunShape(q) /\ runs'[q] = Superseded(q)
    BY <1>0, <1>1 DEF RunsOf, IInv
  <2> QED BY <2>1 DEF Superseded, Run, RunShape, HasExecution, Terminal, Live
<1>5. ASSUME NEW q \in RunId, q # r, q \notin affected PROVE runs'[q] = runs[q]
  BY <1>1, <1>5
<1>6. \A q \in RunId : q \in affected <=>
        QPhase[q] # "none" /\ QAgent[q] = a /\ q >= from
  BY PhaseNow DEF RunsOf, QPhase, QAgent
<1> HIDE DEF affected
<1>7. QPhase' = [q \in RunId |->
        IF q = r THEN "ready"
        ELSE IF QPhase[q] # "none" /\ QAgent[q] = a /\ q >= from THEN "ended"
        ELSE QPhase[q]]
  <2>1. QPhase' = [q \in RunId |-> QueuePhase(runs'[q])]
    BY DEF QPhase
  <2>2. QueuePhase(runs'[r]) = "ready"
    BY <1>3 DEF QueuePhase, Live, Terminal
  <2>3. \A q \in affected : QueuePhase(runs'[q]) = "ended"
    BY <1>4 DEF QueuePhase, Live, Terminal
  <2>4. \A q \in RunId : q # r /\ q \notin affected => QueuePhase(runs'[q]) = QPhase[q]
    BY <1>5 DEF QPhase
  <2> QED BY <1>2, <1>6, <2>1, <2>2, <2>3, <2>4
<1>8. QAgent' = [QAgent EXCEPT ![r] = a]
  <2>1. \A q \in RunId : runs'[q].agentId = IF q = r THEN a ELSE runs[q].agentId
    BY <1>3, <1>4, <1>5
  <2> QED BY <2>1 DEF QAgent
<1>9. QControl' = [QControl EXCEPT ![r] = FALSE]
  <2>1. \A q \in RunId : runs'[q].control = IF q = r THEN FALSE ELSE runs[q].control
    BY <1>3, <1>4, <1>5
  <2> QED BY <2>1 DEF QControl
<1>10. Queue!Enter(r, a, from)
  BY <1>1, <1>2, <1>7, <1>8, <1>9 DEF Queue!Enter, Queue!Runs, RunId, QPhase, QAgent, QControl
<1>11. from \in 0..MaxRuns + 1 /\ r \in Queue!Runs
  BY BoundsAssumption DEF Queue!Runs, RunId
<1> QED BY <1>10, <1>11 DEF Queue!QueueNext

\* A claim is Start: its two scans are the guard of Start.
LEMMA ClaimQueued ==
  ASSUME IInv, TypeOK', NEW r \in RunId, ClaimRun(r)
  PROVE  Queue!QueueNext
<1>0. runs \in [RunId -> Run] /\ runs[r] \in Run /\ TypeOK /\ ownerEpoch \in Nat
  BY DEF IInv, TypeOK
<1> DEFINE token == [ownerEpoch |-> ownerEpoch, executionId |-> runs[r].attempts + 1]
           claimed == [runs[r] EXCEPT !.state = "running", !.attempts = runs[r].attempts + 1,
                                      !.execution = token]
<1>1. runs' = [runs EXCEPT ![r] = claimed] /\ ownerEpoch' = ownerEpoch
  BY DEF ClaimRun
<1>2. token # NoExecution
  <2>1. runs[r].attempts \in Nat
    BY <1>0 DEF Run
  <2> QED BY <2>1 DEF NoExecution
<1>3. /\ runs'[r].agentId = runs[r].agentId /\ runs'[r].control = runs[r].control
      /\ runs'[r].execution # NoExecution
  BY <1>0, <1>1, <1>2 DEF Run
<1> HIDE DEF claimed
<1>4. /\ QPhase' = [QPhase EXCEPT ![r] = QueuePhase(runs'[r])]
      /\ QAgent' = [QAgent EXCEPT ![r] = runs'[r].agentId]
      /\ QControl' = [QControl EXCEPT ![r] = runs'[r].control]
  BY <1>0, <1>1, OneRunPhase
<1>5. QPhase' = [QPhase EXCEPT ![r] = "active"] /\ QAgent' = QAgent /\ QControl' = QControl
  <2>1. QueuePhase(runs'[r]) = "active"
    BY <1>3 DEF QueuePhase
  <2> QED BY <1>3, <1>4, <2>1 DEF QAgent, QControl
<1>6. QPhase[r] = "ready"
  BY PhaseNow DEF ClaimRun, QPhase
<1>7. ASSUME NEW q \in RunId \ {r}, QPhase[q] # "none", QAgent[q] = QAgent[r]
      PROVE  /\ QPhase[q] # "active"
             /\ q < r /\ ~QControl[r] => QPhase[q] = "ended"
  <2>1. q \in Others(r)
    BY <1>7, PhaseNow DEF QPhase, QAgent, Others, RunsOf
  <2>2. ~HasExecution(q)
    BY <2>1 DEF ClaimRun, NoOtherAttempt, IInv, RunShape, Live
  <2>3. q < r /\ ~runs[r].control => runs[q].state \in Terminal
    BY <2>1 DEF ClaimRun, NothingUnfinishedBefore
  <2> QED BY <2>2, <2>3, PhaseNow DEF QPhase, QControl
<1>8. Queue!Start(r)
  BY <1>1, <1>5, <1>6, <1>7
     DEF Queue!Start, Queue!MayStart, Queue!Peers, Queue!Runs, RunId, QPhase, QAgent, QControl
<1> QED BY <1>8 DEF Queue!QueueNext, Queue!Runs, RunId

-----------------------------------------------------------------------------
(* The refinement *)

\* Host operations are steps of the queue.
LEMMA HostStepQueued ==
  ASSUME IInv, TypeOK', HostStep
  PROVE  [Queue!QueueNext]_(Queue!qvars)
<1>0. QuietStep
  BY HostStepQuiet
<1>1. ASSUME NEW a \in Agent, NEW r \in RunId, ReplyToRun(a, r) PROVE OneRunChanged(r)
  BY <1>1 DEF ReplyToRun, OneRunChanged
<1>2. ASSUME NEW a \in Agent, NEW r \in RunId, NEW c \in BOOLEAN, CreateRun(a, r, c)
      PROVE  OneRunChanged(r)
  BY <1>2 DEF CreateRun, OneRunChanged
<1>3. ASSUME NEW r \in RunId, CancelRun(r) PROVE OneRunChanged(r)
  BY <1>3 DEF CancelRun, OneRunChanged
<1>4. ASSUME NEW r \in RunId, NEW i \in InteractionId, AnswerInteraction(r, i)
      PROVE  OneRunChanged(r)
  BY <1>4 DEF AnswerInteraction, OneRunChanged
<1>5. ASSUME NEW a \in Agent, NEW from \in 0..MaxRuns, NEW r \in RunId, ReviseMessage(a, from, r)
      PROVE  [Queue!QueueNext]_(Queue!qvars)
  BY <1>5, ReviseQueued
<1> QED BY <1>0, <1>1, <1>2, <1>3, <1>4, <1>5, OneRunQueued DEF HostStep

\* The operations of an executor are steps of the queue, or none.
LEMMA ExecutorStepQueued ==
  ASSUME IInv, TypeOK', NEW r \in RunId, NEW e \in Tokens(r), ExecutorStep(r, e)
  PROVE  [Queue!QueueNext]_(Queue!qvars)
<1>0. QuietStep
  BY ExecutorStepQuiet
<1>1. ASSUME NEW is, NEW allowed, CommitInputRequired(r, e, is, allowed)
      PROVE  OneRunChanged(r)
  BY <1>1 DEF CommitInputRequired, OneRunChanged
<1>2. ASSUME NEW i, RaiseInteraction(r, e, i) PROVE OneRunChanged(r)
  BY <1>2 DEF RaiseInteraction, OneRunChanged
<1>3. ASSUME UNCHANGED <<ownerEpoch, runs>> PROVE UNCHANGED Queue!qvars
  BY <1>3 DEF Queue!qvars
<1>4. ASSUME NEW t, CommitIndeterminate(r, e, t) PROVE OneRunChanged(r)
  BY <1>4 DEF CommitIndeterminate, OneRunChanged
<1>5. ASSUME NEW outcome, CommitOutcome(r, e, outcome) PROVE OneRunChanged(r)
  BY <1>5 DEF CommitOutcome, OneRunChanged
<1>6. OneRunChanged(r) \/ UNCHANGED Queue!qvars
  BY <1>1, <1>2, <1>3, <1>4, <1>5 DEF ExecutorStep, ReserveToolCalls, StartToolCall,
     SuspendToolCall, CommitToolResult, RecordToolCall
<1> QED BY <1>0, <1>6, OneRunQueued

\* Every step of the Store is a step of the queue, or none.
LEMMA StepQueued ==
  ASSUME IInv, TypeOK', [Next]_vars
  PROVE  [Queue!QueueNext]_(Queue!qvars)
<1>1. CASE OwnerStep
  BY <1>1, OwnerStepQueued
<1>2. CASE HostStep
  BY <1>2, HostStepQueued
<1>3. ASSUME NEW r \in RunId, ClaimRun(r) PROVE [Queue!QueueNext]_(Queue!qvars)
  BY <1>3, ClaimQueued
<1>4. ASSUME NEW r \in RunId, FailQueuedRun(r) PROVE [Queue!QueueNext]_(Queue!qvars)
  <2>1. OneRunChanged(r)
    BY <1>4 DEF FailQueuedRun, OneRunChanged
  <2> QED BY <1>4, <2>1, FailQueuedRunQuiet, OneRunQueued
<1>5. ASSUME NEW r \in RunId, NEW e \in Tokens(r), ExecutorStep(r, e)
      PROVE  [Queue!QueueNext]_(Queue!qvars)
  BY <1>5, ExecutorStepQueued
<1>6. CASE UNCHANGED vars
  BY <1>6 DEF vars, Queue!qvars
<1> QED BY <1>1, <1>2, <1>3, <1>4, <1>5, <1>6 DEF Next, SchedulerStep

\* The empty Store is the empty queue.
LEMMA InitQueued == Init => Queue!QueueInit
<1> SUFFICES ASSUME Init PROVE Queue!QueueInit
  OBVIOUS
<1>1. PICK a \in Agent : runs = [r \in RunId |-> Absent(a)]
  BY DEF Init
<1>2. \A r \in RunId : /\ QueuePhase(runs[r]) = "none"
                       /\ runs[r].agentId = a /\ runs[r].control = FALSE
  BY <1>1 DEF Absent, QueuePhase, Live, Terminal
<1> QED BY <1>2 DEF Init, Queue!QueueInit, Queue!Runs, RunId

\* The Store is a first-in-first-out server with one attempt per Agent,
\* whatever its hosts, executors and owners do in whatever order.
THEOREM Refines == Spec => ImplementsAgentQueue
<1>1. IInv /\ TypeOK' /\ [Next]_vars => [Queue!QueueNext]_(Queue!qvars)
  BY StepQueued
<1>2. Spec => Queue!QueueInit
  BY InitQueued DEF Spec
<1> QED BY <1>1, <1>2, Inductive, TypeCorrect, PTL DEF Spec, ImplementsAgentQueue, Queue!QueueSpec
=============================================================================
