----------------------------- MODULE AgentQueue -----------------------------
(***************************************************************************)
(* What a host may rely on when it starts Runs, without Tool Calls,        *)
(* Interactions, tokens or leases: every Agent is a first-in-first-out     *)
(* server with one attempt at a time.  A Run that waits for an answer is   *)
(* parked: either it keeps the server (held, still "active" here) or it    *)
(* gives it up (suspended) and queues again when it is answered.  Losing   *)
(* the owner process ends what is active, everywhere, and nothing else.    *)
(***************************************************************************)
EXTENDS Naturals

CONSTANTS Agent, MaxRuns

VARIABLES
  epoch,    \* owners so far
  phase,    \* phase of every Run, in creation order
  agentOf,  \* the Agent of every Run that was created
  control   \* is it a Control Run

qvars == <<epoch, phase, agentOf, control>>

Runs == 1..MaxRuns
Phase == {"none", "ready", "active", "parked", "ended"}

QueueInit ==
  /\ epoch = 0
  /\ phase = [r \in Runs |-> "none"]
  /\ agentOf \in [Runs -> Agent]
  /\ control = [r \in Runs |-> FALSE]

Peers(r) == {q \in Runs \ {r} : phase[q] # "none" /\ agentOf[q] = agentOf[r]}

\* The owner changes, or seals the Store before it leaves.
LoseOwner ==
  /\ epoch' \in {epoch, epoch + 1}
  /\ phase' = [r \in Runs |-> IF phase[r] = "active" THEN "ended" ELSE phase[r]]
  /\ UNCHANGED <<agentOf, control>>

\* Run r joins the queue of Agent a.  Its predecessors may be given up with it:
\* those of the Agent from some point on, when a Message of theirs is revised.
Enter(r, a, from) ==
  /\ phase[r] = "none"
  /\ \A q \in Runs : q < r => phase[q] # "none"
  /\ phase' = [q \in Runs |->
       IF q = r THEN "ready"
       ELSE IF phase[q] # "none" /\ agentOf[q] = a /\ q >= from THEN "ended"
       ELSE phase[q]]
  /\ agentOf' = [agentOf EXCEPT ![r] = a]
  /\ \E c \in BOOLEAN : control' = [control EXCEPT ![r] = c]
  /\ UNCHANGED epoch

\* One attempt per Agent, in order unless r is a Control Run.
MayStart(r) ==
  /\ phase[r] = "ready"
  /\ \A q \in Peers(r) :
       /\ phase[q] # "active"
       /\ q < r /\ ~control[r] => phase[q] = "ended"

Start(r) ==
  /\ MayStart(r)
  /\ phase' = [phase EXCEPT ![r] = "active"]
  /\ UNCHANGED <<epoch, agentOf, control>>

Park(r) ==
  /\ phase[r] = "active"
  /\ phase' = [phase EXCEPT ![r] = "parked"]
  /\ UNCHANGED <<epoch, agentOf, control>>

Resume(r) ==
  /\ phase[r] = "parked"
  /\ phase' = [phase EXCEPT ![r] = "ready"]
  /\ UNCHANGED <<epoch, agentOf, control>>

Finish(r) ==
  /\ phase[r] \in {"ready", "active", "parked"}
  /\ phase' = [phase EXCEPT ![r] = "ended"]
  /\ UNCHANGED <<epoch, agentOf, control>>

QueueNext ==
  \/ LoseOwner
  \/ \E r \in Runs, a \in Agent, from \in 0..MaxRuns + 1 : Enter(r, a, from)
  \/ \E r \in Runs : Start(r) \/ Park(r) \/ Resume(r) \/ Finish(r)

QueueSpec == QueueInit /\ [][QueueNext]_qvars
=============================================================================
