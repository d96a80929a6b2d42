------------------------------ MODULE Observer ------------------------------
(***************************************************************************)
(* One call of AgentRuntime.observe (durable-runtime.ts) on one Run, and   *)
(* its TransientRunEventSubscription (transient-run-events.ts): a          *)
(* generator that merges the live, bounded, in-memory queue of transient   *)
(* events with the durable log.                                            *)
(*                                                                         *)
(* The generator gives up control at every await and at every yield, where *)
(* it waits for its reader; what it does in between is one step.           *)
(***************************************************************************)
EXTENDS EventLog

CONSTANTS
  Observed,     \* the Run
  MaxBuffered   \* MAX_BUFFERED_EVENTS

ASSUME ObserverAssumption == Observed \in Runs /\ MaxBuffered \in Nat \ {0}

VARIABLES
  obs,     \* the generator: where it is, its cursor, and the rest of the batch it read
  buffer,  \* the queue of its subscription
  cleared, \* the executor of the Run has returned and publishes no more
  shown    \* history: the durable events it has yielded

observerVars == <<obs, buffer, cleared, shown>>

Transient == {"delta", "status"}  \* message_delta of the Run's Message, phase_status

ObserverTypeOK ==
  /\ obs \in [at: {"off", "top", "listed", "batch", "done", "refused"},
              cursor: 0 .. MaxEvents, batch: Seq(1 .. MaxEvents)]
  /\ buffer \in Seq(Transient)
  /\ Len(buffer) <= MaxBuffered
  /\ cleared \in BOOLEAN
  /\ shown \in Seq(1 .. MaxEvents)

ObserverInit ==
  /\ obs = [at |-> "off", cursor |-> NoCursor, batch |-> <<>>]
  /\ buffer = <<>>
  /\ cleared = FALSE
  /\ shown = <<>>

Ended == {"off", "done", "refused"}
Subscribed == obs.at \notin Ended

Observe(after) ==
  /\ obs.at = "off"
  /\ runs[Observed].state # "none"
  /\ obs' = [obs EXCEPT !.at = "top", !.cursor = after]
  /\ UNCHANGED <<logVars, buffer, cleared, shown>>

(* Consecutive deltas of one Message merge; a full queue loses its oldest. *)
Pushed(queue, t) ==
  CASE t = "delta" /\ queue # <<>> /\ Last(queue) = "delta" -> queue
    [] Len(queue) >= MaxBuffered -> Append(Tail(queue), t)
    [] OTHER -> Append(queue, t)

(* The Run's executor may return after another call has ended the Run.     *)
Executing == ~cleared /\ runs[Observed].state # "none"

(* The text of a Message is streamed before the Message is committed.      *)
PublishableLate(t) == TRUE  \* mutant: its last deltas may come after the commit
Publishable(t) == t = "delta" => ~runs[Observed].streamed

Publish(t) ==
  /\ Executing
  /\ Publishable(t)
  /\ Subscribed
  /\ buffer' = Pushed(buffer, t)
  /\ UNCHANGED <<logVars, obs, cleared, shown>>

Statuses == [i \in 1 .. Cardinality({j \in DOMAIN buffer : buffer[j] = "status"}) |-> "status"]

(* execute, pump or revise clears what is left of an ended Run, sparing a  *)
(* completed status when the Run completed.                                *)
ClearTransients ==
  /\ Executing
  /\ runs[Observed].state \in {"ended", "deleted"}
  /\ cleared' = TRUE
  /\ buffer' \in {<<>>, Statuses}
  /\ UNCHANGED <<logVars, obs, shown>>

(* A yield of the oldest transient event, from wherever the generator is.  *)
YieldTransient(at, batch) ==
  /\ buffer # <<>>
  /\ buffer' = Tail(buffer)
  /\ obs' = [obs EXCEPT !.at = at, !.batch = batch]
  /\ UNCHANGED <<logVars, cleared, shown>>

Go(at) ==
  /\ obs' = [obs EXCEPT !.at = at, !.batch = <<>>]
  /\ UNCHANGED <<logVars, buffer, cleared, shown>>

TopTransient == obs.at = "top" /\ YieldTransient("top", <<>>)

Pending == \E i \in DOMAIN ListEvents(obs.cursor) : events[ListEvents(obs.cursor)[i]].run = Observed

(* The snapshot taken once per RUN_STATE_CHECK_INTERVAL_MS: a Run that is  *)
(* terminal and has no event left to show ends the observation.            *)
CheckRunOmitted == FALSE  \* mutant: the terminal event alone ends the observation
CheckRun ==
  /\ obs.at = "top"
  /\ buffer = <<>>
  /\ \/ runs[Observed].state = "deleted" /\ Go("refused")
     \/ /\ runs[Observed].state = "ended"
        /\ IF Expired(obs.cursor) THEN Go("refused") ELSE ~Pending /\ Go("done")

(* The reader's signal ends the observation of a Run that goes on.         *)
Abort ==
  /\ obs.at = "top"
  /\ buffer = <<>>
  /\ runs[Observed].state = "active"
  /\ Go("refused")

List ==
  /\ obs.at = "top"
  /\ buffer = <<>>
  /\ IF Expired(obs.cursor)
     THEN Go("refused")
     ELSE /\ obs' = [obs EXCEPT !.at = "listed", !.batch = ListEvents(obs.cursor)]
          /\ UNCHANGED <<logVars, buffer, cleared, shown>>

ListedTransient == obs.at = "listed" /\ YieldTransient("top", <<>>)

(* A transient event is yielded in place of the next event of the batch.   *)
BatchTransient == obs.at = "batch" /\ obs.batch # <<>> /\ YieldTransient("batch", Tail(obs.batch))

EndOfBatch ==
  /\ obs.at = "batch"
  /\ obs.batch = <<>>
  /\ \/ YieldTransient("top", <<>>)
     \/ buffer = <<>> /\ Go("top")

(* The first event of the batch that belongs to the Run; those before it   *)
(* only move the cursor.                                                   *)
OwnIn(batch) == {i \in DOMAIN batch : events[batch[i]].run = Observed}

Deliver ==
  /\ obs.at \in {"listed", "batch"}
  /\ obs.at = "batch" => obs.batch # <<>>
  /\ buffer = <<>>
  /\ IF OwnIn(obs.batch) = {}
     THEN /\ obs' = [at |-> "top", batch |-> <<>>,
                     cursor |-> IF obs.batch = <<>> THEN obs.cursor ELSE Last(obs.batch)]
          /\ UNCHANGED shown
     ELSE LET i == Min(OwnIn(obs.batch))
              e == obs.batch[i]
          IN /\ shown' = Append(shown, e)
             /\ obs' = [at |-> IF events[e].kind = "ended" THEN "done" ELSE "batch",
                        batch |-> SubSeq(obs.batch, i + 1, Len(obs.batch)),
                        cursor |-> e]
  /\ UNCHANGED <<logVars, buffer, cleared>>

ObserverStep ==
  \/ TopTransient
  \/ CheckRun
  \/ List
  \/ ListedTransient
  \/ BatchTransient
  \/ EndOfBatch
  \/ Deliver

(***************************************************************************)
(* Properties.                                                             *)
(***************************************************************************)

(* Once the committed Message has been shown, none of the text streamed    *)
(* before it can still reach the reader.                                   *)
NoDeltaAfterMessage ==
  (\E i \in DOMAIN shown : events[shown[i]].kind = "message") =>
    \A j \in DOMAIN buffer : buffer[j] # "delta"

(* Durable events reach the reader in log order and once each, though the  *)
(* log is read again after every transient event.                          *)
InLogOrder == \A i, j \in DOMAIN shown : i < j => shown[i] < shown[j]

(* What observe() yields is the log as it is, with text only where the     *)
(* Message it belongs to is still to come.                                 *)
ObserverSeesTheLog == InLogOrder /\ NoDeltaAfterMessage

(* docs/prd/0003-event-driven-agent-runtime.md: without `after`, observe() *)
(* replays all retained durable events of the Run.  A transient event that *)
(* arrives while a batch is shown takes the place of one of them.          *)
ReplaysEveryEvent ==
  \A e \in retentionFloor .. obs.cursor :
    events[e].run = Observed => \E i \in DOMAIN shown : shown[i] = e
=============================================================================
