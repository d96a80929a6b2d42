--------------------------- MODULE EventDelivery ----------------------------
(***************************************************************************)
(* The event log with everybody who reads it: the Runs that append, the    *)
(* durable consumers, one live observer, compaction, and the end of the    *)
(* process.                                                                *)
(***************************************************************************)
EXTENDS Consumers, Observer

vars == <<logVars, consumerVars, observerVars>>

Init == LogInit /\ ConsumerInit /\ ObserverInit

TypeOK == LogTypeOK /\ ConsumerTypeOK /\ ObserverTypeOK

ProcessEnds ==
  /\ EndProcess
  /\ obs' = IF Subscribed THEN [obs EXCEPT !.at = "refused", !.batch = <<>>] ELSE obs
  /\ buffer' = <<>>
  /\ cleared' = TRUE
  /\ UNCHANGED shown

Next ==
  \/ \E r \in Runs : LogStep(r) /\ UNCHANGED <<consumerVars, observerVars>>
  \/ \E c \in Consumer :
       (Consume(c) \/ ConsumerStep(c) \/ Stop(c)) /\ UNCHANGED observerVars
  \/ \E cutoff \in 1 .. Len(events) : Compact(cutoff) /\ UNCHANGED observerVars
  \/ ProcessEnds
  \/ /\ \/ Observe(NoCursor)
        \/ \E t \in Transient : Publish(t)
        \/ ClearTransients
        \/ Abort
        \/ ObserverStep
     /\ UNCHANGED consumerVars

(* The loops of consumers and of the observer go on, listeners eventually  *)
(* succeed and the reader keeps reading; an executor whose Run has ended   *)
(* returns.  The check of the Run comes after an interval whatever the     *)
(* observer does in between, so it is strongly fair.                       *)
Fairness ==
  /\ \A c \in Consumer : WF_vars(ConsumerStep(c) /\ UNCHANGED observerVars)
  /\ WF_vars(ClearTransients /\ UNCHANGED consumerVars)
  /\ WF_vars(ObserverStep /\ UNCHANGED consumerVars)
  /\ SF_vars(CheckRun /\ UNCHANGED consumerVars)

Spec == Init /\ [][Next]_vars /\ Fairness

(* A slow or restarted reader still gets there: an event in the log is     *)
(* handled by every consumer that stays subscribed, unless compaction has  *)
(* taken it.                                                               *)
EveryEventHandled ==
  \A c \in Consumer : \A e \in 1 .. MaxEvents :
    (e <= Len(events) /\ sub[c].at # "off" /\ ~sub[c].aborted)
      ~> (e \in handled[c] \/ e < retentionFloor \/ sub[c].at = "off" \/ sub[c].aborted)

(* observe() ends once its Run has ended, even when the terminal event     *)
(* itself was never shown.                                                 *)
ObservationEnds ==
  (Subscribed /\ runs[Observed].state = "ended") ~> ~Subscribed
=============================================================================
