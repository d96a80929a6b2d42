----------------------------- MODULE Consumers ------------------------------
(***************************************************************************)
(* Durable consumers: AgentRuntime.consume and runConsumer of              *)
(* packages/agent/src/runtime/durable-runtime.ts over the event log, and   *)
(* the consumer that reports a child Agent's Runs to its parent.           *)
(*                                                                         *)
(* A consumer reads a batch, and for each event calls onEvent until it     *)
(* succeeds and then advances its durable checkpoint.  Each of these is    *)
(* awaited, so appends, other consumers, a compaction or the end of the    *)
(* process come in between.                                                *)
(***************************************************************************)
EXTENDS EventLog

CONSTANTS
  Consumer,     \* consumer ids
  Reporter,     \* those whose onEvent is reportChildEvent
  MaxRestarts   \* bound: processes that end

ASSUME ConsumersAssumption == Reporter \subseteq Consumer /\ MaxRestarts \in Nat

VARIABLES
  checkpoint,   \* consumerCheckpoints of the Store
  reports,      \* receipts of the Runs started to report an Interaction of a child Run
  sub,          \* the ConsumerSubscriptions of the process
  restarts,
  handled       \* history: the events whose onEvent has succeeded

consumerVars == <<checkpoint, reports, sub, restarts, handled>>

Off == [at |-> "off", cursor |-> NoCursor, batch |-> <<>>, waterline |-> 0,
        caughtUp |-> "pending", aborted |-> FALSE]

Cursor == 0 .. MaxEvents

ConsumerTypeOK ==
  /\ checkpoint \in [Consumer -> Cursor]
  /\ reports \in [Runs \X Interactions -> {"none", "withCall", "withoutCall"}]
  /\ sub \in [Consumer -> [at: {"off", "polling", "handling", "advancing"},
                           cursor: Cursor, batch: Seq(Cursor), waterline: Cursor,
                           caughtUp: {"pending", "resolved", "rejected"}, aborted: BOOLEAN]]
  /\ restarts \in 0 .. MaxRestarts
  /\ handled \in [Consumer -> SUBSET (1 .. MaxEvents)]

ConsumerInit ==
  /\ checkpoint = [c \in Consumer |-> NoCursor]
  /\ reports = [k \in Runs \X Interactions |-> "none"]
  /\ sub = [c \in Consumer |-> Off]
  /\ restarts = 0
  /\ handled = [c \in Consumer |-> {}]

\* A promise settles once.
Settled(c, outcome) == IF sub[c].caughtUp = "pending" THEN outcome ELSE sub[c].caughtUp

\* runConsumer is over; what its caller was told stays told, and is of the waterline.
Left(c, outcome) ==
  [Off EXCEPT !.caughtUp = Settled(c, outcome), !.aborted = sub[c].aborted,
              !.waterline = IF Settled(c, outcome) = "resolved" THEN sub[c].waterline ELSE @]

ResumeFromStart(c) == NoCursor  \* mutant: the checkpoint is not read
ResumeFrom(c) == checkpoint[c]

(* consume() and the openConsumer it starts with: from here on the         *)
(* consumer id is taken, and the waterline it has to catch up to is fixed. *)
Consume(c) ==
  /\ sub[c].at = "off"
  /\ sub' = [sub EXCEPT ![c] = [Off EXCEPT !.at = "polling", !.cursor = ResumeFrom(c),
                                           !.waterline = Len(events)]]
  /\ UNCHANGED <<logVars, checkpoint, reports, restarts, handled>>

UnreadToWaterline(c) ==  \* mutant: catching up is all a consumer does
  SelectSeq(ListEvents(sub[c].cursor), LAMBDA s : s <= sub[c].waterline)
Unread(c) == ListEvents(sub[c].cursor)

Poll(c) ==
  LET batch == Unread(c) IN
  /\ sub[c].at = "polling"
  /\ sub' = [sub EXCEPT ![c] =
       CASE Expired(@.cursor) -> Left(c, "rejected")
         [] ~Expired(@.cursor) /\ batch = <<>> -> [@ EXCEPT !.caughtUp = Settled(c, "resolved")]
         [] OTHER -> [@ EXCEPT !.at = "handling", !.batch = batch]]
  /\ UNCHANGED <<logVars, checkpoint, reports, restarts, handled>>

(* toolCallOf: a report of an Interaction shows the Tool Call it guards as *)
(* long as the child's history has the Message that requested it.          *)
Report(r) == IF runs[r].invalidated THEN "withoutCall" ELSE "withCall"

Reportable(e) == {k \in Runs \X Interactions : k[1] = events[e].run /\ k[2] \in events[e].pending}

(* start() answers a repeated report from its receipt, and throws          *)
(* idempotency_conflict when the input differs from the first one.         *)
Conflict(e) == \E k \in Reportable(e) : reports[k] \notin {"none", Report(k[1])}

(* onEvent succeeds; one that throws is called again with the same event.  *)
Handle(c) ==
  LET e == Head(sub[c].batch) IN
  /\ sub[c].at = "handling"
  /\ IF c \in Reporter
     THEN /\ ~Conflict(e)
          /\ reports' = [k \in DOMAIN reports |-> IF k \in Reportable(e) THEN Report(k[1]) ELSE reports[k]]
     ELSE UNCHANGED reports
  /\ handled' = [handled EXCEPT ![c] = @ \union {e}]
  /\ sub' = [sub EXCEPT ![c].at = "advancing"]
  /\ UNCHANGED <<logVars, checkpoint, restarts>>

AcknowledgedBatch(c) == Last(sub[c].batch)  \* mutant: one checkpoint per batch
Acknowledged(c) == Head(sub[c].batch)

AtWaterlineAlways(c, e) == TRUE  \* mutant: the first event resolves caughtUp
AtWaterline(c, e) == e >= sub[c].waterline

(* advanceConsumerCheckpoint refuses a cursor compaction has passed.  An    *)
(* aborted consumer returns from inside its batch without settling         *)
(* caughtUp, but resolves it when the batch is at its end.                 *)
Advance(c) ==
  LET e == Acknowledged(c)
      rest == Tail(sub[c].batch)
      outcome == IF AtWaterline(c, e) THEN "resolved" ELSE "pending"
  IN
  /\ sub[c].at = "advancing"
  /\ IF e < retentionFloor - 1
     THEN /\ sub' = [sub EXCEPT ![c] = Left(c, "rejected")]
          /\ UNCHANGED checkpoint
     ELSE /\ checkpoint' = [checkpoint EXCEPT ![c] = IF e > @ THEN e ELSE @]
          /\ sub' = [sub EXCEPT ![c] =
               IF @.aborted THEN Left(c, IF rest = <<>> THEN "resolved" ELSE outcome)
               ELSE [@ EXCEPT !.at = IF rest = <<>> THEN "polling" ELSE "handling",
                              !.cursor = e, !.batch = rest,
                              !.caughtUp = Settled(c, outcome)]]
  /\ UNCHANGED <<logVars, reports, restarts, handled>>

(* The host stops the consumer, or close() does; a listener under way may   *)
(* still succeed.  Between two batches the loop ends by resolving caughtUp, *)
(* whatever was handled, unless the list it awaits brings an event.         *)
Stop(c) ==
  /\ sub[c].at # "off"
  /\ ~sub[c].aborted
  /\ \E outcome \in {"resolved"} \cup {o \in {"pending"} : Unread(c) # <<>>} :
       LET stopped == IF sub[c].at = "polling" THEN Left(c, outcome) ELSE sub[c]
       IN  sub' = [sub EXCEPT ![c] = [stopped EXCEPT !.aborted = TRUE]]
  /\ UNCHANGED <<logVars, checkpoint, reports, restarts, handled>>

ListenerGivesUp(c) ==
  /\ sub[c].aborted
  /\ sub[c].at = "handling"
  /\ sub' = [sub EXCEPT ![c] = Left(c, "pending")]
  /\ UNCHANGED <<logVars, checkpoint, reports, restarts, handled>>

(* The events up to consumerFloor, the least checkpoint there is.          *)
Passed == {s \in DOMAIN events :
            \A c \in Consumer : checkpoint[c] # NoCursor => s <= checkpoint[c]}

Compact(cutoff) ==
  /\ CompactLog(cutoff, Passed)
  /\ checkpoint' = [c \in Consumer |-> IF checkpoint[c] < retentionFloor' - 1
                                       THEN NoCursor ELSE checkpoint[c]]
  /\ UNCHANGED <<reports, sub, restarts, handled>>

(* A crash, or the seal close() ends with after a Stop of every consumer:   *)
(* what is durable stays, and the next process starts its consumers again.  *)
(* A consumer still at an event is refused by the Store or never settles.   *)
EndProcess ==
  /\ restarts < MaxRestarts
  /\ restarts' = restarts + 1
  /\ InterruptOwner
  /\ \E outcome \in [Consumer -> {"pending", "rejected"}] :
       sub' = [c \in Consumer |-> IF sub[c].at = "off" THEN sub[c] ELSE Left(c, outcome[c])]
  /\ UNCHANGED <<checkpoint, reports, handled>>

ConsumerStep(c) ==
  \/ Poll(c)
  \/ Handle(c)
  \/ Advance(c)
  \/ ListenerGivesUp(c)

(***************************************************************************)
(* Properties.                                                             *)
(***************************************************************************)

(* A checkpoint vouches for everything before it: no event that is still   *)
(* retained lies behind a consumer's checkpoint without its onEvent having *)
(* succeeded, whatever process handled it.                                 *)
NothingSkipped ==
  \A c \in Consumer : \A e \in retentionFloor .. checkpoint[c] : e \in handled[c]

(* `caughtUp` has resolved, and not at the end of a loop that was stopped. *)
CaughtUp(c) == sub[c].caughtUp = "resolved" /\ ~(sub[c].at = "off" /\ sub[c].aborted)

(* The same for a whole subscription: once `caughtUp` has resolved,        *)
(* everything retained that was in the log at registration is handled.     *)
(* A consumer that was stopped is left out once it is gone: the end of its *)
(* loop resolves caughtUp, whatever was handled.                           *)
CaughtUpMeansHandled ==
  \A c \in Consumer : CaughtUp(c) =>
    \A e \in retentionFloor .. sub[c].waterline : e \in handled[c]

(* Compaction never passes a consumer that has a checkpoint: a live        *)
(* consumer's cursor is its durable checkpoint, and the log can be read on *)
(* from every checkpoint.                                                  *)
CursorsSurvive ==
  \A c \in Consumer :
    /\ sub[c].at # "off" => sub[c].cursor = checkpoint[c]
    /\ ~Expired(checkpoint[c])

(* The only event a consumer is given twice is the one that was handled    *)
(* but not yet checkpointed when its subscription ended.                   *)
RedeliversOnlyLast ==
  [][\A c \in Consumer : (sub[c].at = "handling" /\ sub'[c].at = "advancing") =>
       LET e == Head(sub[c].batch) IN
       /\ e > checkpoint[c]
       /\ \A h \in handled[c] : h <= e]_<<consumerVars, logVars>>

(* A report of an Interaction that was reported before finds the Run it    *)
(* already started (the comment of reportChildEvent).                      *)
ReportFindsItsRun ==
  \A c \in Reporter : sub[c].at = "handling" => ~Conflict(Head(sub[c].batch))
=============================================================================
