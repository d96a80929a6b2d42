------------------------------ MODULE EventLog ------------------------------
(***************************************************************************)
(* The durable event log of packages/agent/src/runtime/durable-store.ts    *)
(* and the Runs of one Agent as far as its readers see them.  Every        *)
(* operation appends its events in the transaction that changes the Run.   *)
(* `compact` gives up the oldest events and the Runs a revision has        *)
(* superseded.                                                             *)
(*                                                                         *)
(* Events are numbered by eventSequence, which is what a cursor holds.     *)
(* Four kinds are told apart, for they are what readers react to:          *)
(* "message" (message_committed of the Run's streamed Message), "question" *)
(* (a transition to input_required, with the pending Interactions),        *)
(* "ended" (a transition to completed, failed or cancelled), and "state",  *)
(* any other event of the Run, or several committed together.              *)
(***************************************************************************)
EXTENDS Integers, Sequences, FiniteSets, FiniteSetsExt, SequencesExt

CONSTANTS
  MaxRuns,       \* bound: Runs, numbered as the Agent creates them
  Interactions,  \* Interactions a Run may raise
  MaxEvents      \* bound: events ever appended

ASSUME EventLogAssumption == MaxRuns \in Nat /\ MaxEvents \in Nat

Runs == 1 .. MaxRuns

VARIABLES
  events,          \* every event ever appended; those from retentionFloor on are retained
  retentionFloor,
  runs

logVars == <<events, retentionFloor, runs>>

Event == [run: Runs, kind: {"state", "message", "question", "ended"}, pending: SUBSET Interactions]

Run == [state: {"none", "active", "ended", "deleted"},
        open: SUBSET Interactions,   \* openInteractions
        streamed: BOOLEAN,           \* its Message is committed
        invalidated: BOOLEAN,        \* invalidatedBy a revision: out of the transcript
        updated: 0 .. MaxEvents]     \* updatedAt, as the number of events by then

LogTypeOK ==
  /\ events \in Seq(Event)
  /\ Len(events) <= MaxEvents
  /\ retentionFloor \in 1 .. MaxEvents + 1
  /\ runs \in [Runs -> Run]

LogInit ==
  /\ events = <<>>
  /\ retentionFloor = 1
  /\ runs = [r \in Runs |-> [state |-> "none", open |-> {}, streamed |-> FALSE,
                             invalidated |-> FALSE, updated |-> 0]]

NoCursor == 0

(* What listEvents reads after a cursor, and the cursors it refuses.       *)
After(cursor) == IF cursor = NoCursor THEN retentionFloor - 1 ELSE cursor
Expired(cursor) == cursor # NoCursor /\ cursor < retentionFloor - 1
ListEvents(cursor) == [i \in 1 .. Len(events) - After(cursor) |-> After(cursor) + i]

(* The one sequence of the Runs of a set as the Agent created them.        *)
InCreationOrder(rs) ==
  {s \in [1 .. Cardinality(rs) -> rs] : \A i, j \in DOMAIN s : i < j => s[i] < s[j]}

E(r, kind, pending) == [run |-> r, kind |-> kind, pending |-> pending]

Append_(es) ==
  /\ Len(events) + Len(es) <= MaxEvents
  /\ events' = events \o es

Update(r, run) == runs' = [runs EXCEPT ![r] = [run EXCEPT !.updated = Len(events')]]

Fresh(r) == runs[r].state = "none" /\ \A q \in 1 .. r - 1 : runs[q].state # "none"

(* A queued and a claimed Run are not told apart: the events of createRun  *)
(* and claimRun are of one kind, and no reader's step depends on them.     *)
CreateRun(r) ==
  /\ Fresh(r)
  /\ Append_(<<E(r, "state", {})>>)
  /\ Update(r, [runs[r] EXCEPT !.state = "active"])
  /\ UNCHANGED retentionFloor

CommitMessage(r) ==
  /\ runs[r].state = "active"
  /\ ~runs[r].streamed
  /\ Append_(<<E(r, "message", {})>>)
  /\ Update(r, [runs[r] EXCEPT !.streamed = TRUE])
  /\ UNCHANGED retentionFloor

RaiseInteraction(r, i) ==
  /\ runs[r].state = "active"
  /\ i \notin runs[r].open
  /\ Append_(<<E(r, "question", runs[r].open \union {i})>>)
  /\ Update(r, [runs[r] EXCEPT !.open = @ \union {i}])
  /\ UNCHANGED retentionFloor

AnswerInteraction(r, i) ==
  /\ runs[r].state = "active"
  /\ i \in runs[r].open
  /\ Append_(<<E(r, "state", {})>>)
  /\ Update(r, [runs[r] EXCEPT !.open = @ \ {i}])
  /\ UNCHANGED retentionFloor

(* commitOutcome and cancelRun, which may commit the last Message with it. *)
EndRun(r) ==
  /\ runs[r].state = "active"
  /\ \/ /\ Append_(<<E(r, "ended", {})>>)
        /\ Update(r, [runs[r] EXCEPT !.state = "ended", !.open = {}])
     \/ /\ ~runs[r].streamed
        /\ Append_(<<E(r, "message", {}), E(r, "ended", {})>>)
        /\ Update(r, [runs[r] EXCEPT !.state = "ended", !.open = {}, !.streamed = TRUE])
  /\ UNCHANGED retentionFloor

(* reviseMessage of the first Message of Run r: r and every later Run are  *)
(* superseded, those unfinished are cancelled, a replacement Run is queued.*)
ReviseMessage(r) ==
  LET affected == {q \in Runs : q >= r /\ runs[q].state \notin {"none", "deleted"}} IN
  /\ runs[r].state \in {"active", "ended"}
  /\ ~runs[r].invalidated
  /\ \E replacement \in Runs :
     \E ended \in InCreationOrder({q \in affected : runs[q].state = "active"}) :
       /\ Fresh(replacement)
       /\ Append_([i \in DOMAIN ended |-> E(ended[i], "ended", {})]
                  \o <<E(replacement, "state", {})>>)
       /\ runs' = [q \in Runs |->
            CASE q = replacement -> [runs[q] EXCEPT !.state = "active", !.updated = Len(events')]
              [] q \in affected -> [runs[q] EXCEPT !.state = "ended", !.open = {},
                                                   !.invalidated = TRUE, !.updated = Len(events')]
              [] OTHER -> runs[q]]
  /\ UNCHANGED retentionFloor

(* A superseded Run whose last change is as old as the event `cutoff`.     *)
Disposable(r, cutoff) ==
  runs[r].state = "ended" /\ runs[r].invalidated /\ runs[r].updated <= cutoff

(* compact's loop stops at the first event it must keep: one some consumer *)
(* has yet to pass (it is not in `passed`), a recent one, or one of a Run  *)
(* that is not disposable.                                                 *)
MayGoUnread(s, cutoff, passed) ==  \* mutant: consumers are not asked
  s <= cutoff /\ Disposable(events[s].run, cutoff)
MayGo(s, cutoff, passed) ==
  s \in passed /\ s <= cutoff /\ Disposable(events[s].run, cutoff)

DeletesThrough(n, cutoff, passed) ==
  /\ n \in retentionFloor - 1 .. Len(events)
  /\ \A s \in retentionFloor .. n : MayGo(s, cutoff, passed)
  /\ n < Len(events) => ~MayGo(n + 1, cutoff, passed)

(* Deleted Runs are chosen apart from the deleted events: all their events *)
(* are passed and old, deleted with them or not.                           *)
DeletableRuns(n, cutoff, passed) ==
  {r \in Runs :
    /\ Disposable(r, cutoff)
    /\ \A s \in n + 1 .. Len(events) : events[s].run = r => s \in passed /\ s <= cutoff}

CompactLog(cutoff, passed) ==
  \E n \in 0 .. Len(events) :
    LET gone == DeletableRuns(n, cutoff, passed) IN
    /\ DeletesThrough(n, cutoff, passed)
    /\ n >= retentionFloor \/ gone # {}
    /\ retentionFloor' = n + 1
    /\ runs' = [r \in Runs |-> IF r \in gone
                               THEN [runs[r] EXCEPT !.state = "deleted"] ELSE runs[r]]
    /\ UNCHANGED events

(* The owner is lost or closes: the Runs that had an attempt are ended by  *)
(* interruptOwner; a queued or suspended Run, not told apart here, has     *)
(* none.                                                                   *)
InterruptOwner ==
  \E lost \in SUBSET {r \in Runs : runs[r].state = "active"} :
  \E order \in InCreationOrder(lost) :
    /\ Append_([i \in DOMAIN order |-> E(order[i], "ended", {})])
    /\ runs' = [r \in Runs |->
         IF r \in lost
         THEN [runs[r] EXCEPT !.state = "ended", !.open = {}, !.updated = Len(events')]
         ELSE runs[r]]
    /\ UNCHANGED retentionFloor

LogStep(r) ==
  \/ CreateRun(r)
  \/ CommitMessage(r)
  \/ \E i \in Interactions : RaiseInteraction(r, i) \/ AnswerInteraction(r, i)
  \/ EndRun(r)
  \/ ReviseMessage(r)
=============================================================================
