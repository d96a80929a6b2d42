------------------------ MODULE EventDeliveryProofs -------------------------
(***************************************************************************)
(* What the event log promises its readers, for every number of Runs,      *)
(* events and consumers, and every length of the observer's queue.         *)
(***************************************************************************)
EXTENDS EventDelivery, FiniteSetTheorems, WellFoundedInduction, SequenceTheorems, TLAPS

-----------------------------------------------------------------------------
(* Sequences and sets *)

LEMMA RunsFinite ==
  ASSUME NEW S \in SUBSET Runs
  PROVE  Cardinality(S) \in Nat
<1>1. IsFiniteSet(Runs)
  BY FS_Interval, EventLogAssumption DEF Runs
<1>2. IsFiniteSet(S)
  BY <1>1, FS_Subset
<1>3. QED
  BY <1>2, FS_CardinalityType

\* The sequences of functions the actions are written with.
LEMMA FunctionSeq ==
  ASSUME NEW S, NEW n \in Nat, NEW f \in [1 .. n -> S]
  PROVE  f \in Seq(S) /\ Len(f) = n /\ DOMAIN f = 1 .. n
<1>1. f \in Seq(S)
  BY SeqDef
<1>2. QED
  BY <1>1, LenProperties

LEMMA EndedEvents ==
  ASSUME NEW S \in SUBSET Runs, NEW s \in InCreationOrder(S)
  PROVE  /\ [i \in DOMAIN s |-> E(s[i], "ended", {})] \in Seq(Event)
         /\ \A i \in 1 .. Len([j \in DOMAIN s |-> E(s[j], "ended", {})]) :
              [j \in DOMAIN s |-> E(s[j], "ended", {})][i].kind = "ended"
<1>1. PICK n \in Nat : s \in [1 .. n -> Runs]
  BY RunsFinite DEF InCreationOrder
<1>2. \A i \in 1 .. n : E(s[i], "ended", {}) \in Event
  BY <1>1 DEF E, Event
<1>3. [i \in DOMAIN s |-> E(s[i], "ended", {})] \in [1 .. n -> Event]
  BY <1>1, <1>2
<1>4. QED
  BY <1>1, <1>3, FunctionSeq DEF E

LEMMA MinIs ==
  ASSUME NEW S \in SUBSET Nat, S # {}
  PROVE  Min(S) \in S
<1>0. OpToRel(<, Nat) = {ss \in Nat \X Nat : ss[1] < ss[2]}
  BY Zenon DEF OpToRel
<1>1. PICK x \in S : \A y \in S : ~(<<y, x>> \in {ss \in Nat \X Nat : ss[1] < ss[2]})
  BY <1>0, WFMin, NatLessThanWellFounded, Zenon
<1>2. \A y \in S : x =< y
  <2> SUFFICES ASSUME NEW y \in S, ~(x =< y) PROVE FALSE
    OBVIOUS
  <2>1. y \in Nat /\ x \in Nat /\ y < x
    OBVIOUS
  <2>2. <<y, x>> \in {ss \in Nat \X Nat : ss[1] < ss[2]}
    BY <2>1
  <2>3. QED
    BY <1>1, <2>2
<1>3. QED
  BY <1>2 DEF Min

-----------------------------------------------------------------------------
(* The log: it only grows at its end, and compaction only takes its front *)

\* A Message in the log is one its Run has committed.
MessagesStreamed ==
  \A s \in 1 .. Len(events) : events[s].kind = "message" => runs[events[s].run].streamed

LogInv ==
  /\ LogTypeOK
  /\ retentionFloor <= Len(events) + 1
  /\ MessagesStreamed

LogGrows ==
  /\ Len(events) <= Len(events')
  /\ \A s \in 1 .. Len(events) : events'[s] = events[s]
  /\ retentionFloor <= retentionFloor'
  /\ \A r \in Runs : runs[r].streamed => runs'[r].streamed

\* What a step of the log has to show: which events it appends, and that the
\* Runs whose Message it appends have streamed it.
LEMMA Appended ==
  ASSUME LogInv, NEW es \in Seq(Event), Append_(es), runs' \in [Runs -> Run],
         retentionFloor' = retentionFloor,
         \A r \in Runs : runs[r].streamed => runs'[r].streamed,
         \A i \in 1 .. Len(es) : es[i].kind = "message" => runs'[es[i].run].streamed
  PROVE  LogInv' /\ LogGrows
<1>1. events \in Seq(Event) /\ retentionFloor \in Int
  BY DEF LogInv, LogTypeOK
<1>2. Len(events) \in Nat /\ Len(es) \in Nat
  BY <1>1, LenProperties
<1>3. /\ events' \in Seq(Event)
      /\ Len(events') = Len(events) + Len(es)
      /\ \A i \in 1 .. Len(events) + Len(es) :
           events'[i] = IF i <= Len(events) THEN events[i] ELSE es[i - Len(events)]
  BY <1>1, ConcatProperties DEF Append_
<1>4. LogGrows
  BY <1>1, <1>2, <1>3 DEF LogGrows
<1>5. LogTypeOK' /\ (retentionFloor <= Len(events) + 1)'
  BY <1>1, <1>2, <1>3 DEF LogInv, LogTypeOK, Append_
<1>6. MessagesStreamed'
  <2> SUFFICES ASSUME NEW s \in 1 .. Len(events'), events'[s].kind = "message"
               PROVE  runs'[events'[s].run].streamed
    BY DEF MessagesStreamed
  <2>1. CASE s <= Len(events)
    <3>1. s \in 1 .. Len(events) /\ events'[s] = events[s]
      BY <1>2, <1>3, <2>1
    <3>2. events[s] \in Event
      BY <1>1, <3>1, ElementOfSeq
    <3>3. QED
      BY <3>1, <3>2 DEF LogInv, MessagesStreamed, Event
  <2>2. CASE ~(s <= Len(events))
    <3>1. s - Len(events) \in 1 .. Len(es) /\ events'[s] = es[s - Len(events)]
      BY <1>2, <1>3, <2>2
    <3>2. QED
      BY <3>1
  <2>3. QED
    BY <2>1, <2>2
<1>7. QED
  BY <1>4, <1>5, <1>6 DEF LogInv

LEMMA OneEvent ==
  ASSUME NEW e \in Event
  PROVE  <<e>> \in Seq(Event) /\ Len(<<e>>) = 1 /\ <<e>>[1] = e
  OBVIOUS

LEMMA Updated ==
  ASSUME LogInv, NEW r \in Runs, NEW run \in Run, Update(r, run), Len(events') \in 0 .. MaxEvents,
         runs[r].streamed => run.streamed
  PROVE  /\ runs' \in [Runs -> Run]
         /\ \A q \in Runs : runs[q].streamed => runs'[q].streamed
         /\ run.streamed => runs'[r].streamed
<1>1. [run EXCEPT !.updated = Len(events')] \in Run
  BY DEF Run
<1>2. QED
  BY <1>1 DEF Update, Run, LogInv, LogTypeOK

LEMMA LengthBounded ==
  ASSUME LogInv, NEW es \in Seq(Event), Append_(es)
  PROVE  Len(events') \in 0 .. MaxEvents
<1>1. events \in Seq(Event)
  BY DEF LogInv, LogTypeOK
<1>2. Len(events) \in Nat /\ Len(es) \in Nat /\ Len(events') = Len(events) + Len(es)
  BY <1>1, LenProperties, ConcatProperties DEF Append_
<1>3. QED
  BY <1>2, EventLogAssumption DEF Append_

\* A sequence with one more element.
LEMMA OneMore ==
  ASSUME NEW S, NEW s \in Seq(S), NEW t \in Seq(S), Len(t) = 1
  PROVE  s \o t \in Seq(S) /\ Len(s \o t) = Len(s) + 1 /\ Len(s) \in Nat
BY ConcatProperties, LenProperties

\* The operations that append one event of the Run they update.
LEMMA OneAppended ==
  ASSUME LogInv, NEW r \in Runs, NEW e \in Event, NEW run \in Run,
         Append_(<<e>>), Update(r, run), retentionFloor' = retentionFloor,
         runs[r].streamed => run.streamed,
         e.run = r, e.kind = "message" => run.streamed
  PROVE  LogInv' /\ LogGrows
<1>1. Len(events') \in 0 .. MaxEvents
  BY OneEvent, LengthBounded
<1>2. /\ runs' \in [Runs -> Run]
      /\ \A q \in Runs : runs[q].streamed => runs'[q].streamed
      /\ run.streamed => runs'[r].streamed
  BY <1>1, Updated
<1>3. DEFINE es == <<e>>
<1>4. es \in Seq(Event) /\ \A i \in 1 .. Len(es) : es[i] = e
  BY OneEvent
<1>5. \A i \in 1 .. Len(es) : es[i].kind = "message" => runs'[es[i].run].streamed
  BY <1>2, <1>4
<1>6. Append_(es)
  OBVIOUS
<1> HIDE DEF es
<1>7. QED
  BY <1>2, <1>4, <1>5, <1>6, Appended

LEMMA LogStepGrows ==
  ASSUME LogInv, NEW r \in Runs, LogStep(r)
  PROVE  LogInv' /\ LogGrows /\ retentionFloor' = retentionFloor
<1>0. runs \in [Runs -> Run] /\ runs[r] \in Run
  BY DEF LogInv, LogTypeOK
<1> DEFINE event(kind) == E(r, kind, {})
<1>e. \A kind \in {"state", "message", "ended"} :
        event(kind) \in Event /\ event(kind).run = r /\ event(kind).kind = kind
  BY DEF E, Event
<1>1. CASE CreateRun(r)
  <2>1. /\ [runs[r] EXCEPT !.state = "active"] \in Run
        /\ [runs[r] EXCEPT !.state = "active"].streamed = runs[r].streamed
    BY <1>0 DEF Run
  <2>2. QED
    BY <1>1, <1>e, <2>1, OneAppended DEF CreateRun
<1>2. CASE CommitMessage(r)
  <2>1. /\ [runs[r] EXCEPT !.streamed = TRUE] \in Run
        /\ [runs[r] EXCEPT !.streamed = TRUE].streamed
    BY <1>0 DEF Run
  <2>2. QED
    BY <1>2, <1>e, <2>1, OneAppended DEF CommitMessage
<1>3. ASSUME NEW i \in Interactions, RaiseInteraction(r, i)
      PROVE  LogInv' /\ LogGrows
  <2> DEFINE question == E(r, "question", runs[r].open \union {i})
             run == [runs[r] EXCEPT !.open = @ \union {i}]
  <2>1. question \in Event /\ question.run = r /\ question.kind = "question"
    BY <1>0 DEF E, Event, Run
  <2>2. run \in Run /\ run.streamed = runs[r].streamed
    BY <1>0 DEF Run
  <2>3. Append_(<<question>>) /\ Update(r, run) /\ retentionFloor' = retentionFloor
    BY <1>3 DEF RaiseInteraction
  <2> HIDE DEF question, run
  <2>4. QED
    BY <2>1, <2>2, <2>3, OneAppended
<1>4. ASSUME NEW i \in Interactions, AnswerInteraction(r, i)
      PROVE  LogInv' /\ LogGrows
  <2> DEFINE run == [runs[r] EXCEPT !.open = @ \ {i}]
  <2>1. run \in Run /\ run.streamed = runs[r].streamed
    BY <1>0 DEF Run
  <2>2. Append_(<<event("state")>>) /\ Update(r, run) /\ retentionFloor' = retentionFloor
    BY <1>4 DEF AnswerInteraction
  <2> HIDE DEF event, run
  <2>3. QED
    BY <1>e, <2>1, <2>2, OneAppended
<1>5. CASE EndRun(r)
  <2> DEFINE silent == [runs[r] EXCEPT !.state = "ended", !.open = {}]
             told == [runs[r] EXCEPT !.state = "ended", !.open = {}, !.streamed = TRUE]
             both == <<event("message"), event("ended")>>
  <2>1. silent \in Run /\ silent.streamed = runs[r].streamed /\ told \in Run /\ told.streamed
    BY <1>0 DEF Run
  <2>2. retentionFloor' = retentionFloor
    BY <1>5 DEF EndRun
  <2>3. \/ Append_(<<event("ended")>>) /\ Update(r, silent)
        \/ Append_(both) /\ Update(r, told)
    BY <1>5 DEF EndRun
  <2>4. both \in Seq(Event) /\ Len(both) = 2 /\ both[1].run = r /\ both[2].run = r
    BY <1>e
  <2> HIDE DEF event, silent, told, both
  <2>5. CASE Append_(<<event("ended")>>) /\ Update(r, silent)
    BY <1>e, <2>1, <2>2, <2>5, OneAppended
  <2>6. CASE Append_(both) /\ Update(r, told)
    <3>1. Len(events') \in 0 .. MaxEvents
      BY <2>4, <2>6, LengthBounded
    <3>2. /\ runs' \in [Runs -> Run] /\ \A q \in Runs : runs[q].streamed => runs'[q].streamed
          /\ runs'[r].streamed
      BY <2>1, <2>6, <3>1, Updated
    <3>3. \A i \in 1 .. Len(both) : both[i].run = r
      BY <2>4
    <3>4. QED
      BY <2>2, <2>4, <2>6, <3>2, <3>3, Appended
  <2>7. QED
    BY <2>3, <2>5, <2>6
<1>6. CASE ReviseMessage(r)
  <2> DEFINE affected == {q \in Runs : q >= r /\ runs[q].state \notin {"none", "deleted"}}
             Ends(ended) == [i \in DOMAIN ended |-> E(ended[i], "ended", {})]
  <2>1. PICK replacement \in Runs, ended \in InCreationOrder({q \in affected : runs[q].state = "active"}) :
          /\ Append_(Ends(ended) \o <<E(replacement, "state", {})>>)
          /\ runs' = [q \in Runs |->
               CASE q = replacement -> [runs[q] EXCEPT !.state = "active", !.updated = Len(events')]
                 [] q \in affected -> [runs[q] EXCEPT !.state = "ended", !.open = {},
                                                      !.invalidated = TRUE, !.updated = Len(events')]
                 [] OTHER -> runs[q]]
    BY <1>6 DEF ReviseMessage
  <2> DEFINE last == <<E(replacement, "state", {})>>
             es == Ends(ended) \o last
  <2>2. Ends(ended) \in Seq(Event) /\ \A i \in 1 .. Len(Ends(ended)) : Ends(ended)[i].kind = "ended"
    BY EndedEvents
  <2>3. last \in Seq(Event) /\ Len(last) = 1 /\ last[1].kind = "state"
    BY OneEvent DEF E, Event
  <2>4. /\ es \in Seq(Event)
        /\ Len(es) = Len(Ends(ended)) + 1
        /\ Len(Ends(ended)) \in Nat
        /\ \A i \in 1 .. Len(es) : es[i].kind # "message"
    <3> HIDE DEF Ends, last
    <3>1. es \in Seq(Event) /\ Len(es) = Len(Ends(ended)) + 1 /\ Len(Ends(ended)) \in Nat
      <4>1. Ends(ended) \in Seq(Event) /\ last \in Seq(Event) /\ Len(last) = 1
        BY <2>2, <2>3
      <4>2. QED
        BY ONLY <4>1, OneMore
    <3>2. \A i \in 1 .. Len(es) :
            es[i] = IF i <= Len(Ends(ended)) THEN Ends(ended)[i] ELSE last[i - Len(Ends(ended))]
      BY <2>2, <2>3, <3>1, ConcatProperties
    <3> HIDE DEF es
    <3>3. ASSUME NEW i \in 1 .. Len(es) PROVE es[i].kind # "message"
      <4>1. CASE i <= Len(Ends(ended))
        BY <2>2, <3>1, <3>2, <4>1
      <4>2. CASE ~(i <= Len(Ends(ended)))
        <5>1. i - Len(Ends(ended)) = 1
          BY <3>1, <4>2
        <5>2. QED
          BY <2>3, <3>2, <4>2, <5>1
      <4>3. QED
        BY <4>1, <4>2
    <3>4. QED
      BY <3>1, <3>3
  <2>5. Len(events') \in 0 .. MaxEvents
    BY <2>1, <2>4, LengthBounded
  <2>6. runs' \in [Runs -> Run] /\ \A q \in Runs : runs[q].streamed => runs'[q].streamed
    <3> HIDE DEF es, Ends, affected
    <3>1. ASSUME NEW q \in Runs
          PROVE  runs'[q] \in Run /\ (runs[q].streamed => runs'[q].streamed)
      <4>1. runs[q] \in Run
        BY <1>0
      <4>2. QED
        BY <2>1, <2>5, <4>1 DEF Run
    <3>2. QED
      BY <2>1, <3>1
  <2>7. retentionFloor' = retentionFloor
    BY <1>6 DEF ReviseMessage
  <2> HIDE DEF es
  <2>8. QED
    BY <2>1, <2>4, <2>6, <2>7, Appended DEF es
<1>7. LogInv' /\ LogGrows
  BY <1>1, <1>2, <1>3, <1>4, <1>5, <1>6 DEF LogStep
<1>8. retentionFloor' = retentionFloor
  BY DEF LogStep, CreateRun, CommitMessage, RaiseInteraction, AnswerInteraction, EndRun, ReviseMessage
<1>9. QED
  BY <1>7, <1>8

LEMMA InterruptOwnerGrows ==
  ASSUME LogInv, InterruptOwner
  PROVE  LogInv' /\ LogGrows /\ retentionFloor' = retentionFloor
<1>0. runs \in [Runs -> Run]
  BY DEF LogInv, LogTypeOK
<1>a. PICK lost \in SUBSET {r \in Runs : runs[r].state = "active"} :
        \E order \in InCreationOrder(lost) :
          /\ Append_([i \in DOMAIN order |-> E(order[i], "ended", {})])
          /\ runs' = [r \in Runs |->
               IF r \in lost
               THEN [runs[r] EXCEPT !.state = "ended", !.open = {}, !.updated = Len(events')]
               ELSE runs[r]]
          /\ retentionFloor' = retentionFloor
  BY DEF InterruptOwner
<1>1. PICK order \in InCreationOrder(lost) :
        /\ Append_([i \in DOMAIN order |-> E(order[i], "ended", {})])
        /\ runs' = [r \in Runs |->
             IF r \in lost
             THEN [runs[r] EXCEPT !.state = "ended", !.open = {}, !.updated = Len(events')]
             ELSE runs[r]]
        /\ retentionFloor' = retentionFloor
  BY <1>a
<1> DEFINE es == [i \in DOMAIN order |-> E(order[i], "ended", {})]
<1>2. es \in Seq(Event) /\ \A i \in 1 .. Len(es) : es[i].kind = "ended"
  BY EndedEvents
<1>3. Append_(es)
  BY <1>1
<1> HIDE DEF es
<1>4. Len(events') \in 0 .. MaxEvents
  BY <1>2, <1>3, LengthBounded
<1>5. ASSUME NEW r \in Runs
      PROVE  runs'[r] \in Run /\ (runs[r].streamed => runs'[r].streamed)
  <2>1. runs[r] \in Run
    BY <1>0
  <2>2. QED
    BY <1>1, <1>4, <2>1 DEF Run
<1>6. runs' \in [Runs -> Run] /\ \A r \in Runs : runs[r].streamed => runs'[r].streamed
  BY <1>1, <1>5
<1>7. QED
  BY <1>1, <1>2, <1>3, <1>6, Appended

LEMMA CompactLogGrows ==
  ASSUME LogInv, NEW cutoff, NEW passed, CompactLog(cutoff, passed)
  PROVE  /\ LogInv' /\ LogGrows
         /\ events' = events
         /\ \A s \in retentionFloor .. (retentionFloor' - 1) : s \in passed
<1>0. runs \in [Runs -> Run] /\ events \in Seq(Event) /\ retentionFloor \in 1 .. MaxEvents + 1
  BY DEF LogInv, LogTypeOK
<1>1. PICK n \in 0 .. Len(events) :
        /\ DeletesThrough(n, cutoff, passed)
        /\ retentionFloor' = n + 1
        /\ runs' = [r \in Runs |-> IF r \in DeletableRuns(n, cutoff, passed)
                                   THEN [runs[r] EXCEPT !.state = "deleted"] ELSE runs[r]]
        /\ events' = events
  BY DEF CompactLog
<1>2. n \in retentionFloor - 1 .. Len(events) /\ \A s \in retentionFloor .. n : s \in passed
  BY <1>1 DEF DeletesThrough, MayGo
<1>3. Len(events) \in Nat /\ Len(events) <= MaxEvents
  BY <1>0, LenProperties DEF LogInv, LogTypeOK
<1>4. ASSUME NEW r \in Runs
      PROVE  runs'[r] \in Run /\ runs'[r].streamed = runs[r].streamed
  <2>1. runs[r] \in Run
    BY <1>0
  <2>2. QED
    BY <1>1, <2>1 DEF Run
<1>5. runs' \in [Runs -> Run]
  BY <1>1, <1>4
<1>6. LogTypeOK' /\ (retentionFloor <= Len(events) + 1)'
  BY <1>0, <1>1, <1>2, <1>3, <1>5, EventLogAssumption DEF LogTypeOK
<1>7. MessagesStreamed'
  <2>0. \A s \in 1 .. Len(events) : events[s] \in Event
    BY <1>0, ElementOfSeq
  <2>1. \A s \in 1 .. Len(events) : events[s].run \in Runs
    BY <2>0 DEF Event
  <2>2. QED
    BY <1>1, <1>4, <2>1 DEF LogInv, MessagesStreamed
<1>8. LogGrows
  BY <1>0, <1>1, <1>2, <1>3, <1>4 DEF LogGrows
<1>9. QED
  BY <1>0, <1>1, <1>2, <1>6, <1>7, <1>8 DEF LogInv

LEMMA LogStutters ==
  ASSUME LogInv, UNCHANGED logVars
  PROVE  LogInv' /\ LogGrows
<1>1. Len(events) \in Nat /\ retentionFloor \in Nat
  BY LenProperties DEF LogInv, LogTypeOK
<1>2. QED
  BY <1>1 DEF logVars, LogInv, LogTypeOK, MessagesStreamed, LogGrows

-----------------------------------------------------------------------------
(* Consumers: a batch continues its checkpoint, and the checkpoint is      *)
(* never behind what compaction has kept                                   *)

Reading(c) == sub[c].at \in {"handling", "advancing"}

\* The cursor of a subscription is the checkpoint, which is in the log.
Positioned(c) ==
  /\ checkpoint[c] <= Len(events)
  /\ sub[c].at # "off" => sub[c].cursor = checkpoint[c]
  /\ ~Expired(checkpoint[c])
  /\ sub[c].waterline <= Len(events)

\* A batch has no gaps.  Without a checkpoint nothing protects its events from
\* compaction, so it may begin before what is retained.
BatchFollows(c) ==
  LET b == sub[c].batch IN
  Reading(c) =>
    /\ b # <<>> /\ 1 <= b[1] /\ b[Len(b)] <= Len(events)
    /\ \A i \in 1 .. Len(b) : b[i] = b[1] + i - 1
    /\ IF checkpoint[c] = NoCursor THEN b[1] <= retentionFloor ELSE b[1] = checkpoint[c] + 1
    /\ sub[c].at = "advancing" => b[1] \in handled[c]

\* One event at most is handled beyond the checkpoint.
HandledSoFar(c) ==
  \A h \in handled[c] :
    /\ h <= (IF checkpoint[c] = NoCursor THEN retentionFloor ELSE checkpoint[c] + 1)
    /\ Reading(c) => h <= sub[c].batch[1]

CheckpointVouches(c) ==
  /\ \A e \in retentionFloor .. checkpoint[c] : e \in handled[c]
  /\ CaughtUp(c) => \A e \in retentionFloor .. sub[c].waterline : e \in handled[c]

Delivering(c) ==
  Positioned(c) /\ BatchFollows(c) /\ HandledSoFar(c) /\ CheckpointVouches(c)

ConsumerInv == ConsumerTypeOK /\ \A c \in Consumer : Delivering(c)

Subscription == [at: {"off", "polling", "handling", "advancing"},
                 cursor: Cursor, batch: Seq(Cursor), waterline: Cursor,
                 caughtUp: {"pending", "resolved", "rejected"}, aborted: BOOLEAN]

LEMMA LogNumbers ==
  ASSUME LogInv
  PROVE  /\ Len(events) \in Nat /\ Len(events) <= MaxEvents /\ MaxEvents \in Nat
         /\ retentionFloor \in Nat /\ 1 <= retentionFloor /\ retentionFloor <= Len(events) + 1
<1>1. Len(events) \in Nat
  BY LenProperties DEF LogInv, LogTypeOK
<1>2. QED
  BY <1>1, EventLogAssumption DEF LogInv, LogTypeOK

LEMMA ConsumerTypes ==
  ASSUME ConsumerTypeOK, NEW c \in Consumer
  PROVE  /\ checkpoint[c] \in 0 .. MaxEvents
         /\ sub[c] \in Subscription
         /\ handled[c] \subseteq 1 .. MaxEvents
         /\ Len(sub[c].batch) \in Nat
<1>1. sub[c] \in Subscription
  BY DEF ConsumerTypeOK, Subscription
<1>2. sub[c].batch \in Seq(Cursor)
  BY <1>1 DEF Subscription
<1>3. Len(sub[c].batch) \in Nat
  BY <1>2, LenProperties
<1>4. QED
  BY <1>1, <1>3 DEF ConsumerTypeOK, Cursor

LEMMA OffTyped == LogInv => Off \in Subscription
  BY LogNumbers DEF Off, Subscription, NoCursor, Cursor

\* A subscription ends in a step that does not make it caught up.
Leaves(c) ==
  /\ sub'[c].at = "off"
  /\ sub'[c].waterline \in {0, sub[c].waterline}
  /\ CaughtUp(c)' => CaughtUp(c) /\ sub'[c].waterline = sub[c].waterline

\* What is left of a subscription.
LEMMA LeftTyped ==
  ASSUME LogInv, ConsumerTypeOK, NEW c \in Consumer,
         NEW outcome \in {"pending", "resolved", "rejected"}
  PROVE  LET s == Left(c, outcome) IN
         /\ s \in Subscription
         /\ s.at = "off" /\ s.aborted = sub[c].aborted
         /\ s.waterline \in {0, sub[c].waterline}
         /\ s.caughtUp = "resolved" => s.waterline = sub[c].waterline
         /\ s.caughtUp = "resolved" /\ outcome # "resolved" => sub[c].caughtUp = "resolved"
<1>1. sub[c] \in Subscription
  BY ConsumerTypes
<1>2. Off \in Subscription /\ Off.waterline = 0
  BY OffTyped DEF Off
<1>3. Settled(c, outcome) \in {"pending", "resolved", "rejected"}
  BY <1>1 DEF Settled, Subscription
<1>4. QED
  BY <1>1, <1>2, <1>3 DEF Left, Off, Settled, Subscription

\* A consumer that does nothing while the log grows keeps what it has, as long
\* as compaction does not pass its checkpoint.
LEMMA Waits ==
  ASSUME LogInv, LogInv', LogGrows, ConsumerTypeOK, NEW c \in Consumer, Delivering(c),
         checkpoint'[c] = checkpoint[c], handled'[c] = handled[c],
         sub'[c] = sub[c] \/ Leaves(c),
         checkpoint[c] # NoCursor => retentionFloor' - 1 <= checkpoint[c]
  PROVE  Delivering(c)'
<1>1. /\ Len(events) \in Nat /\ Len(events') \in Nat /\ Len(events) <= Len(events')
      /\ retentionFloor \in Nat /\ retentionFloor' \in Nat /\ retentionFloor <= retentionFloor'
  BY LogNumbers DEF LogInv, LogTypeOK, LogGrows
<1>2. /\ checkpoint[c] \in Nat /\ sub[c] \in Subscription /\ handled[c] \subseteq Nat
      /\ Len(sub[c].batch) \in Nat
  BY ConsumerTypes
<1>3. sub[c].waterline \in Cursor /\ sub[c].batch \in Seq(Cursor) /\ Cursor \subseteq Nat
  BY <1>2, EventLogAssumption DEF Subscription, Cursor
<1>w. sub[c].waterline \in Nat
  BY <1>3
<1>4. Positioned(c)'
  BY <1>1, <1>2, <1>w DEF Delivering, Positioned, Expired, NoCursor, Leaves
<1>5. BatchFollows(c)'
  <2>1. CASE Leaves(c)
    BY <2>1 DEF BatchFollows, Reading, Leaves
  <2>2. CASE sub'[c] = sub[c]
    <3>1. Reading(c) => sub[c].batch[Len(sub[c].batch)] \in Nat /\ sub[c].batch[1] \in Nat
      <4> DEFINE b == sub[c].batch
      <4> SUFFICES ASSUME Reading(c) PROVE b[Len(b)] \in Nat /\ b[1] \in Nat
        OBVIOUS
      <4>1. b # <<>> /\ b \in Seq(Cursor)
        BY <1>3 DEF Delivering, BatchFollows
      <4> HIDE DEF b
      <4>2. Len(b) \in Nat \ {0}
        BY <4>1, EmptySeq
      <4>3. 1 \in 1 .. Len(b) /\ Len(b) \in 1 .. Len(b)
        BY <4>2
      <4>4. b[1] \in Cursor /\ b[Len(b)] \in Cursor
        BY <4>1, <4>3, ElementOfSeq
      <4>5. QED
        BY <1>3, <4>4
    <3>2. QED
      BY <1>1, <1>2, <2>2, <3>1 DEF Delivering, BatchFollows, Reading
  <2>3. QED
    BY <2>1, <2>2
<1>6. HandledSoFar(c)'
  BY <1>1, <1>2 DEF Delivering, HandledSoFar, Reading, Leaves
<1>7. CheckpointVouches(c)'
  BY <1>1, <1>2, <1>w DEF Delivering, CheckpointVouches, CaughtUp, Leaves
<1>8. QED
  BY <1>4, <1>5, <1>6, <1>7 DEF Delivering

\* What is read after a cursor that is not expired.
LEMMA Listed ==
  ASSUME LogInv, NEW cursor \in 0 .. Len(events)
  PROVE  LET b == ListEvents(cursor) IN
         /\ b \in Seq(1 .. Len(events))
         /\ Len(b) = Len(events) - After(cursor)
         /\ After(cursor) \in Nat /\ cursor <= After(cursor)
         /\ \A i \in 1 .. Len(b) : b[i] = After(cursor) + i
<1> DEFINE n == Len(events) - After(cursor)
<1>1. n \in Nat /\ After(cursor) \in Nat /\ Len(events) \in Nat /\ cursor <= After(cursor)
  BY LogNumbers DEF After, NoCursor
<1>2. ListEvents(cursor) \in [1 .. n -> 1 .. Len(events)]
  BY <1>1 DEF ListEvents
<1> HIDE DEF n
<1>3. ListEvents(cursor) \in Seq(1 .. Len(events)) /\ Len(ListEvents(cursor)) = n
  BY <1>1, <1>2, FunctionSeq
<1>4. \A i \in 1 .. n : ListEvents(cursor)[i] = After(cursor) + i
  BY DEF ListEvents, n
<1>5. QED
  BY <1>1, <1>3, <1>4 DEF n

\* The head of a batch is what is handled next, and its tail what remains.
LEMMA BatchParts ==
  ASSUME LogInv, ConsumerInv, NEW c \in Consumer, Reading(c)
  PROVE  LET b == sub[c].batch IN
         /\ b \in Seq(Cursor) /\ Len(b) \in Nat \ {0}
         /\ Head(b) = b[1] /\ b[1] \in 1 .. Len(events)
         /\ b[Len(b)] = b[1] + Len(b) - 1
         /\ Tail(b) \in Seq(Cursor) /\ Len(Tail(b)) = Len(b) - 1
         /\ \A i \in 1 .. Len(b) - 1 : Tail(b)[i] = b[i + 1]
<1> DEFINE b == sub[c].batch
<1>1. b \in Seq(Cursor) /\ b # <<>>
  BY ConsumerTypes DEF Subscription, ConsumerInv, Delivering, BatchFollows
<1>2. Len(b) \in Nat \ {0}
  BY <1>1, EmptySeq
<1>3. /\ 1 <= b[1] /\ b[Len(b)] <= Len(events)
      /\ \A i \in 1 .. Len(b) : b[i] = b[1] + i - 1
  BY DEF ConsumerInv, Delivering, BatchFollows
<1> HIDE DEF b
<1>4. Tail(b) \in Seq(Cursor) /\ Len(Tail(b)) = Len(b) - 1
      /\ \A i \in 1 .. Len(b) - 1 : Tail(b)[i] = b[i + 1]
  BY <1>1, <1>2, HeadTailProperties
<1>5. b[1] \in Cursor /\ Len(b) \in 1 .. Len(b)
  BY <1>1, <1>2, ElementOfSeq
<1>6. b[Len(b)] = b[1] + Len(b) - 1
  BY <1>3, <1>5
<1>7. b[1] \in 1 .. Len(events)
  BY <1>2, <1>3, <1>5, <1>6, LogNumbers DEF Cursor
<1>8. Head(b) = b[1]
  BY <1>1
<1>9. QED
  BY <1>1, <1>2, <1>4, <1>6, <1>7, <1>8 DEF b

\* The steps of one consumer leave the log and the other consumers alone.
LEMMA OneConsumer ==
  ASSUME LogInv, ConsumerInv, UNCHANGED logVars, NEW c \in Consumer,
         ConsumerTypeOK', Delivering(c)',
         \A d \in Consumer \ {c} : /\ checkpoint'[d] = checkpoint[d]
                                   /\ handled'[d] = handled[d]
                                   /\ sub'[d] = sub[d]
  PROVE  ConsumerInv'
<1>1. LogInv' /\ LogGrows
  BY LogStutters
<1>2. ASSUME NEW d \in Consumer \ {c} PROVE Delivering(d)'
  <2>1. checkpoint[d] # NoCursor => retentionFloor' - 1 <= checkpoint[d]
    BY ConsumerTypes, LogNumbers DEF ConsumerInv, Delivering, Positioned, Expired, logVars
  <2>2. QED
    BY <1>1, <2>1, Waits DEF ConsumerInv
<1>3. QED
  BY <1>2 DEF ConsumerInv

LEMMA SubTyped == ConsumerTypeOK => sub \in [Consumer -> Subscription]
  BY DEF ConsumerTypeOK, Subscription

\* A step that changes no more than one subscription.
LEMMA Resubscribed ==
  ASSUME LogInv, ConsumerInv, NEW c \in Consumer, NEW s \in Subscription,
         sub' = [sub EXCEPT ![c] = s],
         UNCHANGED <<logVars, checkpoint, reports, restarts, handled>>,
         Delivering(c)'
  PROVE  ConsumerInv'
<1>1. sub' \in [Consumer -> Subscription] /\ \A d \in Consumer \ {c} : sub'[d] = sub[d]
  BY SubTyped DEF ConsumerInv
<1>2. ConsumerTypeOK'
  BY <1>1 DEF ConsumerInv, ConsumerTypeOK, Subscription, logVars
<1>3. QED
  BY <1>1, <1>2, OneConsumer

LEMMA ConsumeKeeps ==
  ASSUME LogInv, ConsumerInv, NEW c \in Consumer, Consume(c)
  PROVE  ConsumerInv'
<1> DEFINE opened == [Off EXCEPT !.at = "polling", !.cursor = ResumeFrom(c), !.waterline = Len(events)]
<1>1. /\ checkpoint[c] \in Cursor /\ Len(events) \in Cursor
      /\ retentionFloor \in Nat /\ Len(events) \in Nat
  BY ConsumerTypes, LogNumbers DEF ConsumerInv, Cursor
<1>2. opened \in Subscription
  BY <1>1, OffTyped DEF Off, Subscription, ResumeFrom
<1>3. /\ sub' = [sub EXCEPT ![c] = opened]
      /\ UNCHANGED <<logVars, checkpoint, reports, restarts, handled>>
  BY DEF Consume
<1>4. sub'[c] = opened
  BY <1>3, SubTyped DEF ConsumerInv
<1>5. Delivering(c)'
  BY <1>1, <1>3, <1>4
  DEF ConsumerInv, Delivering, Positioned, BatchFollows, HandledSoFar, CheckpointVouches, CaughtUp,
      Reading, Expired, ResumeFrom, Off, logVars
<1>6. QED
  BY <1>2, <1>3, <1>5, Resubscribed

LEMMA PollKeeps ==
  ASSUME LogInv, ConsumerInv, NEW c \in Consumer, Poll(c)
  PROVE  ConsumerInv'
<1> DEFINE batch == ListEvents(sub[c].cursor)
           caught == [sub[c] EXCEPT !.caughtUp = Settled(c, "resolved")]
           reading == [sub[c] EXCEPT !.at = "handling", !.batch = batch]
<1>1. /\ checkpoint[c] \in 0 .. Len(events) /\ sub[c].cursor = checkpoint[c]
      /\ ~Expired(sub[c].cursor) /\ sub[c].at = "polling"
  BY ConsumerTypes, LogNumbers DEF ConsumerInv, Delivering, Positioned, Poll
<1>2. /\ sub[c] \in Subscription /\ handled[c] \subseteq Nat
      /\ retentionFloor \in Nat /\ Len(events) \in Nat /\ Len(events) <= MaxEvents /\ MaxEvents \in Nat
      /\ 1 <= retentionFloor /\ retentionFloor <= Len(events) + 1
  BY ConsumerTypes, LogNumbers DEF ConsumerInv
<1>3. sub[c].waterline \in Nat
  BY <1>2 DEF Subscription, Cursor
<1>4. /\ batch \in Seq(1 .. Len(events))
      /\ Len(batch) = Len(events) - After(checkpoint[c])
      /\ \A i \in 1 .. Len(batch) : batch[i] = After(checkpoint[c]) + i
      /\ After(checkpoint[c]) = IF checkpoint[c] = 0 THEN retentionFloor - 1 ELSE checkpoint[c]
  BY <1>1, Listed DEF After, NoCursor
<1>5. UNCHANGED <<logVars, checkpoint, reports, restarts, handled>>
  BY DEF Poll
<1>6. CASE batch = <<>>
  <2>1. sub' = [sub EXCEPT ![c] = caught] /\ caught \in Subscription
    <3>1. caught \in Subscription
      BY <1>2 DEF Subscription, Settled
    <3> QED BY <1>1, <1>6, <3>1 DEF Poll, Unread
  <2>2. sub'[c] = caught
    BY <2>1, SubTyped DEF ConsumerInv
  <2>3. After(checkpoint[c]) = Len(events)
    BY <1>1, <1>2, <1>4, <1>6
  <2>4. CheckpointVouches(c)'
    BY <1>1, <1>2, <1>3, <1>4, <1>5, <2>2, <2>3
    DEF ConsumerInv, Delivering, Positioned, CheckpointVouches, CaughtUp, logVars, Subscription
  <2>5. Positioned(c)' /\ BatchFollows(c)' /\ HandledSoFar(c)'
    BY <1>1, <1>2, <1>5, <2>2
    DEF ConsumerInv, Delivering, Positioned, BatchFollows, HandledSoFar, Reading, Expired, logVars,
        Subscription
  <2>6. QED
    BY <1>5, <2>1, <2>4, <2>5, Resubscribed DEF Delivering
<1>7. CASE batch # <<>>
  <2>0. batch \in Seq(Cursor)
    BY <1>2, <1>4, SeqMonotonic DEF Cursor
  <2>1. sub' = [sub EXCEPT ![c] = reading] /\ reading \in Subscription
    <3> HIDE DEF batch
    <3>1. reading \in Subscription
      BY <1>2, <2>0 DEF Subscription
    <3>2. QED
      BY <1>1, <1>7, <3>1 DEF Poll, Unread, batch
  <2>2. sub'[c] = reading
    BY <2>1, SubTyped DEF ConsumerInv
  <2>3. sub'[c].batch = batch /\ sub'[c].at = "handling" /\ sub'[c].cursor = checkpoint[c]
        /\ sub'[c].waterline = sub[c].waterline /\ sub'[c].caughtUp = sub[c].caughtUp
    BY <1>1, <1>2, <2>2 DEF Subscription
  <2>4. Len(batch) \in Nat \ {0}
    BY <1>4, <1>7, EmptySeq
  <2> HIDE DEF batch, reading
  <2>5. Positioned(c)' /\ HandledSoFar(c)' /\ CheckpointVouches(c)' /\ BatchFollows(c)'
    <3>0. /\ batch[1] = After(checkpoint[c]) + 1 /\ batch[Len(batch)] = After(checkpoint[c]) + Len(batch)
          /\ After(checkpoint[c]) \in Nat
      <4>1. 1 \in 1 .. Len(batch) /\ Len(batch) \in 1 .. Len(batch)
        BY <2>4
      <4>2. After(checkpoint[c]) \in Nat
        BY <1>1, <1>2, <1>4
      <4>3. QED
        BY <1>4, <2>4, <4>1, <4>2
    <3>1. Positioned(c)' /\ CheckpointVouches(c)'
      BY <1>1, <1>2, <1>5, <2>3
      DEF ConsumerInv, Delivering, Positioned, CheckpointVouches, CaughtUp, Expired, logVars
    <3>2. BatchFollows(c)'
      <4>1. \A i \in 1 .. Len(batch) : batch[i] = batch[1] + i - 1
        <5> SUFFICES ASSUME NEW i \in 1 .. Len(batch) PROVE batch[i] = batch[1] + i - 1
          OBVIOUS
        <5>1. batch[i] = After(checkpoint[c]) + i /\ i \in Nat
          BY <1>4, <2>4
        <5>2. QED
          BY <3>0, <5>1
      <4>2. /\ batch # <<>> /\ 1 <= batch[1] /\ batch[Len(batch)] <= Len(events)
            /\ IF checkpoint[c] = NoCursor THEN batch[1] <= retentionFloor ELSE batch[1] = checkpoint[c] + 1
        <5>1. Len(batch) = Len(events) - After(checkpoint[c])
          BY <1>4
        <5>2. After(checkpoint[c]) + 1 =
                IF checkpoint[c] = 0 THEN retentionFloor ELSE checkpoint[c] + 1
          BY <1>1, <1>2, <1>4
        <5>3. batch[Len(batch)] <= Len(events)
          BY <1>2, <2>4, <3>0, <5>1
        <5>4. QED
          BY <1>2, <1>7, <3>0, <5>2, <5>3 DEF NoCursor
      <4>3. UNCHANGED <<events, retentionFloor, checkpoint>>
        BY <1>5 DEF logVars
      <4>4. QED
        BY <2>3, <4>1, <4>2, <4>3, Zenon DEF BatchFollows
    <3>3. HandledSoFar(c)'
      BY <1>1, <1>2, <1>4, <1>5, <2>3, <3>0
      DEF ConsumerInv, Delivering, HandledSoFar, NoCursor, logVars
    <3>4. QED
      BY <3>1, <3>2, <3>3
  <2>6. QED
    BY <1>5, <2>1, <2>5, Resubscribed DEF Delivering
<1>8. QED
  BY <1>6, <1>7

LEMMA ReportsTyped ==
  ASSUME ConsumerTypeOK, NEW c \in Consumer, Handle(c)
  PROVE  reports' \in [Runs \X Interactions -> {"none", "withCall", "withoutCall"}]
<1>1. DOMAIN reports = Runs \X Interactions
  BY DEF ConsumerTypeOK
<1>2. CASE c \in Reporter
  BY <1>1, <1>2 DEF Handle, Report, ConsumerTypeOK
<1>3. CASE c \notin Reporter
  BY <1>3 DEF Handle, ConsumerTypeOK
<1>4. QED
  BY <1>2, <1>3

LEMMA HandleKeeps ==
  ASSUME LogInv, ConsumerInv, NEW c \in Consumer, Handle(c)
  PROVE  ConsumerInv'
<1> DEFINE b == sub[c].batch
           done == [sub[c] EXCEPT !.at = "advancing"]
<1>1. /\ sub[c].at = "handling"
      /\ handled' = [handled EXCEPT ![c] = @ \union {Head(b)}]
      /\ sub' = [sub EXCEPT ![c].at = "advancing"]
      /\ UNCHANGED <<logVars, checkpoint, restarts>>
  BY DEF Handle
<1>2. Reading(c)
  BY <1>1 DEF Reading
<1>3. /\ Head(b) = b[1] /\ b[1] \in 1 .. Len(events)
  BY <1>2, BatchParts
<1>4. /\ sub \in [Consumer -> Subscription] /\ sub[c] \in Subscription
      /\ handled \in [Consumer -> SUBSET (1 .. MaxEvents)]
  BY SubTyped DEF ConsumerInv, ConsumerTypeOK
<1>5. /\ Len(events) \in Nat /\ Len(events) <= MaxEvents /\ MaxEvents \in Nat
      /\ retentionFloor \in Nat /\ checkpoint[c] \in Nat /\ sub[c].waterline \in Nat
  BY <1>4, LogNumbers, ConsumerTypes DEF ConsumerInv, Subscription, Cursor
<1>6. /\ sub' = [sub EXCEPT ![c] = done] /\ sub'[c] = done /\ done \in Subscription
      /\ sub' \in [Consumer -> Subscription]
      /\ \A d \in Consumer \ {c} : sub'[d] = sub[d]
  BY <1>1, <1>4 DEF Subscription
<1>7. /\ done.at = "advancing" /\ done.batch = b /\ done.cursor = sub[c].cursor
      /\ done.waterline = sub[c].waterline /\ done.caughtUp = sub[c].caughtUp
  BY <1>4 DEF Subscription
<1> HIDE DEF done
<1>8. /\ handled' \in [Consumer -> SUBSET (1 .. MaxEvents)]
      /\ handled'[c] = handled[c] \union {b[1]}
      /\ \A d \in Consumer \ {c} : handled'[d] = handled[d]
  BY <1>1, <1>3, <1>4, <1>5
<1>9. ConsumerTypeOK'
  BY <1>1, <1>6, <1>8, ReportsTyped DEF ConsumerInv, ConsumerTypeOK, Subscription, logVars
<1>10. Delivering(c)'
  <2>0. /\ sub'[c].at = "advancing" /\ sub'[c].batch = b /\ sub'[c].cursor = sub[c].cursor
        /\ sub'[c].waterline = sub[c].waterline /\ sub'[c].caughtUp = sub[c].caughtUp
    BY <1>6, <1>7
  <2>1. Delivering(c) /\ UNCHANGED <<events, retentionFloor, checkpoint>>
    BY <1>1 DEF ConsumerInv, logVars
  <2>2. Positioned(c)'
    BY <1>1, <2>0, <2>1 DEF Delivering, Positioned, Expired
  <2>3. BatchFollows(c)'
    BY <1>2, <1>8, <2>0, <2>1, Zenon DEF Delivering, BatchFollows
  <2>4. /\ b[1] <= (IF checkpoint[c] = NoCursor THEN retentionFloor ELSE checkpoint[c] + 1)
    BY <1>2, <1>3, <1>5, <2>1 DEF Delivering, BatchFollows
  <2>5. HandledSoFar(c)'
    BY <1>2, <1>3, <1>8, <2>0, <2>1, <2>4 DEF Delivering, HandledSoFar
  <2>6. CheckpointVouches(c)'
    BY <1>1, <1>8, <2>0, <2>1 DEF Delivering, CheckpointVouches, CaughtUp
  <2>7. QED
    BY <2>2, <2>3, <2>5, <2>6 DEF Delivering
<1>11. QED
  BY <1>1, <1>6, <1>8, <1>9, <1>10, OneConsumer

\* A subscription that ends keeps everything durable as it is.
LEMMA Ends ==
  ASSUME LogInv, ConsumerInv, NEW c \in Consumer, NEW s \in Subscription,
         sub' = [sub EXCEPT ![c] = s], Leaves(c),
         UNCHANGED <<logVars, checkpoint, reports, restarts, handled>>
  PROVE  ConsumerInv'
<1>1. LogInv' /\ LogGrows
  BY LogStutters
<1>2. checkpoint[c] # NoCursor => retentionFloor' - 1 <= checkpoint[c]
  BY ConsumerTypes, LogNumbers DEF ConsumerInv, Delivering, Positioned, Expired, logVars
<1>3. Delivering(c)'
  BY <1>1, <1>2, Waits DEF ConsumerInv
<1>4. QED
  BY <1>3, Resubscribed

LEMMA ListenerGivesUpKeeps ==
  ASSUME LogInv, ConsumerInv, NEW c \in Consumer, ListenerGivesUp(c)
  PROVE  ConsumerInv'
<1> DEFINE s == Left(c, "pending")
<1>1. /\ s \in Subscription /\ s.at = "off" /\ s.aborted = sub[c].aborted
      /\ s.waterline \in {0, sub[c].waterline}
  BY LeftTyped DEF ConsumerInv
<1>2. /\ sub' = [sub EXCEPT ![c] = s] /\ sub[c].aborted
      /\ UNCHANGED <<logVars, checkpoint, reports, restarts, handled>>
  BY DEF ListenerGivesUp
<1> HIDE DEF s
<1>3. sub'[c] = s
  BY <1>2, SubTyped DEF ConsumerInv
<1>4. QED
  BY <1>1, <1>2, <1>3, Ends DEF Leaves, CaughtUp

LEMMA StopKeeps ==
  ASSUME LogInv, ConsumerInv, NEW c \in Consumer, Stop(c)
  PROVE  ConsumerInv'
<1> DEFINE aborted == [sub[c] EXCEPT !.aborted = TRUE]
<1>1. CASE sub[c].at = "polling"
  <2>1. PICK outcome \in {"pending", "resolved", "rejected"} :
          sub' = [sub EXCEPT ![c] = [Left(c, outcome) EXCEPT !.aborted = TRUE]]
    BY <1>1 DEF Stop
  <2> DEFINE gone == Left(c, outcome)
             s == [gone EXCEPT !.aborted = TRUE]
  <2>2. gone \in Subscription /\ gone.at = "off" /\ gone.waterline \in {0, sub[c].waterline}
    BY LeftTyped DEF ConsumerInv
  <2>3. sub' = [sub EXCEPT ![c] = s]
    BY <2>1
  <2> HIDE DEF gone
  <2>4. /\ s \in Subscription /\ s.at = "off" /\ s.aborted
        /\ s.waterline \in {0, sub[c].waterline}
    BY <2>2 DEF Subscription
  <2> HIDE DEF s
  <2>5. sub'[c] = s
    BY <2>3, SubTyped DEF ConsumerInv
  <2>6. UNCHANGED <<logVars, checkpoint, reports, restarts, handled>>
    BY DEF Stop
  <2>7. QED
    BY <2>3, <2>4, <2>5, <2>6, Ends DEF Leaves, CaughtUp
<1>2. CASE sub[c].at # "polling"
  <2>1. sub' = [sub EXCEPT ![c] = aborted]
    BY <1>2 DEF Stop
  <2>2. sub[c] \in Subscription
    BY ConsumerTypes DEF ConsumerInv
  <2>3. /\ aborted \in Subscription
        /\ aborted.at = sub[c].at /\ aborted.batch = sub[c].batch
        /\ aborted.cursor = sub[c].cursor
        /\ aborted.waterline = sub[c].waterline /\ aborted.caughtUp = sub[c].caughtUp
    BY <2>2 DEF Subscription
  <2> HIDE DEF aborted
  <2>4. sub'[c] = aborted
    BY <2>1, SubTyped DEF ConsumerInv
  <2>5. UNCHANGED <<logVars, checkpoint, reports, restarts, handled>>
    BY DEF Stop
  <2>6. Delivering(c) /\ UNCHANGED <<events, retentionFloor, checkpoint, handled>>
    BY <2>5 DEF ConsumerInv, logVars
  <2>7. Positioned(c)' /\ HandledSoFar(c)' /\ CheckpointVouches(c)'
    BY <2>3, <2>4, <2>6
    DEF Stop, Delivering, Positioned, HandledSoFar, CheckpointVouches, CaughtUp, Expired, Reading
  <2>8. BatchFollows(c)'
    BY <2>3, <2>4, <2>6 DEF Delivering, BatchFollows, Reading
  <2>9. QED
    BY <2>1, <2>3, <2>5, <2>7, <2>8, Resubscribed DEF Delivering
<1>3. QED
  BY <1>1, <1>2

LEMMA AdvanceKeeps ==
  ASSUME LogInv, ConsumerInv, NEW c \in Consumer, Advance(c)
  PROVE  ConsumerInv'
<1> DEFINE b == sub[c].batch
           e == b[1]
           rest == Tail(b)
<1>1. sub[c].at = "advancing" /\ UNCHANGED <<logVars, reports, restarts, handled>> /\ Reading(c)
  BY DEF Advance, Reading
<1>2. /\ b \in Seq(Cursor) /\ Len(b) \in Nat \ {0}
      /\ Head(b) = e /\ e \in 1 .. Len(events)
      /\ b[Len(b)] = e + Len(b) - 1
      /\ rest \in Seq(Cursor) /\ Len(rest) = Len(b) - 1
      /\ \A i \in 1 .. Len(b) - 1 : rest[i] = b[i + 1]
  BY <1>1, BatchParts
<1>3. /\ sub \in [Consumer -> Subscription] /\ sub[c] \in Subscription
      /\ checkpoint \in [Consumer -> Cursor]
  BY SubTyped DEF ConsumerInv, ConsumerTypeOK
<1>4. /\ Len(events) \in Nat /\ Len(events) <= MaxEvents /\ MaxEvents \in Nat
      /\ retentionFloor \in Nat /\ checkpoint[c] \in Nat /\ sub[c].waterline \in Nat
      /\ handled[c] \subseteq Nat
  BY <1>3, LogNumbers, ConsumerTypes DEF ConsumerInv, Subscription, Cursor
<1>n. e \in Nat /\ 1 <= e /\ e <= Len(events)
  BY <1>2, <1>4
<1>5. CASE e < retentionFloor - 1
  <2> DEFINE s == Left(c, "rejected")
  <2>1. sub' = [sub EXCEPT ![c] = s] /\ UNCHANGED checkpoint
    BY <1>2, <1>5 DEF Advance, Acknowledged
  <2>2. /\ s \in Subscription /\ s.at = "off" /\ s.aborted = sub[c].aborted
        /\ s.waterline \in {0, sub[c].waterline}
        /\ s.caughtUp = "resolved" => /\ sub[c].caughtUp = "resolved"
                                      /\ s.waterline = sub[c].waterline
    BY LeftTyped DEF ConsumerInv
  <2> HIDE DEF s
  <2>3. sub'[c] = s
    BY <1>3, <2>1
  <2>4. Leaves(c)
    BY <1>1, <2>2, <2>3 DEF Leaves, CaughtUp
  <2>5. QED
    BY <1>1, <2>1, <2>2, <2>4, Ends
<1>6. CASE ~(e < retentionFloor - 1)
  <2> DEFINE outcome == IF AtWaterline(c, e) THEN "resolved" ELSE "pending"
             next == [sub[c] EXCEPT !.at = IF rest = <<>> THEN "polling" ELSE "handling",
                                    !.cursor = e, !.batch = rest,
                                    !.caughtUp = Settled(c, outcome)]
             gone == Left(c, IF rest = <<>> THEN "resolved" ELSE outcome)
             s == IF sub[c].aborted THEN gone ELSE next
  <2>1. /\ checkpoint' = [checkpoint EXCEPT ![c] = IF e > @ THEN e ELSE @]
        /\ sub' = [sub EXCEPT ![c] = s]
    <3>1. Acknowledged(c) = e
      BY <1>2 DEF Acknowledged
    <3>2. checkpoint' = [checkpoint EXCEPT ![c] = IF e > @ THEN e ELSE @]
      BY <1>6, <3>1 DEF Advance
    <3>3. sub' = [sub EXCEPT ![c] = s]
      BY <1>6, <3>1 DEF Advance
    <3>4. QED
      BY <3>2, <3>3
  <2>2. /\ Delivering(c)
        /\ IF checkpoint[c] = 0 THEN e <= retentionFloor ELSE e = checkpoint[c] + 1
        /\ e \in handled[c] /\ \A h \in handled[c] : h <= e
        /\ b[Len(b)] <= Len(events) /\ \A i \in 1 .. Len(b) : b[i] = e + i - 1
    BY <1>1 DEF ConsumerInv, Delivering, BatchFollows, HandledSoFar, NoCursor
  <2>3. checkpoint'[c] = e /\ \A d \in Consumer \ {c} : checkpoint'[d] = checkpoint[d]
    BY <1>2, <1>3, <1>4, <2>1, <2>2
  <2>4. checkpoint' \in [Consumer -> Cursor]
    <3> HIDE DEF e, s
    <3>1. e \in Cursor
      BY ONLY <1>n, <1>4 DEF Cursor
    <3>2. QED
      BY <1>3, <2>1, <3>1
  <2>5. /\ next \in Subscription
        /\ next.at = IF rest = <<>> THEN "polling" ELSE "handling"
        /\ next.cursor = e /\ next.batch = rest /\ next.waterline = sub[c].waterline
        /\ next.caughtUp = "resolved" => sub[c].caughtUp = "resolved" \/ e >= sub[c].waterline
    <3> HIDE DEF rest
    <3> HIDE DEF e
    <3>1. e \in Cursor
      BY ONLY <1>n, <1>4 DEF Cursor
    <3>2. QED
      BY <1>2, <1>3, <3>1 DEF Subscription, AtWaterline, Settled
  <2>g. gone \in Subscription /\ gone.at = "off" /\ gone.aborted = sub[c].aborted
        /\ gone.waterline \in {0, sub[c].waterline}
    BY LeftTyped DEF ConsumerInv
  <2>6. ASSUME sub[c].aborted PROVE Delivering(c)'
    <3>1. /\ sub'[c].at = "off" /\ sub'[c].aborted
          /\ sub'[c].waterline <= Len(events)
      <4>1. sub'[c] = gone
        BY <1>3, <2>1, <2>6
      <4>2. sub[c].waterline <= Len(events)
        BY <2>2 DEF Delivering, Positioned
      <4>3. UNCHANGED events
        BY <1>1 DEF logVars
      <4> HIDE DEF gone, next, s, e
      <4>4. sub'[c].at = "off" /\ sub'[c].aborted
        BY <2>6, <2>g, <4>1, Zenon
      <4>5. sub'[c].waterline <= Len(events)
        BY <1>4, <2>g, <4>1, <4>2
      <4>6. QED
        BY <4>4, <4>5
    <3>2. Positioned(c)' /\ HandledSoFar(c)' /\ BatchFollows(c)'
      <4> HIDE DEF e, s, next
      <4>1. QED
        BY <1>1, <1>n, <1>4, <1>6, <2>2, <2>3, <3>1
        DEF Positioned, HandledSoFar, BatchFollows, Reading, Expired, logVars, NoCursor
    <3>3. CheckpointVouches(c)'
      <4> HIDE DEF e, s, next
      <4>1. UNCHANGED <<events, retentionFloor, handled>>
        BY <1>1 DEF logVars
      <4>2. \A x \in retentionFloor .. e : x \in handled[c]
        BY <1>n, <1>4, <2>2 DEF Delivering, CheckpointVouches
      <4>3. QED
        BY <2>3, <3>1, <4>1, <4>2 DEF CheckpointVouches, CaughtUp
    <3>4. QED
      BY <3>1, <3>2, <3>3 DEF Delivering
  <2>7. ASSUME ~sub[c].aborted PROVE Delivering(c)'
    <3>1. s = next /\ sub'[c] = next
      BY <1>3, <2>1, <2>7
    <3> HIDE DEF next, s, rest
    <3>2. UNCHANGED <<events, retentionFloor, handled>>
      BY <1>1 DEF logVars
    <3>3. Positioned(c)'
      BY <1>2, <1>4, <1>6, <2>2, <2>3, <2>5, <3>1, <3>2 DEF Delivering, Positioned, Expired, NoCursor
    <3>4. CheckpointVouches(c)'
      <4> HIDE DEF e
      <4>1. \A x \in retentionFloor .. e : x \in handled[c]
        BY <1>n, <1>4, <2>2 DEF Delivering, CheckpointVouches
      <4>2. QED
        BY <1>1, <1>n, <1>4, <2>2, <2>3, <2>5, <3>1, <3>2, <4>1
        DEF Delivering, CheckpointVouches, CaughtUp
    <3>5. rest # <<>> => /\ Len(rest) \in Nat \ {0}
                         /\ rest[1] = e + 1
                         /\ rest[Len(rest)] = b[Len(b)]
                         /\ \A i \in 1 .. Len(rest) : rest[i] = rest[1] + i - 1
      <4> SUFFICES ASSUME rest # <<>>
                   PROVE  /\ Len(rest) \in Nat \ {0}
                          /\ rest[1] = e + 1
                          /\ rest[Len(rest)] = b[Len(b)]
                          /\ \A i \in 1 .. Len(rest) : rest[i] = rest[1] + i - 1
        OBVIOUS
      <4>1. Len(rest) \in Nat \ {0} /\ Len(b) \in Nat
        BY <1>2, EmptySeq
      <4>2. ASSUME NEW i \in 1 .. Len(rest) PROVE rest[i] = e + i
        <5>1. i \in 1 .. Len(b) - 1 /\ i + 1 \in 1 .. Len(b)
          BY <1>2, <4>1
        <5>2. rest[i] = b[i + 1] /\ b[i + 1] = e + (i + 1) - 1
          BY <1>2, <2>2, <5>1
        <5>3. QED
          BY <1>2, <5>1, <5>2
      <4>3. 1 \in 1 .. Len(rest) /\ Len(rest) \in 1 .. Len(rest)
        BY <4>1
      <4>4. rest[1] = e + 1 /\ rest[Len(rest)] = e + Len(rest)
        BY <4>2, <4>3
      <4>5. b[Len(b)] = e + Len(rest)
        BY <1>2, <1>n, <4>1
      <4> HIDE DEF e, b
      <4>6. QED
        BY <1>n, <4>1, <4>2, <4>4, <4>5
    <3>6. BatchFollows(c)'
      <4>1. rest # <<>> => 1 <= rest[1] /\ rest[Len(rest)] <= Len(events) /\ rest[1] = e + 1 /\ e # NoCursor
        <5> HIDE DEF e, b
        <5>1. QED
          BY <1>n, <1>4, <2>2, <3>5 DEF NoCursor
      <4>2. sub'[c].batch = rest /\ sub'[c].at # "advancing" /\ (Reading(c)' => rest # <<>>)
        BY <2>5, <3>1 DEF Reading
      <4> HIDE DEF e
      <4>3. QED
        BY <2>3, <3>2, <3>5, <4>1, <4>2 DEF BatchFollows
    <3>7. HandledSoFar(c)'
      <4>1. sub'[c].batch = rest /\ (Reading(c)' => rest # <<>>)
        BY <2>5, <3>1 DEF Reading
      <4>2. QED
        <5> HIDE DEF e, b
        <5>1. QED
          BY <1>n, <1>4, <2>2, <2>3, <3>2, <3>5, <4>1 DEF HandledSoFar, NoCursor
    <3>8. QED
      BY <3>3, <3>4, <3>6, <3>7 DEF Delivering
  <2>8. s \in Subscription
    BY <2>5, <2>g
  <2>9. sub' \in [Consumer -> Subscription] /\ \A d \in Consumer \ {c} : sub'[d] = sub[d]
    BY <1>3, <2>1, <2>8
  <2>10. ConsumerTypeOK'
    BY <1>1, <2>4, <2>9 DEF ConsumerInv, ConsumerTypeOK, Subscription
  <2>11. QED
    BY <1>1, <2>3, <2>6, <2>7, <2>9, <2>10, OneConsumer
<1>7. QED
  BY <1>5, <1>6

\* Compaction waits for every consumer that has a checkpoint, so none loses it.
LEMMA CompactKeeps ==
  ASSUME LogInv, ConsumerInv, NEW cutoff \in 1 .. Len(events), Compact(cutoff)
  PROVE  LogInv' /\ ConsumerInv' /\ LogGrows
<1>1. /\ LogInv' /\ LogGrows
      /\ \A s \in retentionFloor .. (retentionFloor' - 1) : s \in Passed
      /\ UNCHANGED <<reports, sub, restarts, handled>>
  BY CompactLogGrows DEF Compact
<1>2. /\ retentionFloor \in Nat /\ retentionFloor' \in Nat /\ retentionFloor <= retentionFloor'
      /\ 1 <= retentionFloor
  BY <1>1, LogNumbers DEF LogInv, LogTypeOK, LogGrows
<1>3. ASSUME NEW c \in Consumer
      PROVE  /\ checkpoint[c] # NoCursor => retentionFloor' - 1 <= checkpoint[c]
             /\ checkpoint'[c] = checkpoint[c]
  <2>1. checkpoint[c] \in Nat /\ ~Expired(checkpoint[c])
    BY ConsumerTypes DEF ConsumerInv, Delivering, Positioned
  <2>2. checkpoint[c] # NoCursor => retentionFloor' - 1 <= checkpoint[c]
    <3>1. CASE retentionFloor' = retentionFloor
      BY <1>2, <2>1, <3>1 DEF Expired
    <3>2. CASE retentionFloor' # retentionFloor
      <4>1. retentionFloor' - 1 \in retentionFloor .. (retentionFloor' - 1)
        <5>1. \A x, y \in Nat : x <= y /\ x # y => y - 1 \in x .. (y - 1)
          OBVIOUS
        <5>2. QED
          BY <1>2, <3>2, <5>1
      <4>2. QED
        BY <1>1, <4>1 DEF Passed
    <3>3. QED
      BY <3>1, <3>2
  <2>3. QED
    BY <1>2, <2>1, <2>2 DEF Compact, NoCursor
<1>4. checkpoint' = checkpoint
  BY <1>3 DEF ConsumerInv, ConsumerTypeOK, Compact
<1>5. ASSUME NEW c \in Consumer PROVE Delivering(c)'
  BY <1>1, <1>3, <1>4, Waits DEF ConsumerInv
<1>6. ConsumerTypeOK'
  BY <1>1, <1>4 DEF ConsumerInv, ConsumerTypeOK
<1>7. QED
  BY <1>1, <1>5, <1>6 DEF ConsumerInv

LEMMA LogStepKeeps ==
  ASSUME LogInv, ConsumerInv, NEW r \in Runs, LogStep(r), UNCHANGED consumerVars
  PROVE  LogInv' /\ ConsumerInv' /\ LogGrows
<1>1. LogInv' /\ LogGrows /\ retentionFloor' = retentionFloor
  BY LogStepGrows
<1>2. UNCHANGED <<checkpoint, reports, sub, restarts, handled>>
  BY DEF consumerVars
<1>3. ASSUME NEW c \in Consumer PROVE Delivering(c)'
  <2>1. checkpoint[c] # NoCursor => retentionFloor' - 1 <= checkpoint[c]
    BY <1>1, ConsumerTypes, LogNumbers DEF ConsumerInv, Delivering, Positioned, Expired
  <2>2. QED
    BY <1>1, <1>2, <2>1, Waits DEF ConsumerInv
<1>4. QED
  BY <1>1, <1>2, <1>3 DEF ConsumerInv, ConsumerTypeOK

LEMMA EndProcessKeeps ==
  ASSUME LogInv, ConsumerInv, EndProcess
  PROVE  LogInv' /\ ConsumerInv' /\ LogGrows
<1>1. LogInv' /\ LogGrows /\ retentionFloor' = retentionFloor
  BY InterruptOwnerGrows DEF EndProcess
<1>2. /\ UNCHANGED <<checkpoint, reports, handled>>
      /\ restarts' \in 0 .. MaxRestarts
  BY ConsumersAssumption DEF EndProcess, ConsumerInv, ConsumerTypeOK
<1>s. PICK outcome \in [Consumer -> {"pending", "rejected"}] :
        sub' = [c \in Consumer |-> IF sub[c].at = "off" THEN sub[c] ELSE Left(c, outcome[c])]
  BY DEF EndProcess
<1>l. ASSUME NEW c \in Consumer
      PROVE  sub'[c] \in Subscription /\ (sub'[c] = sub[c] \/ Leaves(c))
  <2>1. CASE sub[c].at = "off"
    BY <1>s, <2>1, ConsumerTypes DEF ConsumerInv
  <2>2. CASE sub[c].at # "off"
    <3> DEFINE s == Left(c, outcome[c])
    <3>1. outcome[c] \in {"pending", "rejected"}
      OBVIOUS
    <3>2. /\ s \in Subscription /\ s.at = "off" /\ s.aborted = sub[c].aborted
          /\ s.waterline \in {0, sub[c].waterline}
          /\ s.caughtUp = "resolved" => /\ sub[c].caughtUp = "resolved"
                                        /\ s.waterline = sub[c].waterline
      BY <3>1, LeftTyped DEF ConsumerInv
    <3>3. sub'[c] = s
      BY <1>s, <2>2
    <3> HIDE DEF s
    <3>4. QED
      BY <2>2, <3>2, <3>3 DEF Leaves, CaughtUp
  <2>3. QED
    BY <2>1, <2>2
<1>3. ASSUME NEW c \in Consumer PROVE Delivering(c)'
  <2>1. checkpoint[c] # NoCursor => retentionFloor' - 1 <= checkpoint[c]
    BY <1>1, ConsumerTypes, LogNumbers DEF ConsumerInv, Delivering, Positioned, Expired
  <2>2. QED
    BY <1>1, <1>2, <1>l, <2>1, Waits DEF ConsumerInv
<1>4. ConsumerTypeOK'
  <2>1. sub' \in [Consumer -> Subscription]
    BY <1>s, <1>l
  <2>2. QED
    BY <1>2, <2>1 DEF ConsumerInv, ConsumerTypeOK, Subscription
<1>5. QED
  BY <1>1, <1>3, <1>4 DEF ConsumerInv

-----------------------------------------------------------------------------
(* The observer: its batch lies behind its cursor, in the order of the     *)
(* log, and what it has shown lies before it                               *)

ObsState == [at: {"off", "top", "listed", "batch", "done", "refused"},
             cursor: 0 .. MaxEvents, batch: Seq(1 .. MaxEvents)]

Ordered(batch, cursor) ==
  /\ \A i \in 1 .. Len(batch) : cursor < batch[i] /\ batch[i] <= Len(events)
  /\ \A i, j \in 1 .. Len(batch) : i < j => batch[i] < batch[j]

Shown ==
  /\ InLogOrder
  /\ obs.cursor <= Len(events)
  /\ \A i \in 1 .. Len(shown) : shown[i] <= obs.cursor /\ events[shown[i]].run = Observed

ObserverInv ==
  /\ ObserverTypeOK
  /\ Ordered(obs.batch, obs.cursor)
  /\ Shown
  /\ NoDeltaAfterMessage
  /\ obs.at = "off" => obs.cursor = NoCursor

IInv == LogInv /\ ConsumerInv /\ ObserverInv

\* A step that shows no durable event: it may read or drop a batch, and use
\* or fill the queue, as long as a delta only comes from the queue or from a
\* Message that is not committed yet.
LEMMA ShowsNothing ==
  ASSUME LogInv, LogInv', LogGrows, ObserverInv,
         shown' = shown, cleared' \in BOOLEAN,
         buffer' \in Seq(Transient), Len(buffer') <= MaxBuffered,
         \A j \in 1 .. Len(buffer') : buffer'[j] = "delta" =>
           (\E i \in 1 .. Len(buffer) : buffer[i] = "delta") \/ ~runs[Observed].streamed,
         obs' \in ObsState, obs'.cursor = obs.cursor, obs'.at = "off" => obs.at = "off",
         \A i \in 1 .. Len(obs'.batch) :
           obs'.batch[i] \in 1 .. Len(events) /\ obs.cursor < obs'.batch[i],
         \A i, j \in 1 .. Len(obs'.batch) : i < j => obs'.batch[i] < obs'.batch[j]
  PROVE  ObserverInv'
<1>1. /\ Len(events) \in Nat /\ Len(events') \in Nat /\ Len(events) <= Len(events')
      /\ \A s \in 1 .. Len(events) : events'[s] = events[s]
  BY LogNumbers DEF LogInv, LogTypeOK, LogGrows
<1>2. obs \in ObsState /\ buffer \in Seq(Transient) /\ shown \in Seq(1 .. MaxEvents)
  BY DEF ObserverInv, ObserverTypeOK, ObsState
<1>3. Len(shown) \in Nat /\ DOMAIN shown = 1 .. Len(shown) /\ obs.cursor \in Nat
      /\ DOMAIN buffer = 1 .. Len(buffer) /\ DOMAIN buffer' = 1 .. Len(buffer')
      /\ \A i \in 1 .. Len(shown) : shown[i] \in Nat /\ 1 <= shown[i]
  BY <1>2, LenProperties, ElementOfSeq, EventLogAssumption DEF ObsState
<1>4. /\ obs.cursor <= Len(events) /\ InLogOrder
      /\ \A i \in 1 .. Len(shown) : shown[i] <= obs.cursor /\ events[shown[i]].run = Observed
  BY DEF ObserverInv, Shown
<1>5. \A i \in 1 .. Len(shown) : shown[i] \in 1 .. Len(events) /\ events'[shown[i]] = events[shown[i]]
  BY <1>1, <1>3, <1>4
<1>6. Shown'
  <2>1. InLogOrder'
    BY <1>4 DEF InLogOrder
  <2>2. (obs.cursor <= Len(events))'
    BY <1>1, <1>3, <1>4
  <2>3. \A i \in 1 .. Len(shown) : shown[i] <= obs'.cursor /\ events'[shown[i]].run = Observed
    BY <1>4, <1>5
  <2>4. QED
    BY <2>1, <2>2, <2>3 DEF Shown
<1>7. Ordered(obs.batch, obs.cursor)'
  BY <1>1, <1>3 DEF Ordered
<1>8. NoDeltaAfterMessage'
  <2> SUFFICES ASSUME NEW i \in 1 .. Len(shown), events'[shown[i]].kind = "message",
                      NEW j \in 1 .. Len(buffer'), buffer'[j] = "delta"
               PROVE  FALSE
    BY <1>3 DEF NoDeltaAfterMessage
  <2>1. events[shown[i]].kind = "message" /\ events[shown[i]].run = Observed
    BY <1>4, <1>5
  <2>2. runs[Observed].streamed
    BY <1>5, <2>1 DEF LogInv, MessagesStreamed
  <2>3. \A k \in 1 .. Len(buffer) : buffer[k] # "delta"
    BY <1>3, <2>1 DEF ObserverInv, NoDeltaAfterMessage
  <2>4. QED
    BY <2>2, <2>3
<1>9. ObserverTypeOK'
  BY <1>2 DEF ObserverTypeOK, ObsState
<1>10. QED
  BY <1>6, <1>7, <1>8, <1>9 DEF ObserverInv

LEMMA ObserverTypes ==
  ASSUME ObserverInv
  PROVE  /\ obs \in ObsState /\ obs.cursor \in Nat /\ obs.batch \in Seq(1 .. MaxEvents)
         /\ Len(obs.batch) \in Nat
         /\ \A i \in 1 .. Len(obs.batch) : obs.batch[i] \in Nat /\ 1 <= obs.batch[i]
         /\ buffer \in Seq(Transient) /\ Len(buffer) \in Nat /\ Len(buffer) <= MaxBuffered
         /\ MaxBuffered \in Nat \ {0}
         /\ shown \in Seq(1 .. MaxEvents) /\ Len(shown) \in Nat
         /\ cleared \in BOOLEAN
<1>1. /\ obs \in ObsState /\ buffer \in Seq(Transient) /\ shown \in Seq(1 .. MaxEvents)
      /\ cleared \in BOOLEAN /\ Len(buffer) <= MaxBuffered
  BY DEF ObserverInv, ObserverTypeOK, ObsState
<1>2. obs.batch \in Seq(1 .. MaxEvents)
  BY <1>1 DEF ObsState
<1>3. /\ Len(obs.batch) \in Nat /\ Len(buffer) \in Nat /\ Len(shown) \in Nat
  BY <1>1, <1>2, LenProperties
<1>4. ASSUME NEW i \in 1 .. Len(obs.batch) PROVE obs.batch[i] \in Nat /\ 1 <= obs.batch[i]
  <2>1. obs.batch[i] \in 1 .. MaxEvents
    BY <1>2, ElementOfSeq
  <2>2. QED
    BY <2>1, EventLogAssumption
<1>5. obs.cursor \in Nat
  BY <1>1, EventLogAssumption DEF ObsState
<1>6. QED
  BY <1>1, <1>2, <1>3, <1>4, <1>5, ObserverAssumption

LEMMA OrderedBatch ==
  ASSUME ObserverInv, LogInv
  PROVE  /\ \A i \in 1 .. Len(obs.batch) :
              obs.batch[i] \in 1 .. Len(events) /\ obs.cursor < obs.batch[i]
         /\ \A i, j \in 1 .. Len(obs.batch) : i < j => obs.batch[i] < obs.batch[j]
<1>1. /\ \A i \in 1 .. Len(obs.batch) : obs.cursor < obs.batch[i] /\ obs.batch[i] <= Len(events)
      /\ \A i, j \in 1 .. Len(obs.batch) : i < j => obs.batch[i] < obs.batch[j]
  BY DEF ObserverInv, Ordered
<1>2. Len(events) \in Nat /\ \A i \in 1 .. Len(obs.batch) : obs.batch[i] \in Nat /\ 1 <= obs.batch[i]
  BY ObserverTypes, LogNumbers
<1>3. QED
  BY <1>1, <1>2

\* A step of the log or of a consumer.
LEMMA ObserverWaits ==
  ASSUME LogInv, LogInv', LogGrows, ObserverInv, UNCHANGED observerVars
  PROVE  ObserverInv'
<1>1. obs' = obs /\ buffer' = buffer /\ cleared' = cleared /\ shown' = shown
  BY DEF observerVars
<1>2. QED
  BY <1>1, ObserverTypes, OrderedBatch, ShowsNothing

-----------------------------------------------------------------------------
(* The queue of the subscription *)

LEMMA EmptyQueue ==
  /\ <<>> \in Seq(Transient) /\ Len(<<>>) = 0 /\ \A j \in 1 .. Len(<<>>) : FALSE
  OBVIOUS

LEMMA QueueTail ==
  ASSUME ObserverInv, buffer # <<>>
  PROVE  /\ Tail(buffer) \in Seq(Transient) /\ Len(Tail(buffer)) = Len(buffer) - 1
         /\ Len(Tail(buffer)) <= MaxBuffered
         /\ \A j \in 1 .. Len(Tail(buffer)) : j + 1 \in 1 .. Len(buffer) /\ Tail(buffer)[j] = buffer[j + 1]
<1>1. /\ Tail(buffer) \in Seq(Transient) /\ Len(Tail(buffer)) = Len(buffer) - 1
      /\ \A j \in 1 .. Len(Tail(buffer)) : Tail(buffer)[j] = buffer[j + 1]
  BY ObserverTypes, HeadTailProperties
<1>2. QED
  BY <1>1, ObserverTypes

LEMMA QueuePushed ==
  ASSUME ObserverInv, NEW t \in Transient
  PROVE  LET q == Pushed(buffer, t) IN
         /\ q \in Seq(Transient) /\ Len(q) <= MaxBuffered
         /\ \A j \in 1 .. Len(q) : q[j] = t \/ \E i \in 1 .. Len(buffer) : buffer[i] = q[j]
<1> DEFINE q == Pushed(buffer, t)
           Good(s) == /\ s \in Seq(Transient) /\ Len(s) <= MaxBuffered
                      /\ \A j \in 1 .. Len(s) : s[j] = t \/ \E i \in 1 .. Len(buffer) : buffer[i] = s[j]
<1>0. buffer \in Seq(Transient) /\ Len(buffer) \in Nat /\ Len(buffer) <= MaxBuffered /\ MaxBuffered \in Nat \ {0}
  BY ObserverTypes
<1> HIDE DEF q
<1>1. ASSUME q = buffer PROVE Good(q)
  BY <1>0, <1>1
<1>2. ASSUME q = Append(Tail(buffer), t), Len(buffer) >= MaxBuffered PROVE Good(q)
  <2>1. buffer # <<>>
    BY <1>0, <1>2
  <2>2. /\ Tail(buffer) \in Seq(Transient) /\ Len(Tail(buffer)) = Len(buffer) - 1
        /\ \A j \in 1 .. Len(Tail(buffer)) : j + 1 \in 1 .. Len(buffer) /\ Tail(buffer)[j] = buffer[j + 1]
    BY <2>1, QueueTail
  <2>3. /\ q \in Seq(Transient) /\ Len(q) = Len(Tail(buffer)) + 1
        /\ \A j \in 1 .. Len(Tail(buffer)) : q[j] = Tail(buffer)[j]
        /\ q[Len(Tail(buffer)) + 1] = t
    BY <1>2, <2>2, AppendProperties
  <2>4. Len(q) \in Nat /\ Len(q) <= MaxBuffered /\ Len(q) = Len(buffer)
    BY <1>0, <1>2, <2>2, <2>3
  <2>5. ASSUME NEW j \in 1 .. Len(q) PROVE q[j] = t \/ \E i \in 1 .. Len(buffer) : buffer[i] = q[j]
    <3>1. CASE j = Len(q)
      BY <1>0, <2>2, <2>3, <3>1
    <3>2. CASE j # Len(q)
      <4>1. j \in 1 .. Len(Tail(buffer))
        <5>1. Len(q) \in Nat /\ Len(Tail(buffer)) = Len(q) - 1 /\ j # Len(q)
          BY <1>0, <2>2, <2>4, <3>2
        <5>2. QED
          BY <5>1
      <4>2. QED
        BY <2>2, <2>3, <4>1
    <3>3. QED
      BY <3>1, <3>2
  <2>6. QED
    BY <2>3, <2>4, <2>5
<1>3. ASSUME q = Append(buffer, t), ~(Len(buffer) >= MaxBuffered) PROVE Good(q)
  <2>1. /\ q \in Seq(Transient) /\ Len(q) = Len(buffer) + 1
        /\ \A j \in 1 .. Len(buffer) : q[j] = buffer[j]
        /\ q[Len(buffer) + 1] = t
    BY <1>0, <1>3, AppendProperties
  <2>2. ASSUME NEW j \in 1 .. Len(q) PROVE q[j] = t \/ \E i \in 1 .. Len(buffer) : buffer[i] = q[j]
    <3>1. CASE j = Len(q)
      BY <2>1, <3>1
    <3>2. CASE j # Len(q)
      <4>1. j \in 1 .. Len(buffer)
        BY <1>0, <2>1, <3>2
      <4>2. QED
        BY <2>1, <4>1
    <3>3. QED
      BY <3>1, <3>2
  <2>3. Len(q) <= MaxBuffered
    BY <1>0, <1>3, <2>1
  <2>4. QED
    BY <2>1, <2>2, <2>3
<1>4. Good(q)
  <2> HIDE DEF Good
  <2>1. QED
    BY <1>1, <1>2, <1>3 DEF Pushed, q
<1>5. QED
  BY <1>4 DEF q

LEMMA StatusesKept ==
  ASSUME ObserverInv
  PROVE  /\ Statuses \in Seq(Transient) /\ Len(Statuses) <= MaxBuffered
         /\ \A j \in 1 .. Len(Statuses) : Statuses[j] = "status"
<1> DEFINE S == {j \in DOMAIN buffer : buffer[j] = "status"}
           n == Cardinality(S)
<1>1. IsFiniteSet(1 .. Len(buffer)) /\ Cardinality(1 .. Len(buffer)) = Len(buffer)
  <2>1. \A m \in Nat : IsFiniteSet(1 .. m) /\ Cardinality(1 .. m) = m
    <3> TAKE m \in Nat
    <3>1. Cardinality(1 .. m) = IF 1 > m THEN 0 ELSE m - 1 + 1
      BY FS_Interval
    <3>2. QED
      BY <3>1, FS_Interval
  <2>2. QED
    BY <2>1, ObserverTypes
<1>2. S \subseteq 1 .. Len(buffer)
  BY ObserverTypes
<1>3. n \in Nat /\ n <= Len(buffer)
  <2> HIDE DEF S
  <2>1. IsFiniteSet(S) /\ Cardinality(S) <= Cardinality(1 .. Len(buffer))
    BY <1>1, <1>2, FS_Subset
  <2>2. QED
    BY <1>1, <2>1, FS_CardinalityType
<1>4. Statuses = [i \in 1 .. n |-> "status"]
  BY DEF Statuses
<1> HIDE DEF n
<1>5. Statuses \in [1 .. n -> Transient]
  BY <1>4 DEF Transient
<1>6. Statuses \in Seq(Transient) /\ Len(Statuses) = n
  BY <1>3, <1>5, FunctionSeq
<1>7. QED
  BY <1>3, <1>4, <1>6, ObserverTypes

-----------------------------------------------------------------------------
(* The steps of the observer *)

LEMMA BatchTail ==
  ASSUME ObserverInv, LogInv, obs.batch # <<>>
  PROVE  LET rest == Tail(obs.batch) IN
         /\ rest \in Seq(1 .. MaxEvents)
         /\ \A i \in 1 .. Len(rest) : rest[i] \in 1 .. Len(events) /\ obs.cursor < rest[i]
         /\ \A i, j \in 1 .. Len(rest) : i < j => rest[i] < rest[j]
<1> DEFINE rest == Tail(obs.batch)
<1>1. /\ rest \in Seq(1 .. MaxEvents) /\ Len(rest) = Len(obs.batch) - 1
      /\ \A i \in 1 .. Len(rest) : rest[i] = obs.batch[i + 1]
  BY ObserverTypes, HeadTailProperties
<1> HIDE DEF rest
<1>2. \A i \in 1 .. Len(rest) : i + 1 \in 1 .. Len(obs.batch) /\ i \in Nat
  BY <1>1, ObserverTypes
<1>3. ASSUME NEW i \in 1 .. Len(rest), NEW j \in 1 .. Len(rest), i < j PROVE rest[i] < rest[j]
  <2>1. i + 1 \in 1 .. Len(obs.batch) /\ j + 1 \in 1 .. Len(obs.batch) /\ i + 1 < j + 1
    BY <1>2, <1>3
  <2>2. QED
    BY <1>1, <2>1, OrderedBatch
<1>4. \A i \in 1 .. Len(rest) : rest[i] \in 1 .. Len(events) /\ obs.cursor < rest[i]
  BY <1>1, <1>2, OrderedBatch
<1>5. QED
  BY <1>1, <1>3, <1>4 DEF rest

LEMMA EmptyBatch ==
  /\ <<>> \in Seq(1 .. MaxEvents)
  /\ \A i \in 1 .. Len(<<>>) : FALSE
  BY EmptySeq

\* A yield of a transient event.
LEMMA YieldKeeps ==
  ASSUME LogInv, ObserverInv, NEW at \in {"top", "batch"}, NEW batch, YieldTransient(at, batch),
         batch = <<>> \/ (obs.batch # <<>> /\ batch = Tail(obs.batch))
  PROVE  ObserverInv'
<1>1. LogInv' /\ LogGrows
  BY LogStutters DEF YieldTransient
<1>2. /\ buffer # <<>> /\ buffer' = Tail(buffer) /\ cleared' = cleared /\ shown' = shown
      /\ obs' = [obs EXCEPT !.at = at, !.batch = batch]
  BY DEF YieldTransient
<1>3. /\ batch \in Seq(1 .. MaxEvents)
      /\ \A i \in 1 .. Len(batch) : batch[i] \in 1 .. Len(events) /\ obs.cursor < batch[i]
      /\ \A i, j \in 1 .. Len(batch) : i < j => batch[i] < batch[j]
  BY BatchTail, EmptyBatch
<1>4. obs' \in ObsState /\ obs'.cursor = obs.cursor /\ obs'.at # "off" /\ obs'.batch = batch
  BY <1>2, <1>3, ObserverTypes DEF ObsState
<1>5. /\ buffer' \in Seq(Transient) /\ Len(buffer') <= MaxBuffered
      /\ \A j \in 1 .. Len(buffer') : buffer'[j] = "delta" =>
           \E i \in 1 .. Len(buffer) : buffer[i] = "delta"
  BY <1>2, QueueTail
<1>6. QED
  BY <1>1, <1>2, <1>3, <1>4, <1>5, ObserverTypes, ShowsNothing

\* A step that only moves the generator.
LEMMA MoveKeeps ==
  ASSUME LogInv, ObserverInv, UNCHANGED <<logVars, buffer, cleared, shown>>,
         obs' \in ObsState, obs'.cursor = obs.cursor, obs'.at # "off",
         \A i \in 1 .. Len(obs'.batch) :
           obs'.batch[i] \in 1 .. Len(events) /\ obs.cursor < obs'.batch[i],
         \A i, j \in 1 .. Len(obs'.batch) : i < j => obs'.batch[i] < obs'.batch[j]
  PROVE  ObserverInv'
<1>1. LogInv' /\ LogGrows
  BY LogStutters
<1>2. QED
  BY <1>1, ObserverTypes, ShowsNothing

LEMMA GoKeeps ==
  ASSUME LogInv, ObserverInv, NEW at \in {"top", "done", "refused"}, Go(at)
  PROVE  ObserverInv'
<1>1. obs' \in ObsState /\ obs'.cursor = obs.cursor /\ obs'.at # "off" /\ obs'.batch = <<>>
  BY ObserverTypes, EmptyBatch DEF Go, ObsState
<1>2. QED
  BY <1>1, EmptyBatch, MoveKeeps DEF Go

LEMMA ListKeeps ==
  ASSUME LogInv, ObserverInv, List
  PROVE  ObserverInv'
<1>1. CASE Expired(obs.cursor)
  BY <1>1, GoKeeps DEF List
<1>2. CASE ~Expired(obs.cursor)
  <2> DEFINE b == ListEvents(obs.cursor)
  <2>1. obs.cursor \in 0 .. Len(events)
    BY ObserverTypes, LogNumbers DEF ObserverInv, Shown
  <2>2. /\ b \in Seq(1 .. Len(events)) /\ Len(b) = Len(events) - After(obs.cursor)
        /\ After(obs.cursor) \in Nat /\ obs.cursor <= After(obs.cursor)
        /\ \A i \in 1 .. Len(b) : b[i] = After(obs.cursor) + i
    BY <2>1, Listed
  <2>3. /\ obs' = [obs EXCEPT !.at = "listed", !.batch = b]
        /\ UNCHANGED <<logVars, buffer, cleared, shown>>
    BY <1>2 DEF List
  <2> HIDE DEF b
  <2>4. b \in Seq(1 .. MaxEvents)
    BY <2>2, LogNumbers, SeqMonotonic
  <2>5. obs' \in ObsState /\ obs'.cursor = obs.cursor /\ obs'.at # "off" /\ obs'.batch = b
    BY <2>3, <2>4, ObserverTypes DEF ObsState
  <2>6. ASSUME NEW i \in 1 .. Len(b) PROVE b[i] \in 1 .. Len(events) /\ obs.cursor < b[i]
    BY <2>1, <2>2, LogNumbers
  <2>7. ASSUME NEW i \in 1 .. Len(b), NEW j \in 1 .. Len(b), i < j PROVE b[i] < b[j]
    BY <2>1, <2>2, <2>7, LogNumbers
  <2>8. QED
    BY <2>3, <2>5, <2>6, <2>7, MoveKeeps
<1>3. QED
  BY <1>1, <1>2

LEMMA ObserveKeeps ==
  ASSUME LogInv, ObserverInv, Observe(NoCursor)
  PROVE  ObserverInv'
<1>1. obs.at = "off" /\ obs.cursor = NoCursor
  BY DEF Observe, ObserverInv
<1>2. /\ obs' \in ObsState /\ obs'.cursor = obs.cursor /\ obs'.at # "off" /\ obs'.batch = obs.batch
  BY <1>1, ObserverTypes, EventLogAssumption DEF Observe, ObsState, NoCursor
<1>3. QED
  BY <1>2, OrderedBatch, MoveKeeps DEF Observe

LEMMA PublishKeeps ==
  ASSUME LogInv, ObserverInv, NEW t \in Transient, Publish(t)
  PROVE  ObserverInv'
<1>1. LogInv' /\ LogGrows
  BY LogStutters DEF Publish
<1>2. /\ buffer' = Pushed(buffer, t) /\ obs' = obs /\ cleared' = cleared /\ shown' = shown
      /\ t = "delta" => ~runs[Observed].streamed
  BY DEF Publish, Publishable
<1>3. /\ buffer' \in Seq(Transient) /\ Len(buffer') <= MaxBuffered
      /\ \A j \in 1 .. Len(buffer') :
           buffer'[j] = t \/ \E i \in 1 .. Len(buffer) : buffer[i] = buffer'[j]
  BY <1>2, QueuePushed
<1>4. \A j \in 1 .. Len(buffer') : buffer'[j] = "delta" =>
        (\E i \in 1 .. Len(buffer) : buffer[i] = "delta") \/ ~runs[Observed].streamed
  BY <1>2, <1>3
<1>5. QED
  BY <1>1, <1>2, <1>3, <1>4, ObserverTypes, OrderedBatch, ShowsNothing

LEMMA ClearTransientsKeeps ==
  ASSUME LogInv, ObserverInv, ClearTransients
  PROVE  ObserverInv'
<1>1. LogInv' /\ LogGrows
  BY LogStutters DEF ClearTransients
<1>2. obs' = obs /\ cleared' \in BOOLEAN /\ shown' = shown /\ buffer' \in {<<>>, Statuses}
  BY DEF ClearTransients
<1>3. /\ buffer' \in Seq(Transient) /\ Len(buffer') <= MaxBuffered
      /\ \A j \in 1 .. Len(buffer') : buffer'[j] # "delta"
  <2>1. CASE buffer' = <<>>
    BY <2>1, EmptyQueue, ObserverTypes
  <2>2. CASE buffer' = Statuses
    BY <2>2, StatusesKept
  <2>3. QED
    BY <1>2, <2>1, <2>2
<1>4. QED
  BY <1>1, <1>2, <1>3, ObserverTypes, OrderedBatch, ShowsNothing

LEMMA ProcessEndsKeeps ==
  ASSUME LogInv, LogInv', LogGrows, ObserverInv, ProcessEnds
  PROVE  ObserverInv'
<1>1. /\ obs' = IF Subscribed THEN [obs EXCEPT !.at = "refused", !.batch = <<>>] ELSE obs
      /\ buffer' = <<>> /\ cleared' \in BOOLEAN /\ shown' = shown
  BY DEF ProcessEnds
<1>2. /\ buffer' \in Seq(Transient) /\ Len(buffer') <= MaxBuffered
      /\ \A j \in 1 .. Len(buffer') : buffer'[j] # "delta"
  BY <1>1, EmptyQueue, ObserverTypes
<1>3. CASE Subscribed
  <2>1. obs' \in ObsState /\ obs'.cursor = obs.cursor /\ obs'.at # "off" /\ obs'.batch = <<>>
    BY <1>1, <1>3, ObserverTypes, EmptyBatch DEF ObsState
  <2>2. QED
    BY <1>1, <1>2, <2>1, EmptyBatch, ShowsNothing
<1>4. CASE ~Subscribed
  <2>1. obs' = obs
    BY <1>1, <1>4
  <2>2. QED
    BY <1>1, <1>2, <2>1, ObserverTypes, OrderedBatch, ShowsNothing
<1>5. QED
  BY <1>3, <1>4

\* The rest of a batch behind the event that is shown.
LEMMA BatchRest ==
  ASSUME LogInv, ObserverInv, NEW k \in 1 .. Len(obs.batch)
  PROVE  LET rest == SubSeq(obs.batch, k + 1, Len(obs.batch)) IN
         /\ rest \in Seq(1 .. MaxEvents)
         /\ \A i \in 1 .. Len(rest) : rest[i] \in 1 .. Len(events) /\ obs.batch[k] < rest[i]
         /\ \A i, j \in 1 .. Len(rest) : i < j => rest[i] < rest[j]
<1> DEFINE b == obs.batch
           rest == SubSeq(b, k + 1, Len(b))
<1>1. b \in Seq(1 .. MaxEvents) /\ Len(b) \in Nat
  BY ObserverTypes
<1>2. \A i \in 1 .. Len(b) : b[i] \in 1 .. MaxEvents
  BY <1>1, ElementOfSeq
<1>3. /\ \A i \in 1 .. Len(b) : b[i] \in 1 .. Len(events)
      /\ \A i, j \in 1 .. Len(b) : i < j => b[i] < b[j]
  BY OrderedBatch
<1>k. k \in 1 .. Len(b)
  OBVIOUS
<1> HIDE DEF b
<1>4. k \in Nat /\ k <= Len(b) /\ k + 1 \in Int /\ \A i \in k + 1 .. Len(b) : i \in 1 .. Len(b)
  BY <1>1, <1>k
<1>5. /\ rest \in Seq(1 .. MaxEvents)
      /\ Len(rest) = IF k + 1 <= Len(b) THEN Len(b) - (k + 1) + 1 ELSE 0
      /\ \A i \in 1 .. Len(b) - (k + 1) + 1 : rest[i] = b[k + 1 + i - 1]
  BY <1>1, <1>2, <1>4, SubSeqProperties
<1> HIDE DEF rest
<1>6. Len(rest) = Len(b) - k
  BY <1>1, <1>4, <1>5
<1>7. ASSUME NEW i \in 1 .. Len(rest)
      PROVE  rest[i] = b[k + i] /\ k + i \in 1 .. Len(b) /\ k < k + i
  <2>1. i \in 1 .. Len(b) - (k + 1) + 1 /\ k + 1 + i - 1 = k + i
    BY <1>1, <1>4, <1>6
  <2>2. QED
    BY <1>1, <1>4, <1>5, <1>6, <2>1
<1>8. ASSUME NEW i \in 1 .. Len(rest), NEW j \in 1 .. Len(rest), i < j
      PROVE  rest[i] < rest[j]
  <2>1. k + i < k + j
    BY <1>1, <1>4, <1>6, <1>8
  <2>2. QED
    BY <1>3, <1>7, <2>1
<1>9. \A i \in 1 .. Len(rest) : rest[i] \in 1 .. Len(events) /\ b[k] < rest[i]
  BY <1>3, <1>7, <1>k
<1>10. QED
  BY <1>5, <1>8, <1>9 DEF rest, b

LEMMA DeliverKeeps ==
  ASSUME LogInv, ObserverInv, Deliver
  PROVE  ObserverInv'
<1> DEFINE b == obs.batch
<1>1. /\ UNCHANGED <<events, runs>> /\ buffer' = <<>> /\ cleared' = cleared
  BY DEF Deliver, logVars
<1>2. NoDeltaAfterMessage'
  BY <1>1, EmptyQueue DEF NoDeltaAfterMessage
<1>3. /\ b \in Seq(1 .. MaxEvents) /\ Len(b) \in Nat /\ DOMAIN b = 1 .. Len(b)
      /\ \A i \in 1 .. Len(b) : b[i] \in 1 .. Len(events) /\ obs.cursor < b[i]
      /\ \A i \in 1 .. Len(b) : b[i] \in 1 .. MaxEvents
  <2>1. b \in Seq(1 .. MaxEvents)
    BY ObserverTypes
  <2>2. \A i \in 1 .. Len(b) : b[i] \in 1 .. Len(events) /\ obs.cursor < b[i]
    BY OrderedBatch
  <2> HIDE DEF b
  <2>3. \A i \in 1 .. Len(b) : b[i] \in 1 .. MaxEvents
    BY <2>1, ElementOfSeq
  <2>4. QED
    BY <2>1, <2>2, <2>3, LenProperties
<1>4. /\ shown \in Seq(1 .. MaxEvents) /\ Len(shown) \in Nat /\ DOMAIN shown = 1 .. Len(shown)
      /\ \A i \in 1 .. Len(shown) : shown[i] \in 1 .. MaxEvents
  <2>1. shown \in Seq(1 .. MaxEvents)
    BY ObserverTypes
  <2>2. \A i \in 1 .. Len(shown) : shown[i] \in 1 .. MaxEvents
    BY <2>1, ElementOfSeq
  <2>3. QED
    BY <2>1, <2>2, LenProperties
<1>5. /\ Len(events) \in Nat /\ obs.cursor \in Nat /\ MaxEvents \in Nat /\ Len(events) <= MaxEvents
  BY ObserverTypes, LogNumbers
<1>6. /\ InLogOrder /\ obs.cursor <= Len(events)
      /\ \A i \in 1 .. Len(shown) : shown[i] <= obs.cursor /\ events[shown[i]].run = Observed
  BY DEF ObserverInv, Shown
<1>7. CASE OwnIn(b) = {}
  <2> DEFINE cursor == IF b = <<>> THEN obs.cursor ELSE Last(b)
  <2>1. /\ obs' = [at |-> "top", batch |-> <<>>, cursor |-> cursor] /\ shown' = shown
    BY <1>7 DEF Deliver
  <2>2. cursor \in 0 .. Len(events) /\ obs.cursor <= cursor
    <3>1. CASE b = <<>>
      BY <1>5, <1>6, <3>1
    <3>2. CASE b # <<>>
      <4>1. Len(b) \in 1 .. Len(b)
        BY <1>3, <3>2, EmptySeq
      <4>2. cursor = b[Len(b)]
        BY <3>2 DEF Last
      <4> HIDE DEF cursor, b
      <4>3. QED
        BY <1>3, <1>5, <4>1, <4>2
    <3>3. QED
      BY <3>1, <3>2
  <2> HIDE DEF cursor, b
  <2>3. obs'.at = "top" /\ obs'.batch = <<>> /\ obs'.cursor = cursor
    BY <2>1
  <2>4. ObserverTypeOK'
    BY <1>1, <1>4, <1>5, <2>1, <2>2, EmptyBatch, EmptyQueue, ObserverTypes DEF ObserverTypeOK
  <2>5. Ordered(obs.batch, obs.cursor)'
    BY <2>3, EmptyBatch DEF Ordered
  <2>6. Shown'
    BY <1>1, <1>4, <1>5, <1>6, <2>1, <2>2, <2>3 DEF Shown, InLogOrder
  <2>7. QED
    BY <1>2, <2>3, <2>4, <2>5, <2>6 DEF ObserverInv
<1>8. CASE OwnIn(b) # {}
  <2> DEFINE k == Min(OwnIn(b))
             e == b[k]
             rest == SubSeq(b, k + 1, Len(b))
  <2>1. /\ shown' = Append(shown, e)
        /\ obs' = [at |-> IF events[e].kind = "ended" THEN "done" ELSE "batch",
                   batch |-> rest, cursor |-> e]
    BY <1>8 DEF Deliver
  <2>2. OwnIn(b) \subseteq Nat
    BY <1>3 DEF OwnIn
  <2>3. k \in OwnIn(b)
    BY <1>8, <2>2, MinIs
  <2>4. k \in 1 .. Len(b) /\ events[e].run = Observed
    BY <1>3, <2>3 DEF OwnIn
  <2> HIDE DEF k
  <2>5. /\ rest \in Seq(1 .. MaxEvents)
        /\ \A i \in 1 .. Len(rest) : rest[i] \in 1 .. Len(events) /\ e < rest[i]
        /\ \A i, j \in 1 .. Len(rest) : i < j => rest[i] < rest[j]
    BY <2>4, BatchRest
  <2>6. e \in 1 .. Len(events) /\ e \in 1 .. MaxEvents /\ obs.cursor < e
    BY <1>3, <2>4
  <2> HIDE DEF e, rest, b
  <2>7. obs'.at \in {"done", "batch"} /\ obs'.batch = rest /\ obs'.cursor = e
    BY <2>1
  <2>8. /\ shown' \in Seq(1 .. MaxEvents) /\ Len(shown') = Len(shown) + 1
        /\ \A i \in 1 .. Len(shown) : shown'[i] = shown[i]
        /\ shown'[Len(shown) + 1] = e
    BY <1>4, <2>1, <2>6, AppendProperties
  <2>9. DOMAIN shown' = 1 .. Len(shown')
    BY <2>8
  <2>10. ObserverTypeOK'
    BY <1>1, <1>5, <2>1, <2>5, <2>6, <2>8, EmptyQueue, ObserverTypes DEF ObserverTypeOK
  <2>11. Ordered(obs.batch, obs.cursor)'
    BY <1>1, <1>5, <2>5, <2>7 DEF Ordered
  <2>12. ASSUME NEW i \in 1 .. Len(shown')
         PROVE  /\ shown'[i] <= e /\ events[shown'[i]].run = Observed
                /\ i \in 1 .. Len(shown) => shown'[i] < e
    <3>1. CASE i \in 1 .. Len(shown)
      <4>1. shown'[i] = shown[i] /\ shown[i] \in Nat /\ shown[i] <= obs.cursor
            /\ events[shown[i]].run = Observed
        BY <1>4, <1>5, <1>6, <2>8, <3>1
      <4>2. QED
        BY <1>5, <2>6, <4>1
    <3>2. CASE i \notin 1 .. Len(shown)
      <4>1. i = Len(shown) + 1
        BY <1>4, <2>8, <3>2
      <4>2. QED
        BY <1>5, <2>4, <2>6, <2>8, <3>2, <4>1
    <3>3. QED
      BY <3>1, <3>2
  <2>13. ASSUME NEW i \in 1 .. Len(shown'), NEW j \in 1 .. Len(shown'), i < j
         PROVE  shown'[i] < shown'[j]
    <3>1. i \in 1 .. Len(shown)
      BY <1>4, <2>8, <2>13
    <3>2. CASE j \in 1 .. Len(shown)
      BY <1>4, <1>6, <2>8, <2>13, <3>1, <3>2 DEF InLogOrder
    <3>3. CASE j \notin 1 .. Len(shown)
      <4>1. j = Len(shown) + 1
        BY <1>4, <2>8, <3>3
      <4>2. QED
        BY <2>8, <2>12, <3>1, <4>1
    <3>4. QED
      BY <3>2, <3>3
  <2>14. InLogOrder'
    BY <2>9, <2>13 DEF InLogOrder
  <2>15. Shown'
    BY <1>1, <1>5, <2>6, <2>7, <2>12, <2>14 DEF Shown
  <2>16. QED
    BY <1>2, <2>7, <2>10, <2>11, <2>15 DEF ObserverInv
<1>9. QED
  BY <1>7, <1>8

LEMMA ObserverStepKeeps ==
  ASSUME LogInv, ObserverInv, ObserverStep
  PROVE  ObserverInv'
<1>1. CASE TopTransient
  BY <1>1, YieldKeeps DEF TopTransient
<1>2. CASE CheckRun
  <2>1. Go("refused") \/ Go("done")
    BY <1>2 DEF CheckRun
  <2>2. QED
    BY <2>1, GoKeeps
<1>3. CASE ListedTransient
  BY <1>3, YieldKeeps DEF ListedTransient
<1>4. CASE BatchTransient
  BY <1>4, YieldKeeps DEF BatchTransient
<1>5. CASE EndOfBatch
  BY <1>5, YieldKeeps, GoKeeps DEF EndOfBatch
<1>6. QED
  BY <1>1, <1>2, <1>3, <1>4, <1>5, ListKeeps, DeliverKeeps DEF ObserverStep

-----------------------------------------------------------------------------
(* Everything together *)

LEMMA InitIInv == Init => IInv
<1> SUFFICES ASSUME Init PROVE IInv
  OBVIOUS
<1>1. LogInv
  <2>1. events = <<>> /\ Len(events) = 0 /\ retentionFloor = 1
    BY DEF Init, LogInit
  <2>2. \A r \in Runs : runs[r] \in Run
    BY EventLogAssumption DEF Init, LogInit, Run
  <2>3. runs \in [Runs -> Run]
    BY <2>2 DEF Init, LogInit
  <2>4. QED
    BY <2>1, <2>3, EventLogAssumption DEF LogInv, LogTypeOK, MessagesStreamed
<1>2. ConsumerInv
  <2>1. /\ checkpoint \in [Consumer -> Cursor] /\ sub \in [Consumer -> Subscription]
        /\ \A c \in Consumer : /\ checkpoint[c] = NoCursor /\ sub[c] = Off /\ handled[c] = {}
    BY <1>1, OffTyped, EventLogAssumption DEF Init, ConsumerInit, NoCursor, Cursor
  <2>2. ConsumerTypeOK
    BY <2>1, ConsumersAssumption DEF Init, ConsumerInit, ConsumerTypeOK, Subscription
  <2>3. ASSUME NEW c \in Consumer PROVE Delivering(c)
    <3>1. /\ Len(events) \in Nat /\ retentionFloor = 1
      BY <1>1, LogNumbers DEF Init, LogInit
    <3>2. QED
      BY <2>1, <3>1
      DEF Delivering, Positioned, BatchFollows, HandledSoFar, CheckpointVouches, CaughtUp,
          Reading, Off, Expired, NoCursor
  <2>4. QED
    BY <2>2, <2>3 DEF ConsumerInv
<1>3. ObserverInv
  <2>1. /\ obs = [at |-> "off", cursor |-> NoCursor, batch |-> <<>>]
        /\ buffer = <<>> /\ shown = <<>> /\ cleared = FALSE /\ obs.batch = <<>> /\ obs.cursor = 0
    BY DEF Init, ObserverInit, NoCursor
  <2>2. ObserverTypeOK
    <3>1. NoCursor \in 0 .. MaxEvents
      BY EventLogAssumption DEF NoCursor
    <3>2. obs \in [at: {"off", "top", "listed", "batch", "done", "refused"},
                   cursor: 0 .. MaxEvents, batch: Seq(1 .. MaxEvents)]
      BY <2>1, <3>1, EmptyBatch
    <3>3. buffer \in Seq(Transient) /\ Len(buffer) <= MaxBuffered
      BY <2>1, EmptyQueue, ObserverAssumption
    <3>4. shown \in Seq(1 .. MaxEvents)
      BY <2>1, EmptyBatch
    <3>5. QED
      BY <2>1, <3>2, <3>3, <3>4 DEF ObserverTypeOK
  <2>3. Len(events) \in Nat
    BY <1>1, LogNumbers
  <2>4. QED
    BY <2>1, <2>2, <2>3, EmptyBatch DEF ObserverInv, Ordered, Shown, InLogOrder, NoDeltaAfterMessage, NoCursor
<1>4. QED
  BY <1>1, <1>2, <1>3 DEF IInv

LEMMA NextIInv == IInv /\ [Next]_vars => IInv'
<1> SUFFICES ASSUME LogInv, ConsumerInv, ObserverInv, [Next]_vars PROVE IInv'
  BY DEF IInv
<1>1. ASSUME NEW r \in Runs, LogStep(r), UNCHANGED <<consumerVars, observerVars>> PROVE IInv'
  <2>1. LogInv' /\ ConsumerInv' /\ LogGrows
    BY <1>1, LogStepKeeps
  <2>2. QED
    BY <1>1, <2>1, ObserverWaits DEF IInv
<1>2. ASSUME NEW c \in Consumer, Consume(c) \/ ConsumerStep(c) \/ Stop(c), UNCHANGED observerVars
      PROVE  IInv'
  <2>1. ConsumerInv'
    BY <1>2, ConsumeKeeps, PollKeeps, HandleKeeps, AdvanceKeeps, ListenerGivesUpKeeps, StopKeeps
    DEF ConsumerStep
  <2>2. UNCHANGED logVars
    BY <1>2 DEF Consume, ConsumerStep, Poll, Handle, Advance, ListenerGivesUp, Stop
  <2>3. LogInv' /\ LogGrows
    BY <2>2, LogStutters
  <2>4. QED
    BY <1>2, <2>1, <2>3, ObserverWaits DEF IInv
<1>3. ASSUME NEW cutoff \in 1 .. Len(events), Compact(cutoff), UNCHANGED observerVars PROVE IInv'
  <2>1. LogInv' /\ ConsumerInv' /\ LogGrows
    BY <1>3, CompactKeeps
  <2>2. QED
    BY <1>3, <2>1, ObserverWaits DEF IInv
<1>4. CASE ProcessEnds
  <2>1. LogInv' /\ ConsumerInv' /\ LogGrows
    BY <1>4, EndProcessKeeps DEF ProcessEnds
  <2>2. QED
    BY <1>4, <2>1, ProcessEndsKeeps DEF IInv
\* What does not touch the log or a consumer.
<1>5. ASSUME UNCHANGED <<logVars, consumerVars>>, ObserverInv' PROVE IInv'
  <2>1. LogInv' /\ LogGrows
    BY <1>5, LogStutters
  <2>2. UNCHANGED <<checkpoint, reports, sub, restarts, handled>>
    BY <1>5 DEF consumerVars
  <2>3. ASSUME NEW c \in Consumer PROVE Delivering(c)'
    <3>1. checkpoint[c] # NoCursor => retentionFloor' - 1 <= checkpoint[c]
      BY <1>5, ConsumerTypes, LogNumbers DEF ConsumerInv, Delivering, Positioned, Expired, logVars
    <3>2. QED
      BY <2>1, <2>2, <3>1, Waits DEF ConsumerInv
  <2>4. ConsumerInv'
    BY <2>2, <2>3 DEF ConsumerInv, ConsumerTypeOK
  <2>5. QED
    BY <1>5, <2>1, <2>4 DEF IInv
<1>6. ASSUME Observe(NoCursor) \/ (\E t \in Transient : Publish(t)) \/ ClearTransients \/ Abort \/ ObserverStep,
             UNCHANGED consumerVars
      PROVE  IInv'
  <2>1. ObserverInv'
    <3>1. CASE Abort
      BY <3>1, GoKeeps DEF Abort
    <3>2. QED
      BY <1>6, <3>1, ObserveKeeps, PublishKeeps, ClearTransientsKeeps, ObserverStepKeeps
  <2>2. UNCHANGED logVars
    BY <1>6
    DEF Observe, Publish, ClearTransients, Abort, ObserverStep, TopTransient, CheckRun, List,
        ListedTransient, BatchTransient, EndOfBatch, Deliver, YieldTransient, Go
  <2>3. QED
    BY <1>5, <1>6, <2>1, <2>2
<1>7. CASE UNCHANGED vars
  <2>1. UNCHANGED <<logVars, consumerVars, observerVars>>
    BY <1>7 DEF vars
  <2>2. ObserverInv'
    BY <2>1, LogStutters, ObserverWaits
  <2>3. QED
    BY <1>5, <2>1, <2>2
<1>8. QED
  BY <1>1, <1>2, <1>3, <1>4, <1>6, <1>7 DEF Next

LEMMA Invariant == Spec => []IInv
<1>1. IInv /\ [Next]_vars => IInv'
  BY NextIInv
<1>2. QED
  BY InitIInv, <1>1, PTL DEF Spec

(* Every variable keeps its type: the log, the Runs, each subscription and *)
(* the observer, and the observer's queue never exceeds its length.        *)
THEOREM TypeCorrect == Spec => []TypeOK
<1>1. IInv => TypeOK
  BY DEF IInv, LogInv, ConsumerInv, ObserverInv, TypeOK
<1>2. QED
  BY <1>1, Invariant, PTL

(* A checkpoint vouches for everything before it (advanceConsumerCheckpoint *)
(* after onEvent), whatever stops, restarts and compactions came between.  *)
THEOREM NoEventSkipped == Spec => []NothingSkipped
<1>1. IInv => NothingSkipped
  BY DEF IInv, ConsumerInv, Delivering, CheckpointVouches, NothingSkipped
<1>2. QED
  BY <1>1, Invariant, PTL

(* When a subscription's `caughtUp` has resolved, all that was in the log  *)
(* when it was registered is handled, unless it resolved because the       *)
(* consumer was stopped (the end of runConsumer's loop).                   *)
THEOREM CaughtUpIsHandled == Spec => []CaughtUpMeansHandled
<1>1. IInv => CaughtUpMeansHandled
  BY DEF IInv, ConsumerInv, Delivering, CheckpointVouches, CaughtUpMeansHandled
<1>2. QED
  BY <1>1, Invariant, PTL

(* compact() leaves every checkpoint readable, and a subscription reads on *)
(* from its own checkpoint.                                                *)
THEOREM NoCursorLost == Spec => []CursorsSurvive
<1>1. IInv => CursorsSurvive
  BY DEF IInv, ConsumerInv, Delivering, Positioned, CursorsSurvive
<1>2. QED
  BY <1>1, Invariant, PTL

(* observe() shows the log in its order, each event once, and no text of a *)
(* Message it has shown.                                                   *)
THEOREM ObserverIsFaithful == Spec => []ObserverSeesTheLog
<1>1. IInv => ObserverSeesTheLog
  BY DEF IInv, ObserverInv, Shown, ObserverSeesTheLog
<1>2. QED
  BY <1>1, Invariant, PTL

(* A consumer is given again only what it handled last, and only when its  *)
(* checkpoint was not advanced past it.                                    *)
THEOREM AtMostOneRedelivery == Spec => RedeliversOnlyLast
<1> DEFINE Only(c) == (sub[c].at = "handling" /\ sub'[c].at = "advancing") =>
                        LET e == Head(sub[c].batch) IN
                        /\ e > checkpoint[c]
                        /\ \A h \in handled[c] : h <= e
<1>1. IInv => \A c \in Consumer : Only(c)
  <2> SUFFICES ASSUME LogInv, ConsumerInv, NEW c \in Consumer, sub[c].at = "handling"
               PROVE  /\ Head(sub[c].batch) > checkpoint[c]
                      /\ \A h \in handled[c] : h <= Head(sub[c].batch)
    BY DEF IInv
  <2> DEFINE e == sub[c].batch[1]
  <2>1. Reading(c)
    BY DEF Reading
  <2>2. Head(sub[c].batch) = e /\ e \in 1 .. Len(events)
    BY <2>1, BatchParts
  <2>3. /\ IF checkpoint[c] = NoCursor THEN e <= retentionFloor ELSE e = checkpoint[c] + 1
        /\ \A h \in handled[c] : h <= e
    BY <2>1 DEF ConsumerInv, Delivering, BatchFollows, HandledSoFar
  <2> HIDE DEF e
  <2>4. checkpoint[c] \in Nat /\ Len(events) \in Nat
    BY ConsumerTypes, LogNumbers DEF ConsumerInv
  <2>5. e > checkpoint[c]
    BY <2>2, <2>3, <2>4 DEF NoCursor
  <2>6. QED
    BY <2>2, <2>3, <2>5
<1>2. IInv => [\A c \in Consumer : Only(c)]_<<consumerVars, logVars>>
  BY <1>1
<1> HIDE DEF Only
<1>3. Spec => [][\A c \in Consumer : Only(c)]_<<consumerVars, logVars>>
  BY <1>2, Invariant, PTL
<1>4. QED
  BY <1>3 DEF RedeliversOnlyLast, Only
=============================================================================
