------------------------- MODULE SqliteStoreProofs --------------------------
(***************************************************************************)
(* What SqliteStore promises, for every number of processes, Runs and      *)
(* owners.                                                                 *)
(***************************************************************************)
EXTENDS SqliteStore, TLAPS

-----------------------------------------------------------------------------
(* The states of a Run are ordered, and the operators keep the types *)

LEMMA Ranks ==
  /\ \A st \in State : Rank[st] \in Nat /\ Rank["ended"] >= Rank[st]
  /\ \A to \in DOMAIN Before :
       to \in State /\ Before[to] \in State /\ Rank[to] = Rank[Before[to]] + 1
  BY DEF State, Rank, Before

LEMMA RowsTyped ==
  ASSUME TypeOK, NEW rows \in Rows, NEW e \in Epoch
  PROVE  /\ Interrupted(rows, e) \in Rows
         /\ Orphans(rows, e) \subseteq Run
         /\ \A r \in Run : \A to \in DOMAIN Before : Done(rows, e, r, to) \in Rows
         /\ \A tracker : Persisted(rows, tracker) \in Rows
<1>0. 0 \in Epoch /\ "ended" \in State /\ db.rows \in Rows
  BY MaxEpochAssumption DEF Epoch, State, TypeOK
<1>1. Orphans(rows, e) \subseteq Run
  BY DEF Orphans
<1>2. Interrupted(rows, e) \in Rows
  BY <1>0 DEF Interrupted, Rows, Row
<1>3. ASSUME NEW r \in Run, NEW to \in DOMAIN Before
      PROVE  Done(rows, e, r, to) \in Rows
  <2>1. [state |-> to, epoch |-> IF to = "running" THEN e ELSE 0] \in Row
    BY <1>0, Ranks DEF Row
  <2>2. QED
    BY <2>1 DEF Done, Rows
<1>4. ASSUME NEW tracker PROVE Persisted(rows, tracker) \in Rows
  BY <1>0 DEF Persisted, Rows
<1>5. QED
  BY <1>1, <1>2, <1>3, <1>4

LEMMA MemoryTyped ==
  ASSUME TypeOK, NEW s \in Instance, NEW e
  PROVE  Memory(s, e) \in Rows /\ Torn(s, e) \subseteq Facts
  BY DEF Memory, Torn, TypeOK

LEMMA CacheTyped ==
  ASSUME TypeOK, NEW s \in Instance, NEW e \in Epoch, NEW rows \in Rows,
         NEW torn \in SUBSET Facts, Cached(s, e, rows, torn) \/ DropCache(s)
  PROVE  cache' \in [Instance -> [epoch: Epoch, rows: Rows, torn: SUBSET Facts]]
<1>1. NoCache \in [epoch: Epoch, rows: Rows, torn: SUBSET Facts]
  BY MaxEpochAssumption DEF NoCache, NoRows, Rows, Row, State, Epoch
<1>2. QED
  BY <1>1 DEF Cached, DropCache, TypeOK

\* What is told is one of the facts or was told before.
LEMMA Told ==
  ASSUME NEW facts \in SUBSET Facts, told \in [Run -> State], Tell(facts)
  PROVE  /\ told' \in [Run -> State]
         /\ \A r \in Run : told'[r] = told[r] \/ <<r, told'[r]>> \in facts
<1>1. ASSUME NEW r \in Run, \E f \in facts : f[1] = r
      PROVE  /\ (CHOOSE f \in facts : f[1] = r)[2] \in State
             /\ <<r, (CHOOSE f \in facts : f[1] = r)[2]>> \in facts
  <2>1. PICK f \in facts : f = (CHOOSE g \in facts : g[1] = r) /\ f[1] = r
    BY <1>1
  <2>2. f = <<f[1], f[2]>> /\ f[2] \in State
    BY <2>1 DEF Facts
  <2>3. QED
    BY <2>1, <2>2
<1>2. \A r \in Run : /\ told'[r] \in State
                     /\ told'[r] = told[r] \/ <<r, told'[r]>> \in facts
  BY <1>1 DEF Tell
<1>3. QED
  BY <1>2 DEF Tell

-----------------------------------------------------------------------------
(* Types *)

LEMMA TypeInit == Init => TypeOK
  BY MaxEpochAssumption
  DEF Init, TypeOK, NoCache, NoRows, Rows, Row, State, Epoch

LEMMA TypeStep == TypeOK /\ [Next]_vars => TypeOK'
<1> SUFFICES ASSUME TypeOK, [Next]_vars PROVE TypeOK'
  OBVIOUS
<1>0. /\ \A e \in 1..MaxEpoch : e \in Epoch
      /\ 0 \in Epoch /\ db.epoch \in Epoch /\ db.rows \in Rows /\ {} \in SUBSET Facts
      /\ \A s \in Instance : reading[s] \in Epoch
  BY MaxEpochAssumption DEF Epoch, TypeOK
<1>1. CASE Expire
  BY <1>1 DEF Expire, TypeOK
<1>2. ASSUME NEW s \in Instance, OpenOwner(s) PROVE TypeOK'
  <2> DEFINE epoch == db.epoch + 1
             rows == Interrupted(db.rows, db.epoch)
             written == Persisted(rows, RecordedAtOpening)
  <2>1. epoch \in 1..MaxEpoch /\ epoch \in Epoch
    BY <1>0, <1>2, MaxEpochAssumption DEF OpenOwner, Epoch
  <2>2. rows \in Rows /\ written \in Rows
    BY <1>0, RowsTyped
  <2>3. cache' \in [Instance -> [epoch: Epoch, rows: Rows, torn: SUBSET Facts]]
    BY <1>0, <1>2, <2>1, <2>2, CacheTyped DEF OpenOwner
  <2>4. \/ /\ db' = [owned |-> TRUE, live |-> TRUE, epoch |-> epoch, rows |-> written]
           /\ held' = [held EXCEPT ![s] = held[s] \cup {epoch}]
        \/ UNCHANGED <<db, held>>
    BY <1>2 DEF OpenOwner
  <2> HIDE DEF epoch, rows, written
  <2>5. db' \in [owned: BOOLEAN, live: BOOLEAN, epoch: Epoch, rows: Rows]
    <3>1. [owned |-> TRUE, live |-> TRUE, epoch |-> epoch, rows |-> written]
          \in [owned: BOOLEAN, live: BOOLEAN, epoch: Epoch, rows: Rows]
      BY <2>1, <2>2
    <3>2. db \in [owned: BOOLEAN, live: BOOLEAN, epoch: Epoch, rows: Rows]
      BY DEF TypeOK
    <3>3. QED
      BY <2>4, <3>1, <3>2
  <2>6. held' \in [Instance -> SUBSET (1..MaxEpoch)]
    BY <2>1, <2>4 DEF TypeOK
  <2>7. UNCHANGED <<reading, told>>
    BY <1>2 DEF OpenOwner
  <2>8. QED
    BY <2>3, <2>5, <2>6, <2>7 DEF TypeOK
<1>3. ASSUME NEW s \in Instance, Crash(s) PROVE TypeOK'
  <2>1. cache' \in [Instance -> [epoch: Epoch, rows: Rows, torn: SUBSET Facts]]
    BY <1>0, <1>3, CacheTyped DEF Crash
  <2>2. QED
    BY <1>0, <1>3, <2>1 DEF Crash, TypeOK
<1>4. ASSUME NEW s \in Instance, ReadServes(s) PROVE TypeOK'
  <2> DEFINE rows == Memory(s, reading[s])
             torn == Torn(s, reading[s])
  <2>1. rows \in Rows /\ torn \in SUBSET Facts
    BY MemoryTyped
  <2>2. cache' \in [Instance -> [epoch: Epoch, rows: Rows, torn: SUBSET Facts]]
    BY <1>0, <1>4, <2>1, CacheTyped DEF ReadServes
  <2>3. {<<r, rows[r].state>> : r \in Run} \ torn \in SUBSET Facts
    BY <2>1 DEF Rows, Row, Facts
  <2>4. told' \in [Run -> State]
    BY <1>4, <2>3, Told DEF ReadServes, TypeOK
  <2>5. QED
    BY <1>0, <1>4, <2>2, <2>4 DEF ReadServes, TypeOK
<1>5. ASSUME NEW s \in Instance, NEW e \in 1..MaxEpoch, RenewOwner(s, e) PROVE TypeOK'
  BY <1>5 DEF RenewOwner, TypeOK
<1>6. ASSUME NEW s \in Instance, NEW e \in 1..MaxEpoch, Seal(s, e) PROVE TypeOK'
  <2> DEFINE rows == Interrupted(Memory(s, e), e)
             orphans == Orphans(Memory(s, e), e)
             torn == Torn(s, e) \cup (orphans \X {"ended"})
             written == Persisted(rows, orphans)
  <2>1. rows \in Rows /\ written \in Rows /\ orphans \subseteq Run
    BY <1>0, MemoryTyped, RowsTyped
  <2>2. torn \in SUBSET Facts
    BY <2>1, MemoryTyped DEF Facts, State
  <2>3. cache' \in [Instance -> [epoch: Epoch, rows: Rows, torn: SUBSET Facts]]
    BY <1>0, <1>6, <2>1, <2>2, CacheTyped DEF Seal
  <2>4. \/ db' = [owned |-> FALSE, live |-> FALSE, epoch |-> db.epoch, rows |-> written]
        \/ UNCHANGED db
    BY <1>6 DEF Seal
  <2> HIDE DEF rows, orphans, written
  <2>5. db' \in [owned: BOOLEAN, live: BOOLEAN, epoch: Epoch, rows: Rows]
    <3>1. [owned |-> FALSE, live |-> FALSE, epoch |-> db.epoch, rows |-> written]
          \in [owned: BOOLEAN, live: BOOLEAN, epoch: Epoch, rows: Rows]
      BY <1>0, <2>1
    <3>2. db \in [owned: BOOLEAN, live: BOOLEAN, epoch: Epoch, rows: Rows]
      BY DEF TypeOK
    <3>3. QED
      BY <2>4, <3>1, <3>2
  <2>6. UNCHANGED <<held, reading, told>>
    BY <1>6 DEF Seal
  <2>7. QED
    BY <2>3, <2>5, <2>6 DEF TypeOK
<1>7. ASSUME NEW s \in Instance, NEW e \in 1..MaxEpoch, ReadChecks(s, e) PROVE TypeOK'
  BY <1>0, <1>7 DEF ReadChecks, TypeOK
<1>8. ASSUME NEW s \in Instance, NEW e \in 1..MaxEpoch, NEW r \in Run, NEW to \in DOMAIN Before,
             Operation(s, e, r, to)
      PROVE  TypeOK'
  <2> DEFINE rows == Done(Memory(s, e), e, r, to)
             tracker == Tracked(s, e, r, to)
             torn == Torn(s, e) \cup (tracker \X {to})
  <2>1. rows \in Rows /\ Persisted(rows, tracker) \in Rows
    BY <1>0, MemoryTyped, RowsTyped
  <2>2. Torn(s, e) \in SUBSET Facts /\ torn \in SUBSET Facts /\ {<<r, to>>} \in SUBSET Facts
    BY MemoryTyped, Ranks DEF Facts, Tracked
  <2>3. cache' \in [Instance -> [epoch: Epoch, rows: Rows, torn: SUBSET Facts]]
    <3>1. Cached(s, e, rows, Torn(s, e)) \/ Cached(s, e, rows, torn) \/ DropCache(s)
      BY <1>8 DEF Operation, Commit, CommitFails, PersistFails, OperationThrows, AfterFailure
    <3> HIDE DEF rows, tracker, torn
    <3>2. QED
      BY <1>0, <2>1, <2>2, <3>1, CacheTyped
  <2>4. told' \in [Run -> State]
    <3>1. CASE Tell({<<r, to>>} \ Torn(s, e))
      BY <2>2, <3>1, Told DEF TypeOK
    <3>2. QED
      BY <1>8, <3>1
      DEF Operation, Commit, CommitFails, PersistFails, OperationThrows, TypeOK
  <2> HIDE DEF rows, tracker
  <2>5. db' \in [owned: BOOLEAN, live: BOOLEAN, epoch: Epoch, rows: Rows]
    BY <1>8, <2>1
    DEF Operation, Commit, CommitFails, PersistFails, OperationThrows, TypeOK, rows, tracker
  <2>6. UNCHANGED <<held, reading>>
    BY <1>8 DEF Operation, Commit, CommitFails, PersistFails, OperationThrows
  <2>7. QED
    BY <2>3, <2>4, <2>5, <2>6 DEF TypeOK
<1>9. CASE UNCHANGED vars
  BY <1>9 DEF vars, TypeOK
<1>10. QED
  BY <1>1, <1>2, <1>3, <1>4, <1>5, <1>6, <1>7, <1>8, <1>9 DEF Next

\* Whatever transactions fail, processes crash and owners come and go, the
\* tables, the caches and the leases are well formed.
THEOREM TypeCorrect == Spec => []TypeOK
  BY TypeInit, TypeStep, PTL DEF Spec

-----------------------------------------------------------------------------
(* Attempts of earlier owners *)

LEMMA EarlierInit == Init => EarlierOwnersLeaveNothing
  BY DEF Init, EarlierOwnersLeaveNothing, NoRows

LEMMA EarlierStep ==
  TypeOK /\ EarlierOwnersLeaveNothing /\ [Next]_vars => EarlierOwnersLeaveNothing'
<1> SUFFICES ASSUME TypeOK, EarlierOwnersLeaveNothing, [Next]_vars, NEW q \in Run,
                    db'.rows[q].state = "running"
             PROVE  db'.rows[q].epoch = db'.epoch
  BY DEF EarlierOwnersLeaveNothing
<1>0. /\ db.rows[q].state = "running" => db.rows[q].epoch = db.epoch
      /\ db.epoch \in Nat /\ db.rows \in Rows
  BY MaxEpochAssumption DEF EarlierOwnersLeaveNothing, TypeOK, Epoch
<1>1. CASE Expire
  BY <1>0, <1>1 DEF Expire, TypeOK
<1>2. ASSUME NEW s \in Instance, OpenOwner(s) PROVE db'.rows[q].epoch = db'.epoch
  <2> DEFINE rows == Interrupted(db.rows, db.epoch)
             written == Persisted(rows, RecordedAtOpening)
  <2>1. rows[q].state # "running" \/ ~(q \in Orphans(db.rows, db.epoch))
    BY DEF Interrupted
  <2>2. written[q].state # "running"
    <3>1. CASE q \in Orphans(db.rows, db.epoch)
      BY <2>1, <3>1 DEF Persisted, RecordedAtOpening
    <3>2. CASE q \notin Orphans(db.rows, db.epoch)
      <4>1. db.rows[q].state # "running"
        BY <1>0, <3>2 DEF Orphans
      <4>2. QED
        BY <3>2, <4>1 DEF Persisted, RecordedAtOpening
    <3>3. QED
      BY <3>1, <3>2
  <2>3. db' = db \/ db'.rows = written
    BY <1>2 DEF OpenOwner
  <2>4. QED
    BY <1>0, <2>2, <2>3
<1>3. ASSUME NEW s \in Instance, Crash(s) \/ ReadServes(s) PROVE db'.rows[q].epoch = db'.epoch
  BY <1>0, <1>3 DEF Crash, ReadServes
<1>4. ASSUME NEW s \in Instance, NEW e \in 1..MaxEpoch, RenewOwner(s, e) \/ ReadChecks(s, e)
      PROVE  db'.rows[q].epoch = db'.epoch
  BY <1>0, <1>4 DEF RenewOwner, ReadChecks, TypeOK
<1>5. ASSUME NEW s \in Instance, NEW e \in 1..MaxEpoch, Seal(s, e)
      PROVE  db'.rows[q].epoch = db'.epoch
  <2> DEFINE orphans == Orphans(Memory(s, e), e)
             rows == Interrupted(Memory(s, e), e)
             written == Persisted(rows, orphans)
  <2>1. q \in orphans => rows[q].state # "running"
    BY DEF Interrupted
  <2> HIDE DEF rows, orphans
  <2>2. written[q].state = "running" => written[q] = db.rows[q]
    BY <2>1 DEF Persisted
  <2>3. db' = db \/ (db'.rows = written /\ db'.epoch = db.epoch)
    BY <1>5 DEF Seal, rows, orphans
  <2>4. QED
    BY <1>0, <2>2, <2>3
<1>6. ASSUME NEW s \in Instance, NEW e \in 1..MaxEpoch, NEW r \in Run, NEW to \in DOMAIN Before,
             Operation(s, e, r, to)
      PROVE  db'.rows[q].epoch = db'.epoch
  <2>1. CASE UNCHANGED db
    BY <1>0, <2>1
  <2>2. CASE Commit(s, e, r, to)
    <3> DEFINE rows == Done(Memory(s, e), e, r, to)
               tracker == Tracked(s, e, r, to)
               written == Persisted(rows, tracker)
    <3>1. e = db.epoch
      BY <2>2 DEF Commit, Valid, MatchesLive, Matches
    <3>2. Memory(s, e) \in Rows
      BY MemoryTyped
    <3>3. q \in tracker => q = r /\ rows[q] = [state |-> to, epoch |-> IF to = "running" THEN e ELSE 0]
      BY <3>2 DEF Tracked, Done, Rows
    <3> HIDE DEF rows, tracker
    <3>4. q \in tracker /\ written[q].state = "running" => written[q].epoch = e
      BY <3>3 DEF Persisted
    <3>5. q \notin tracker => written[q] = db.rows[q]
      BY DEF Persisted
    <3>6. db' = [db EXCEPT !.rows = written]
      BY <2>2 DEF Commit, rows, tracker
    <3> HIDE DEF written
    <3>7. db'.rows = written /\ db'.epoch = db.epoch
      BY <3>6 DEF TypeOK
    <3>8. QED
      BY <1>0, <3>1, <3>4, <3>5, <3>7
  <2>3. QED
    BY <1>6, <2>1, <2>2 DEF Operation, CommitFails, PersistFails, OperationThrows
<1>7. CASE UNCHANGED vars
  BY <1>0, <1>7 DEF vars
<1>8. QED
  BY <1>1, <1>2, <1>3, <1>4, <1>5, <1>6, <1>7 DEF Next

\* The recorder is attached before the interruption and one transaction holds
\* both the new epoch and the interrupted rows: no attempt of an earlier owner
\* is running in the tables.
THEOREM NothingOfEarlierOwners == Spec => []EarlierOwnersLeaveNothing
<1>1. Init => TypeOK /\ EarlierOwnersLeaveNothing
  BY TypeInit, EarlierInit
<1>2. TypeOK /\ EarlierOwnersLeaveNothing /\ [Next]_vars => (TypeOK /\ EarlierOwnersLeaveNothing)'
  BY TypeStep, EarlierStep
<1>3. QED
  BY <1>1, <1>2, PTL DEF Spec

-----------------------------------------------------------------------------
(* What callers were told *)

\* A lease belongs to one instance, which reads under a lease it holds.
LeasesAreSound ==
  /\ \A s, t \in Instance : \A e \in held[s] \cap held[t] : s = t
  /\ \A s \in Instance : \A e \in held[s] : e <= db.epoch
  /\ \A s \in Instance : reading[s] # 0 => reading[s] \in held[s]

\* A cache that may be used holds nothing that is not in the tables, but for
\* what is torn; the current owner's is not behind them either.
Usable(s) == cache[s].epoch \in held[s]
NotAhead(s) == Usable(s) => \A r \in Run :
  \/ Rank[db.rows[r].state] >= Rank[cache[s].rows[r].state]
  \/ <<r, cache[s].rows[r].state>> \in cache[s].torn
NotBehind(s) == Usable(s) /\ cache[s].epoch = db.epoch => \A r \in Run :
  Rank[cache[s].rows[r].state] >= Rank[db.rows[r].state]
CachesAreSound == \A s \in Instance : NotAhead(s) /\ NotBehind(s)

IInv == TypeOK /\ LeasesAreSound /\ CachesAreSound /\ ToldIsDurable

LEMMA MemorySound ==
  ASSUME IInv, NEW s \in Instance, NEW e \in held[s], NEW r \in Run
  PROVE  /\ \/ Rank[db.rows[r].state] >= Rank[Memory(s, e)[r].state]
            \/ <<r, Memory(s, e)[r].state>> \in Torn(s, e)
         /\ e = db.epoch => Rank[Memory(s, e)[r].state] >= Rank[db.rows[r].state]
         /\ Memory(s, e)[r].state \in State
<1>1. db.rows[r].state \in State /\ cache[s].rows[r].state \in State
  BY DEF IInv, TypeOK, Rows, Row
<1>2. Rank[db.rows[r].state] >= Rank[db.rows[r].state]
  BY <1>1, Ranks
<1>3. CASE cache[s].epoch = e
  BY <1>1, <1>3 DEF IInv, CachesAreSound, NotAhead, NotBehind, Usable, Memory, Torn
<1>4. CASE cache[s].epoch # e
  BY <1>1, <1>2, <1>4 DEF Memory, Torn
<1>5. QED
  BY <1>3, <1>4

\* A step that lets the tables grow and touches one cache keeps the others
\* sound: only the instance that holds the current lease writes.
LEMMA OtherCaches ==
  ASSUME IInv, TypeOK', NEW s \in Instance,
         UNCHANGED held, db'.epoch = db.epoch,
         \A r \in Run : Rank[db'.rows[r].state] >= Rank[db.rows[r].state],
         db'.rows = db.rows \/ db.epoch \in held[s],
         NEW t \in Instance, t # s, cache'[t] = cache[t]
  PROVE  NotAhead(t)' /\ NotBehind(t)'
<1>0. \A r \in Run : /\ db.rows[r].state \in State /\ db'.rows[r].state \in State
                     /\ cache[t].rows[r].state \in State
  BY DEF IInv, TypeOK, Rows, Row
<1>1. NotAhead(t) /\ NotBehind(t)
  BY DEF IInv, CachesAreSound
<1>2. ASSUME Usable(t), NEW r \in Run,
             Rank[db.rows[r].state] >= Rank[cache[t].rows[r].state]
      PROVE  Rank[db'.rows[r].state] >= Rank[cache[t].rows[r].state]
  BY <1>0, <1>2, Ranks
<1>3. NotAhead(t)'
  BY <1>1, <1>2 DEF NotAhead, Usable
<1>4. NotBehind(t)'
  <2>1. CASE db'.rows = db.rows
    BY <1>1, <2>1 DEF NotBehind, Usable
  <2>2. CASE db.epoch \in held[s]
    BY <2>2 DEF NotBehind, Usable, IInv, LeasesAreSound
  <2>3. QED
    BY <2>1, <2>2
<1>5. QED
  BY <1>3, <1>4

\* What was told stays true while the tables grow; what is told now has to be.
LEMMA StillTold ==
  ASSUME IInv, TypeOK',
         \A r \in Run : Rank[db'.rows[r].state] >= Rank[db.rows[r].state],
         UNCHANGED told
  PROVE  ToldIsDurable'
<1>1. \A r \in Run : /\ db.rows[r].state \in State /\ db'.rows[r].state \in State
                     /\ told[r] \in State
  BY DEF IInv, TypeOK, Rows, Row
<1>2. \A r \in Run : Rank[db.rows[r].state] >= Rank[told[r]]
  BY DEF IInv, ToldIsDurable
<1>3. \A r \in Run : Rank[db'.rows[r].state] >= Rank[told[r]]
  BY <1>1, <1>2, Ranks
<1>4. QED
  BY <1>3 DEF ToldIsDurable

LEMMA NowTold ==
  ASSUME IInv, TypeOK', NEW facts \in SUBSET Facts, Tell(facts),
         \A r \in Run : Rank[db'.rows[r].state] >= Rank[db.rows[r].state],
         \A r \in Run : \A st \in State :
           <<r, st>> \in facts => Rank[db'.rows[r].state] >= Rank[st]
  PROVE  ToldIsDurable'
<1>1. \A r \in Run : /\ db.rows[r].state \in State /\ db'.rows[r].state \in State
                     /\ told[r] \in State /\ told'[r] \in State
  BY DEF IInv, TypeOK, Rows, Row
<1>2. \A r \in Run : told'[r] = told[r] \/ <<r, told'[r]>> \in facts
  BY Told DEF IInv, TypeOK
<1>3. \A r \in Run : Rank[db.rows[r].state] >= Rank[told[r]]
  BY DEF IInv, ToldIsDurable
<1>4. ASSUME NEW r \in Run PROVE Rank[db'.rows[r].state] >= Rank[told'[r]]
  <2>1. CASE told'[r] = told[r]
    BY <1>1, <1>3, <2>1, Ranks
  <2>2. CASE <<r, told'[r]>> \in facts
    BY <1>1, <2>2
  <2>3. QED
    BY <1>2, <2>1, <2>2
<1>5. QED
  BY <1>4 DEF ToldIsDurable

LEMMA Unchanged ==
  ASSUME IInv, TypeOK', UNCHANGED <<held, cache, reading>>,
         db'.rows = db.rows, db'.epoch = db.epoch, UNCHANGED told
  PROVE  LeasesAreSound' /\ CachesAreSound' /\ ToldIsDurable'
  BY DEF IInv, LeasesAreSound, CachesAreSound, NotAhead, NotBehind, Usable, ToldIsDurable

LEMMA Dropped ==
  ASSUME TypeOK, TypeOK', NEW s \in Instance, DropCache(s), held' = held \/ held'[s] = {}
  PROVE  NotAhead(s)' /\ NotBehind(s)'
<1>1. cache'[s].epoch = 0
  BY DEF DropCache, NoCache, TypeOK
<1>2. 0 \notin held'[s]
  BY MaxEpochAssumption DEF TypeOK
<1>3. QED
  BY <1>1, <1>2 DEF NotAhead, NotBehind, Usable

LEMMA LeasesKept ==
  ASSUME IInv, UNCHANGED held, db'.epoch = db.epoch,
         \A s \in Instance : reading'[s] # 0 => reading'[s] \in held[s]
  PROVE  LeasesAreSound'
  BY DEF IInv, LeasesAreSound

LEMMA OpenKeeps ==
  ASSUME IInv, TypeOK', NEW s \in Instance, OpenOwner(s)
  PROVE  LeasesAreSound' /\ CachesAreSound' /\ ToldIsDurable'
<1> DEFINE epoch == db.epoch + 1
           rows == Interrupted(db.rows, db.epoch)
           written == Persisted(rows, RecordedAtOpening)
<1>1. /\ db.epoch \in Nat /\ epoch # db.epoch
      /\ \A t \in Instance : \A e \in held[t] : e \in Nat /\ e <= db.epoch /\ e # epoch
  BY MaxEpochAssumption DEF IInv, TypeOK, Epoch, LeasesAreSound
<1>2. written = rows
  BY DEF Persisted, RecordedAtOpening, Interrupted
<1>3. \A r \in Run : /\ Rank[rows[r].state] >= Rank[db.rows[r].state]
                     /\ Rank[rows[r].state] >= Rank[rows[r].state]
                     /\ Rank[db.rows[r].state] >= Rank[db.rows[r].state]
  <2>1. \A r \in Run : db.rows[r].state \in State /\ "ended" \in State
    BY DEF IInv, TypeOK, Rows, Row, State
  <2>2. \A r \in Run : rows[r].state = "ended" \/ rows[r] = db.rows[r]
    BY DEF Interrupted
  <2> HIDE DEF rows
  <2>3. QED
    BY <2>1, <2>2, Ranks
<1>4. cache' = [cache EXCEPT ![s] = [epoch |-> epoch, rows |-> rows, torn |-> {}]]
  BY DEF OpenOwner, Cached
<1>5. /\ cache'[s].epoch = epoch /\ cache'[s].rows = rows
      /\ \A t \in Instance \ {s} : cache'[t] = cache[t]
  BY <1>4 DEF IInv, TypeOK
<1>6. UNCHANGED <<reading, told>> /\ reading[s] = 0
  BY DEF OpenOwner
<1> HIDE DEF epoch, rows, written
<1>7. CASE UNCHANGED <<db, held>>
  <2>1. LeasesAreSound'
    BY <1>6, <1>7 DEF IInv, LeasesAreSound
  <2>2. ~Usable(s)'
    BY <1>1, <1>5, <1>7 DEF Usable
  <2>3. CachesAreSound'
    BY <1>5, <1>7, <2>2 DEF IInv, CachesAreSound, NotAhead, NotBehind, Usable
  <2>4. ToldIsDurable'
    BY <1>6, <1>7 DEF IInv, ToldIsDurable
  <2>5. QED
    BY <2>1, <2>3, <2>4
<1>8. CASE /\ db' = [owned |-> TRUE, live |-> TRUE, epoch |-> epoch, rows |-> written]
           /\ held' = [held EXCEPT ![s] = held[s] \cup {epoch}]
  <2>1. db'.epoch = epoch /\ db'.rows = rows
    BY <1>2, <1>8
  <2>2. /\ held'[s] = held[s] \cup {epoch}
        /\ \A t \in Instance \ {s} : held'[t] = held[t]
    BY <1>8 DEF IInv, TypeOK
  <2>3. LeasesAreSound'
    <3>1. \A t, u \in Instance : \A e \in held'[t] \cap held'[u] : t = u
      BY <1>1, <2>2 DEF IInv, LeasesAreSound
    <3>2. \A t \in Instance : \A e \in held'[t] : e <= db'.epoch
      BY <1>1, <2>1, <2>2 DEF epoch
    <3>3. \A t \in Instance : reading'[t] # 0 => reading'[t] \in held'[t]
      BY <1>6, <2>2 DEF IInv, LeasesAreSound
    <3>4. QED
      BY <3>1, <3>2, <3>3 DEF LeasesAreSound
  <2>4. NotAhead(s)' /\ NotBehind(s)'
    BY <1>3, <1>5, <2>1 DEF NotAhead, NotBehind
  <2>5. ASSUME NEW t \in Instance, t # s PROVE NotAhead(t)' /\ NotBehind(t)'
    <3>1. cache'[t] = cache[t] /\ held'[t] = held[t]
      BY <1>5, <2>2, <2>5
    <3>2. NotBehind(t)'
      BY <1>1, <2>1, <3>1 DEF NotBehind, Usable
    <3>3. NotAhead(t)'
      <4>1. NotAhead(t)
        BY DEF IInv, CachesAreSound
      <4>2. \A r \in Run : /\ db.rows[r].state \in State /\ db'.rows[r].state \in State
                           /\ cache[t].rows[r].state \in State
        BY DEF IInv, TypeOK, Rows, Row
      <4>3. ASSUME NEW r \in Run, Rank[db.rows[r].state] >= Rank[cache[t].rows[r].state]
            PROVE  Rank[db'.rows[r].state] >= Rank[cache[t].rows[r].state]
        BY <1>3, <2>1, <4>2, <4>3, Ranks
      <4>4. QED
        BY <3>1, <4>1, <4>3 DEF NotAhead, Usable
    <3>4. QED
      BY <3>2, <3>3
  <2>6. CachesAreSound'
    BY <2>4, <2>5 DEF CachesAreSound
  <2>7. ToldIsDurable'
    BY <1>3, <1>6, <2>1, StillTold
  <2>8. QED
    BY <2>3, <2>6, <2>7
<1>9. QED
  <2>1. \/ UNCHANGED <<db, held>>
        \/ /\ db' = [owned |-> TRUE, live |-> TRUE, epoch |-> epoch, rows |-> written]
           /\ held' = [held EXCEPT ![s] = held[s] \cup {epoch}]
    BY DEF OpenOwner, epoch, rows, written
  <2>2. QED
    BY <1>7, <1>8, <2>1

LEMMA SealKeeps ==
  ASSUME IInv, TypeOK', NEW s \in Instance, NEW e \in 1..MaxEpoch, Seal(s, e)
  PROVE  LeasesAreSound' /\ CachesAreSound' /\ ToldIsDurable'
<1> DEFINE memory == Memory(s, e)
           orphans == Orphans(memory, e)
           rows == Interrupted(memory, e)
           written == Persisted(rows, orphans)
           torn == Torn(s, e) \cup (orphans \X {"ended"})
<1>1. e \in held[s] /\ e = db.epoch /\ UNCHANGED <<held, reading, told>>
  BY DEF Seal, Matches
<1>2. ASSUME NEW r \in Run
      PROVE  /\ db.rows[r].state \in State /\ memory[r].state \in State
             /\ r \in orphans => rows[r].state = "ended"
             /\ r \notin orphans => rows[r] = memory[r]
             /\ Rank[rows[r].state] >= Rank[db.rows[r].state]
             /\ Rank[written[r].state] >= Rank[db.rows[r].state]
  <2>1. db.rows[r].state \in State /\ memory[r].state \in State
    BY <1>1, MemorySound DEF IInv, TypeOK, Rows, Row
  <2>2. Rank[memory[r].state] >= Rank[db.rows[r].state]
    BY <1>1, MemorySound
  <2>3. /\ r \in orphans => rows[r].state = "ended"
        /\ r \notin orphans => rows[r] = memory[r]
    BY DEF Interrupted
  <2> HIDE DEF memory, orphans, rows
  <2>4. Rank[rows[r].state] >= Rank[db.rows[r].state]
    BY <2>1, <2>2, <2>3, Ranks
  <2>5. Rank[written[r].state] >= Rank[db.rows[r].state]
    BY <2>1, <2>4, Ranks DEF Persisted
  <2>6. QED
    BY <2>1, <2>3, <2>4, <2>5
<1>3. LeasesAreSound'
  <2>1. db'.epoch = db.epoch
    BY DEF Seal
  <2>2. QED
    BY <1>1, <2>1, LeasesKept DEF IInv, LeasesAreSound
<1>4. CASE /\ DropCache(s)
           /\ \/ db' = [owned |-> FALSE, live |-> FALSE, epoch |-> db.epoch, rows |-> written]
              \/ UNCHANGED db
  <2>1. \A r \in Run : Rank[db'.rows[r].state] >= Rank[db.rows[r].state]
    BY <1>2, <1>4, Ranks
  <2>2. db'.epoch = db.epoch
    BY <1>4
  <2>3. \A t \in Instance \ {s} : cache'[t] = cache[t]
    BY <1>4 DEF DropCache, IInv, TypeOK
  <2>4. CachesAreSound'
    BY <1>1, <1>4, <2>1, <2>2, <2>3, OtherCaches, Dropped DEF CachesAreSound, IInv
  <2>5. QED
    BY <1>1, <1>3, <2>1, <2>4, StillTold
<1>5. CASE Cached(s, e, rows, torn) /\ UNCHANGED db
  <2>1. /\ cache'[s].rows = rows /\ cache'[s].torn = torn
        /\ \A t \in Instance \ {s} : cache'[t] = cache[t]
    BY <1>5 DEF Cached, IInv, TypeOK
  <2>2. ASSUME NEW r \in Run
        PROVE  Rank[db.rows[r].state] >= Rank[rows[r].state] \/ <<r, rows[r].state>> \in torn
    <3>1. CASE r \in orphans
      BY <1>2, <3>1
    <3>2. CASE r \notin orphans
      BY <1>1, <1>2, <3>2, MemorySound
    <3>3. QED
      BY <3>1, <3>2
  <2> HIDE DEF rows, torn, orphans, written, memory
  <2>3. NotAhead(s)' /\ NotBehind(s)'
    BY <1>2, <1>5, <2>1, <2>2 DEF NotAhead, NotBehind
  <2>4. \A r \in Run : Rank[db'.rows[r].state] >= Rank[db.rows[r].state]
    BY <1>2, <1>5, Ranks
  <2>5. CachesAreSound'
    BY <1>1, <1>5, <2>1, <2>3, <2>4, OtherCaches DEF CachesAreSound
  <2>6. QED
    BY <1>1, <1>3, <2>4, <2>5, StillTold
<1>6. QED
  BY <1>4, <1>5 DEF Seal

LEMMA CrashKeeps ==
  ASSUME IInv, TypeOK', NEW s \in Instance, Crash(s)
  PROVE  LeasesAreSound' /\ CachesAreSound' /\ ToldIsDurable'
<1>1. /\ held'[s] = {} /\ reading'[s] = 0 /\ DropCache(s) /\ UNCHANGED <<db, told>>
      /\ \A t \in Instance \ {s} :
           held'[t] = held[t] /\ cache'[t] = cache[t] /\ reading'[t] = reading[t]
  BY DEF Crash, DropCache, IInv, TypeOK
<1>2. LeasesAreSound'
  BY <1>1 DEF IInv, LeasesAreSound
<1>3. NotAhead(s)' /\ NotBehind(s)'
  BY <1>1, Dropped DEF IInv
<1>4. CachesAreSound'
  BY <1>1, <1>3 DEF IInv, CachesAreSound, NotAhead, NotBehind, Usable
<1>5. ToldIsDurable'
  BY <1>1 DEF IInv, ToldIsDurable
<1>6. QED
  BY <1>2, <1>4, <1>5

LEMMA ReadKeeps ==
  ASSUME IInv, TypeOK', NEW s \in Instance, ReadServes(s)
  PROVE  LeasesAreSound' /\ CachesAreSound' /\ ToldIsDurable'
<1> DEFINE e == reading[s]
           rows == Memory(s, e)
           torn == Torn(s, e)
           facts == {<<r, rows[r].state>> : r \in Run} \ torn
<1>1. /\ e \in held[s] /\ UNCHANGED <<db, held>> /\ Tell(facts)
      /\ reading' = [reading EXCEPT ![s] = 0] /\ Cached(s, e, rows, torn)
  BY DEF ReadServes, IInv, LeasesAreSound
<1>2. \A r \in Run : /\ Rank[db.rows[r].state] >= Rank[rows[r].state] \/ <<r, rows[r].state>> \in torn
                     /\ e = db.epoch => Rank[rows[r].state] >= Rank[db.rows[r].state]
                     /\ rows[r].state \in State
  BY <1>1, MemorySound
<1>3. /\ cache'[s] = [epoch |-> e, rows |-> rows, torn |-> torn]
      /\ \A t \in Instance \ {s} : cache'[t] = cache[t]
  BY <1>1 DEF Cached, IInv, TypeOK
<1> HIDE DEF e, rows, torn
<1>4. LeasesAreSound'
  BY <1>1, LeasesKept DEF IInv, LeasesAreSound, TypeOK
<1>5. CachesAreSound'
  <2>1. /\ cache'[s].epoch = e /\ cache'[s].rows = rows /\ cache'[s].torn = torn
        /\ db' = db
    BY <1>1, <1>3
  <2>2. NotAhead(s)' /\ NotBehind(s)'
    BY <1>2, <2>1 DEF NotAhead, NotBehind
  <2>3. QED
    BY <1>1, <1>3, <2>2 DEF IInv, CachesAreSound, NotAhead, NotBehind, Usable
<1>6. ToldIsDurable'
  <2>1. facts \in SUBSET Facts
    BY <1>2 DEF Facts
  <2>2. \A r \in Run : \A st \in State :
          <<r, st>> \in facts => Rank[db'.rows[r].state] >= Rank[st]
    BY <1>1, <1>2
  <2>3. \A r \in Run : Rank[db'.rows[r].state] >= Rank[db.rows[r].state]
    BY <1>1, Ranks DEF IInv, TypeOK, Rows, Row
  <2> HIDE DEF facts
  <2>4. QED
    BY <1>1, <2>1, <2>2, <2>3, NowTold
<1>7. QED
  BY <1>4, <1>5, <1>6

\* What an operation makes of the rows in memory, and what of it is written.
LEMMA OperationRows ==
  ASSUME IInv, NEW s \in Instance, NEW e \in held[s], e = db.epoch,
         NEW r \in Run, NEW to \in DOMAIN Before, NEW q \in Run,
         NEW rows, rows = Done(Memory(s, e), e, r, to),
         NEW tracker, tracker = Tracked(s, e, r, to)
  PROVE  /\ q \in tracker => q = r /\ rows[q].state = to
         /\ q \notin tracker => rows[q] = Memory(s, e)[q]
         /\ Rank[rows[q].state] >= Rank[db.rows[q].state]
         /\ Rank[Persisted(rows, tracker)[q].state] >= Rank[db.rows[q].state]
<1> DEFINE memory == Memory(s, e)
<1>1. memory \in Rows /\ db.rows \in Rows
  BY MemoryTyped DEF IInv, TypeOK
<1>2. memory[q].state \in State /\ db.rows[q].state \in State
  BY <1>1 DEF Rows, Row
<1>3. Rank[memory[q].state] >= Rank[db.rows[q].state]
  BY MemorySound
<1>4. q \in tracker => q = r /\ rows[q].state = to /\ memory[q].state = Before[to]
  BY <1>1 DEF Tracked, Fits, Done, Rows
<1>5. q \notin tracker => rows[q] = memory[q]
  BY <1>1 DEF Tracked, Fits, Done, Rows
<1> HIDE DEF memory
<1>6. Rank[rows[q].state] >= Rank[db.rows[q].state]
  <2>1. CASE q \in tracker
    BY <1>2, <1>3, <1>4, <2>1, Ranks
  <2>2. CASE q \notin tracker
    BY <1>3, <1>5, <2>2
  <2>3. QED
    BY <2>1, <2>2
<1>7. Rank[Persisted(rows, tracker)[q].state] >= Rank[db.rows[q].state]
  BY <1>2, <1>6, Ranks DEF Persisted
<1>8. QED
  BY <1>4, <1>5, <1>6, <1>7 DEF memory

LEMMA OperationKeeps ==
  ASSUME IInv, TypeOK', NEW s \in Instance, NEW e \in 1..MaxEpoch,
         NEW r \in Run, NEW to \in DOMAIN Before, Operation(s, e, r, to)
  PROVE  LeasesAreSound' /\ CachesAreSound' /\ ToldIsDurable'
<1> DEFINE memory == Memory(s, e)
           rows == Done(memory, e, r, to)
           tracker == Tracked(s, e, r, to)
           written == Persisted(rows, tracker)
<1>1. e \in held[s] /\ e = db.epoch /\ UNCHANGED <<held, reading>> /\ db'.epoch = db.epoch
  BY DEF Operation, Commit, CommitFails, PersistFails, OperationThrows, Valid, MatchesLive,
         Matches, IInv, TypeOK
<1>2. LeasesAreSound'
  BY <1>1, LeasesKept DEF IInv, LeasesAreSound
<1>3. \A q \in Run : /\ q \in tracker => q = r /\ rows[q].state = to
                     /\ q \notin tracker => rows[q] = memory[q]
                     /\ Rank[rows[q].state] >= Rank[db.rows[q].state]
                     /\ Rank[written[q].state] >= Rank[db.rows[q].state]
  BY <1>1, OperationRows
<1>4. \A q \in Run : /\ Rank[db.rows[q].state] >= Rank[memory[q].state]
                        \/ <<q, memory[q].state>> \in Torn(s, e)
                     /\ memory[q].state \in State /\ db.rows[q].state \in State
  BY <1>1, MemorySound DEF IInv, TypeOK, Rows, Row
<1>5. ASSUME Cached(s, e, rows, Torn(s, e)) \/ DropCache(s)
             \/ Cached(s, e, rows, Torn(s, e) \cup (tracker \X {to}))
      PROVE  \A t \in Instance \ {s} : cache'[t] = cache[t]
  BY <1>5 DEF Cached, DropCache, IInv, TypeOK
<1>6. \A q \in Run : Rank[db.rows[q].state] >= Rank[db.rows[q].state]
  <2>1. \A st \in State : Rank[st] >= Rank[st]
    BY Ranks
  <2>2. \A q \in Run : db.rows[q].state \in State
    BY <1>4
  <2>3. QED
    BY <2>1, <2>2
<1>7. CASE Commit(s, e, r, to)
  <2>1. db'.rows = written
    BY <1>7 DEF Commit, IInv, TypeOK
  <2>2. /\ Cached(s, e, rows, Torn(s, e)) /\ Tell({<<r, to>>} \ Torn(s, e))
        /\ r \in tracker \/ memory[r].state = to
    BY <1>7 DEF Commit, Valid, HasReceipt, Tracked
  <2>3. cache'[s].rows = rows /\ cache'[s].torn = Torn(s, e)
    BY <2>2 DEF Cached, IInv, TypeOK
  <2>4. \A q \in Run : /\ q \in tracker => written[q] = rows[q]
                       /\ q \notin tracker => written[q] = db.rows[q]
    BY DEF Persisted
  <2> HIDE DEF memory, rows, tracker, written
  <2>5. \A q \in Run : /\ Rank[db'.rows[q].state] >= Rank[db.rows[q].state]
                       /\ db'.rows[q].state \in State /\ rows[q].state \in State
    BY <1>3, <2>1, <2>3 DEF IInv, TypeOK, Rows, Row
  <2>6. NotAhead(s)'
    <3>1. \A q \in Run : Rank[db'.rows[q].state] >= Rank[rows[q].state]
                         \/ <<q, rows[q].state>> \in Torn(s, e)
      <4>1. ASSUME NEW q \in Run, q \in tracker
            PROVE  Rank[db'.rows[q].state] >= Rank[rows[q].state]
        BY <2>1, <2>4, <2>5, <4>1, Ranks
      <4>2. ASSUME NEW q \in Run, q \notin tracker
            PROVE  Rank[db'.rows[q].state] >= Rank[rows[q].state]
                   \/ <<q, rows[q].state>> \in Torn(s, e)
        BY <1>3, <1>4, <2>1, <2>4, <4>2
      <4>3. QED
        BY <4>1, <4>2
    <3>2. QED
      BY <2>3, <3>1 DEF NotAhead
  <2>7. NotBehind(s)'
    <3>1. \A q \in Run : Rank[rows[q].state] >= Rank[written[q].state]
      BY <1>3, <2>1, <2>4, <2>5, Ranks
    <3>2. QED
      BY <2>1, <2>3, <3>1 DEF NotBehind
  <2>8. CachesAreSound'
    BY <1>1, <1>5, <2>2, <2>5, <2>6, <2>7, OtherCaches DEF CachesAreSound
  <2>9. ToldIsDurable'
    <3>1. to \in State /\ {<<r, to>>} \ Torn(s, e) \in SUBSET Facts
      BY Ranks DEF Facts
    <3>2. <<r, to>> \notin Torn(s, e) => Rank[db'.rows[r].state] >= Rank[to]
      <4>1. CASE r \in tracker
        BY <1>3, <2>1, <2>4, <3>1, <4>1, Ranks
      <4>2. CASE r \notin tracker
        BY <1>4, <2>1, <2>2, <2>4, <4>2
      <4>3. QED
        BY <4>1, <4>2
    <3>3. \A q \in Run : \A st \in State : <<q, st>> \in {<<r, to>>} \ Torn(s, e) =>
            Rank[db'.rows[q].state] >= Rank[st]
      BY <3>2
    <3>4. QED
      BY <2>2, <2>5, <3>1, <3>3, NowTold
  <2>10. QED
    BY <1>2, <2>8, <2>9
<1>8. CASE CommitFails(s, e, r, to)
  <2>1. UNCHANGED <<db, told>> /\ Cached(s, e, rows, Torn(s, e) \cup (tracker \X {to}))
    BY <1>8 DEF CommitFails
  <2>2. cache'[s].rows = rows /\ cache'[s].torn = Torn(s, e) \cup (tracker \X {to})
    BY <2>1 DEF Cached, IInv, TypeOK
  <2> HIDE DEF memory, rows, tracker, written
  <2>3. NotAhead(s)' /\ NotBehind(s)'
    <3>1. \A q \in Run : Rank[db.rows[q].state] >= Rank[rows[q].state]
                         \/ <<q, rows[q].state>> \in Torn(s, e) \cup (tracker \X {to})
      BY <1>3, <1>4
    <3>2. QED
      BY <1>3, <2>1, <2>2, <3>1 DEF NotAhead, NotBehind
  <2>4. \A q \in Run : Rank[db'.rows[q].state] >= Rank[db.rows[q].state]
    BY <1>6, <2>1
  <2>5. CachesAreSound'
    BY <1>1, <1>5, <2>1, <2>3, <2>4, OtherCaches DEF CachesAreSound
  <2>6. QED
    BY <1>2, <2>1, <2>4, <2>5, StillTold
<1>9. CASE PersistFails(s, e, r, to) \/ OperationThrows(s, e, r, to)
  <2>1. UNCHANGED <<db, held, told>> /\ DropCache(s)
    BY <1>9 DEF PersistFails, OperationThrows, AfterFailure
  <2>2. NotAhead(s)' /\ NotBehind(s)'
    BY <2>1, Dropped DEF IInv
  <2>3. \A q \in Run : Rank[db'.rows[q].state] >= Rank[db.rows[q].state]
    BY <1>6, <2>1
  <2>4. CachesAreSound'
    BY <1>1, <1>5, <2>1, <2>2, <2>3, OtherCaches DEF CachesAreSound
  <2>5. QED
    BY <1>2, <2>1, <2>3, <2>4, StillTold
<1>10. QED
  BY <1>7, <1>8, <1>9 DEF Operation

LEMMA InvInit == Init => IInv
<1> SUFFICES ASSUME Init PROVE IInv
  OBVIOUS
<1>1. TypeOK
  BY TypeInit
<1>2. LeasesAreSound /\ CachesAreSound
  BY DEF Init, LeasesAreSound, CachesAreSound, NotAhead, NotBehind, Usable
<1>3. ToldIsDurable
  BY DEF Init, ToldIsDurable, NoRows, Rank
<1>4. QED
  BY <1>1, <1>2, <1>3 DEF IInv

LEMMA InvStep == IInv /\ [Next]_vars => IInv'
<1> SUFFICES ASSUME IInv, [Next]_vars PROVE IInv'
  OBVIOUS
<1>0. TypeOK'
  BY TypeStep DEF IInv
<1> SUFFICES LeasesAreSound' /\ CachesAreSound' /\ ToldIsDurable'
  BY <1>0 DEF IInv
<1>1. CASE Expire
  BY <1>0, <1>1, Unchanged DEF Expire, IInv, TypeOK
<1>2. ASSUME NEW s \in Instance, OpenOwner(s) \/ Crash(s) \/ ReadServes(s)
      PROVE  LeasesAreSound' /\ CachesAreSound' /\ ToldIsDurable'
  BY <1>0, <1>2, OpenKeeps, CrashKeeps, ReadKeeps
<1>3. ASSUME NEW s \in Instance, NEW e \in 1..MaxEpoch, RenewOwner(s, e)
      PROVE  LeasesAreSound' /\ CachesAreSound' /\ ToldIsDurable'
  BY <1>0, <1>3, Unchanged DEF RenewOwner, IInv, TypeOK
<1>4. ASSUME NEW s \in Instance, NEW e \in 1..MaxEpoch, ReadChecks(s, e)
      PROVE  LeasesAreSound' /\ CachesAreSound' /\ ToldIsDurable'
  <2>1. e \in held[s] /\ reading' = [reading EXCEPT ![s] = e] /\ UNCHANGED <<db, held, cache, told>>
    BY <1>4 DEF ReadChecks, MatchesLive, Matches
  <2>2. LeasesAreSound'
    BY <2>1, LeasesKept DEF IInv, LeasesAreSound, TypeOK
  <2>3. QED
    BY <2>1, <2>2
    DEF IInv, CachesAreSound, NotAhead, NotBehind, Usable, ToldIsDurable
<1>5. ASSUME NEW s \in Instance, NEW e \in 1..MaxEpoch, Seal(s, e)
      PROVE  LeasesAreSound' /\ CachesAreSound' /\ ToldIsDurable'
  BY <1>0, <1>5, SealKeeps
<1>6. ASSUME NEW s \in Instance, NEW e \in 1..MaxEpoch, NEW r \in Run, NEW to \in DOMAIN Before,
             Operation(s, e, r, to)
      PROVE  LeasesAreSound' /\ CachesAreSound' /\ ToldIsDurable'
  BY <1>0, <1>6, OperationKeeps
<1>7. CASE UNCHANGED vars
  BY <1>7 DEF vars, IInv, LeasesAreSound, CachesAreSound, NotAhead, NotBehind, Usable, ToldIsDurable
<1>8. QED
  BY <1>1, <1>2, <1>3, <1>4, <1>5, <1>6, <1>7 DEF Next

\* What a caller was told stays true of the tables, though an instance keeps
\* its Store in memory, another process takes the Store over between the two
\* halves of a read, and transactions fail.
THEOREM NothingToldIsLost == Spec => []ToldIsDurable
<1>1. IInv => ToldIsDurable
  BY DEF IInv
<1>2. QED
  BY <1>1, InvInit, InvStep, PTL DEF Spec
=============================================================================
