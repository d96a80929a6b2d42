---------------------------- MODULE SqliteStore -----------------------------
(***************************************************************************)
(* The Store on SQLite: the owner row, the Store in memory that each       *)
(* SqliteStore object caches for its owner, and the transactions that      *)
(* bring its changes to the tables                                         *)
(* (packages/agent/src/runtime/sqlite-durable-store.ts).                   *)
(*                                                                         *)
(* What an operation does is RunStore's.  Here a Run is created, claimed   *)
(* and ended, which is enough to tell a row that was written from one that *)
(* was not.  A transaction is one step: it is synchronous in its process   *)
(* and BEGIN IMMEDIATE keeps the other processes out.  Every Runtime opens *)
(* the Store under an ownerId of its own, so the epoch identifies a lease. *)
(***************************************************************************)
EXTENDS Naturals

CONSTANTS
  Instance,  \* SqliteStore objects over the same file
  Run,       \* Runs
  MaxEpoch   \* bound on the owners

ASSUME MaxEpochAssumption == MaxEpoch \in Nat

State == {"absent", "queued", "running", "ended"}
Rank == [absent |-> 0, queued |-> 1, running |-> 2, ended |-> 3]
Epoch == 0..MaxEpoch
Row == [state: State, epoch: Epoch]
Rows == [Run -> Row]
Facts == Run \X State
NoRows == [r \in Run |-> [state |-> "absent", epoch |-> 0]]
NoCache == [epoch |-> 0, rows |-> NoRows, torn |-> {}]

VARIABLES
  db,          \* what is committed: the owner row and the tables
  held,        \* the leases that were returned for each instance
  cache,       \* cachedMemory with the epoch of cachedOwner, and the changes
               \* of failed transactions that stayed in it
  reading,     \* the lease of a read that has passed its check
  told         \* the last state of each Run that a caller was told, by a
               \* result or by a read, from what was not torn

vars == <<db, held, cache, reading, told>>

TypeOK ==
  /\ db \in [owned: BOOLEAN, live: BOOLEAN, epoch: Epoch, rows: Rows]
  /\ held \in [Instance -> SUBSET (1..MaxEpoch)]
  /\ cache \in [Instance -> [epoch: Epoch, rows: Rows, torn: SUBSET Facts]]
  /\ reading \in [Instance -> Epoch]
  /\ told \in [Run -> State]

Init ==
  /\ db = [owned |-> FALSE, live |-> FALSE, epoch |-> 0, rows |-> NoRows]
  /\ held = [s \in Instance |-> {}]
  /\ cache = [s \in Instance |-> NoCache]
  /\ reading = [s \in Instance |-> 0]
  /\ told = [r \in Run |-> "absent"]

-----------------------------------------------------------------------------
(* The Store in memory *)

\* interruptOwner: the attempts of this and of earlier owners.
Orphans(rows, e) == {r \in Run : rows[r].state = "running" /\ rows[r].epoch <= e}
Interrupted(rows, e) ==
  [r \in Run |-> IF r \in Orphans(rows, e) THEN [state |-> "ended", epoch |-> 0] ELSE rows[r]]

\* An operation is valid for the state it finds, or it was done before and its
\* receipt is returned.
Before == [queued |-> "absent", running |-> "queued", ended |-> "running"]
Fits(rows, r, to) == rows[r].state = Before[to]
HasReceipt(rows, r, to) == to \in {"queued", "running"} /\ rows[r].state = to
Done(rows, e, r, to) ==
  IF Fits(rows, r, to)
  THEN [rows EXCEPT ![r] = [state |-> to, epoch |-> IF to = "running" THEN e ELSE 0]]
  ELSE rows

\* The cache is used only under the lease it was filled for.
Memory(s, e) == IF cache[s].epoch = e THEN cache[s].rows ELSE db.rows

\* persistChanges writes the rows that the tracker has recorded, and no other.
Persisted(rows, tracker) == [r \in Run |-> IF r \in tracker THEN rows[r] ELSE db.rows[r]]

Torn(s, e) == IF cache[s].epoch = e THEN cache[s].torn ELSE {}
Cached(s, e, rows, torn) ==
  cache' = [cache EXCEPT ![s] = [epoch |-> e, rows |-> rows, torn |-> torn]]
DropCache(s) == cache' = [cache EXCEPT ![s] = NoCache]

Tell(facts) ==
  told' = [r \in Run |->
    IF \E f \in facts : f[1] = r /\ Rank[f[2]] > Rank[told[r]]
    THEN (CHOOSE f \in facts : f[1] = r)[2] ELSE told[r]]

-----------------------------------------------------------------------------
(* Ownership *)

Matches(s, e) == reading[s] = 0 /\ e \in held[s] /\ db.owned /\ e = db.epoch
MatchesLive(s, e) == Matches(s, e) /\ db.live

RecorderAttachedLate == {}  \* mutant: the interruption exists in memory only
RecordedAtOpening == Orphans(db.rows, db.epoch)

\* openOwner.  The cache is set before COMMIT, for a lease that is not returned
\* when COMMIT fails.
OpenOwner(s) ==
  /\ reading[s] = 0 /\ db.epoch < MaxEpoch
  /\ ~(db.owned /\ db.live)
  /\ LET epoch == db.epoch + 1
         rows == Interrupted(db.rows, db.epoch)
     IN /\ Cached(s, epoch, rows, {})
        /\ \/ /\ db' = [owned |-> TRUE, live |-> TRUE, epoch |-> epoch,
                        rows |-> Persisted(rows, RecordedAtOpening)]
              /\ held' = [held EXCEPT ![s] = @ \cup {epoch}]
           \/ UNCHANGED <<db, held>>
  /\ UNCHANGED <<reading, told>>

\* A late heartbeat revives the lease unless a newer owner has opened.
RenewOwner(s, e) ==
  /\ Matches(s, e)
  /\ db' = [db EXCEPT !.live = TRUE]
  /\ UNCHANGED <<held, cache, reading, told>>

\* Time passes.
Expire ==
  /\ db.owned /\ db.live
  /\ db' = [db EXCEPT !.live = FALSE]
  /\ UNCHANGED <<held, cache, reading, told>>

\* sealAndReleaseOwner.  When the tables cannot be written the cache keeps the
\* interruption; when COMMIT fails it was dropped before.
Seal(s, e) ==
  /\ Matches(s, e)
  /\ LET rows == Interrupted(Memory(s, e), e)
         orphans == Orphans(Memory(s, e), e)
     IN \/ /\ DropCache(s)
           /\ \/ db' = [owned |-> FALSE, live |-> FALSE, epoch |-> db.epoch,
                        rows |-> Persisted(rows, orphans)]
              \/ UNCHANGED db
        \/ /\ Cached(s, e, rows, Torn(s, e) \cup (orphans \X {"ended"}))
           /\ UNCHANGED db
  /\ UNCHANGED <<held, reading, told>>

\* The process ends.  Its transaction, if it had one, is rolled back.
Crash(s) ==
  /\ held[s] # {} \/ cache[s] # NoCache
  /\ held' = [held EXCEPT ![s] = {}]
  /\ DropCache(s)
  /\ reading' = [reading EXCEPT ![s] = 0]
  /\ UNCHANGED <<db, told>>

-----------------------------------------------------------------------------
(* Writing and reading *)

Valid(s, e, r, to) ==
  /\ MatchesLive(s, e)
  /\ Fits(Memory(s, e), r, to) \/ HasReceipt(Memory(s, e), r, to)

\* The rows the operation has changed.
Tracked(s, e, r, to) == IF Fits(Memory(s, e), r, to) THEN {r} ELSE {}

Commit(s, e, r, to) ==
  LET rows == Done(Memory(s, e), e, r, to)
  IN /\ Valid(s, e, r, to)
     /\ Cached(s, e, rows, Torn(s, e))
     /\ db' = [db EXCEPT !.rows = Persisted(rows, Tracked(s, e, r, to))]
     /\ Tell({<<r, to>>} \ Torn(s, e))
     /\ UNCHANGED <<held, reading>>

\* COMMIT itself fails: the transaction is rolled back and the cache is not.
CommitFails(s, e, r, to) ==
  /\ Valid(s, e, r, to)
  /\ Cached(s, e, Done(Memory(s, e), e, r, to), Torn(s, e) \cup (Tracked(s, e, r, to) \X {to}))
  /\ UNCHANGED <<db, held, reading, told>>

\* The tables or the mirror cannot be written.
AfterFailureKept(s, e, rows) == Cached(s, e, rows, {})  \* mutant: the cache survives a failed write
AfterFailure(s, e, rows) == DropCache(s)

PersistFails(s, e, r, to) ==
  /\ Valid(s, e, r, to)
  /\ AfterFailure(s, e, Done(Memory(s, e), e, r, to))
  /\ UNCHANGED <<db, held, reading, told>>

OperationThrows(s, e, r, to) ==
  /\ MatchesLive(s, e) /\ ~Valid(s, e, r, to)
  /\ DropCache(s)
  /\ UNCHANGED <<db, held, reading, told>>

\* A read is two statements and no transaction: another process may come
\* between the check of the owner and the load of the tables.
ReadChecks(s, e) ==
  /\ MatchesLive(s, e)
  /\ reading' = [reading EXCEPT ![s] = e]
  /\ UNCHANGED <<db, held, cache, told>>

ReadServes(s) ==
  /\ reading[s] # 0
  /\ LET rows == Memory(s, reading[s])
         torn == Torn(s, reading[s])
     IN /\ Cached(s, reading[s], rows, torn)
        /\ Tell({<<r, rows[r].state>> : r \in Run} \ torn)
  /\ reading' = [reading EXCEPT ![s] = 0]
  /\ UNCHANGED <<db, held>>

-----------------------------------------------------------------------------

Operation(s, e, r, to) ==
  \/ Commit(s, e, r, to) \/ CommitFails(s, e, r, to)
  \/ PersistFails(s, e, r, to) \/ OperationThrows(s, e, r, to)

Next ==
  \/ Expire
  \/ \E s \in Instance :
       \/ OpenOwner(s) \/ Crash(s) \/ ReadServes(s)
       \/ \E e \in 1..MaxEpoch :
            \/ RenewOwner(s, e) \/ Seal(s, e) \/ ReadChecks(s, e)
            \/ \E r \in Run, to \in DOMAIN Before : Operation(s, e, r, to)

Spec == Init /\ [][Next]_vars

-----------------------------------------------------------------------------
(* Properties *)

\* What a caller was told, by the result of an operation, of its retry or by a
\* read, is in the database or has been overtaken there, whoever has taken the
\* Store over since.  Only what a failed COMMIT or a failed seal has left in the
\* cache is not counted as told.
ToldIsDurable == \A r \in Run : Rank[db.rows[r].state] >= Rank[told[r]]

\* A Run that is running in the tables is running under the newest owner: no
\* attempt of an earlier one survives an opening, however that owner went.
EarlierOwnersLeaveNothing ==
  \A r \in Run : db.rows[r].state = "running" => db.rows[r].epoch = db.epoch
=============================================================================
