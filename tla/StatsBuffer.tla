---------------------------- MODULE StatsBuffer ----------------------------
(***************************************************************************)
(* The message counters, src/internal/domain/stats/buffer.go over          *)
(* src/internal/storage/stats_repo.go.                                     *)
(*                                                                         *)
(* Handlers add to two maps under one mutex, a lifetime count per key and  *)
(* a count per key and Moscow day.  A flush takes both maps away in one    *)
(* critical section, writes them in one transaction, and puts them back    *)
(* if that failed.  Two goroutines flush: the loop of Run and App.Stop.    *)
(* A reader looks into the database first and into the maps afterwards.    *)
(***************************************************************************)
EXTENDS Naturals, FiniteSets, Functions

CONSTANTS
  Keys,      \* (user, chat) pairs
  Days,      \* Moscow calendar days
  Readers    \* calls of GetMerged or ListMergedByChat, one each

ASSUME DaysAssumption == IsFiniteSet(Days)

VARIABLES
  pending,   \* Buffer.pending
  daily,     \* Buffer.dailyPending
  flushing,  \* flusher -> where its flush is
  carried,   \* flusher -> toFlush
  carriedDaily,
  open,      \* the database is open
  db,        \* bucket stats
  dbDaily,   \* bucket stats_daily
  reading,   \* reader -> where its read is
  seen,      \* reader -> the count it has so far
  floor,     \* history: units added before the read began
  behind,    \* reader -> flushes under way when it took its entry
  overlap,   \* history: a flush was between its two halves during the read
  added      \* history: units added and not lost with a process

bufferVars == <<pending, daily, flushing, carried, carriedDaily>>
storeVars  == <<open, db, dbDaily>>
readVars   == <<reading, seen, floor, behind, overlap>>
statsVars  == <<bufferVars, storeVars, readVars, added>>

Flushers == {"loop", "stop"}

Zero == [k \in Keys |-> 0]
ZeroDaily == [d \in Days |-> Zero]

Plus(a, b) == [k \in Keys |-> a[k] + b[k]]
PlusDaily(a, b) == [d \in Days |-> Plus(a[d], b[d])]

\* Units that exist only in the memory of the process.
Uncommitted == [k \in Keys |-> pending[k] + carried["loop"][k] + carried["stop"][k]]

StatsTypeOK ==
  /\ pending \in [Keys -> Nat]
  /\ daily \in [Days -> [Keys -> Nat]]
  /\ flushing \in [Flushers -> {"no", "commit", "restore"}]
  /\ carried \in [Flushers -> [Keys -> Nat]]
  /\ carriedDaily \in [Flushers -> [Days -> [Keys -> Nat]]]
  /\ open \in BOOLEAN
  /\ db \in [Keys -> Nat]
  /\ dbDaily \in [Days -> [Keys -> Nat]]
  /\ reading \in [Readers -> {"no", "buffer", "entry", "done"}]
  /\ seen \in [Readers -> [Keys -> Nat]]
  /\ floor \in [Readers -> [Keys -> Nat]]
  /\ behind \in [Readers -> SUBSET Flushers]
  /\ overlap \in SUBSET Readers
  /\ added \in [Keys -> Nat]

StatsInit ==
  /\ pending = Zero
  /\ daily = ZeroDaily
  /\ flushing = [f \in Flushers |-> "no"]
  /\ carried = [f \in Flushers |-> Zero]
  /\ carriedDaily = [f \in Flushers |-> ZeroDaily]
  /\ open = TRUE
  /\ db = Zero
  /\ dbDaily = ZeroDaily
  /\ reading = [r \in Readers |-> "no"]
  /\ seen = [r \in Readers |-> Zero]
  /\ floor = [r \in Readers |-> Zero]
  /\ behind = [r \in Readers |-> {}]
  /\ overlap = {}
  /\ added = Zero

-----------------------------------------------------------------------------
(* Adding and flushing.                                                    *)

\* GetMerged reads the entry it found after it has released Buffer.mu, a data
\* race: what others add to an entry meanwhile is seen or not.
Racing(late, units) ==
  /\ seen' = [r \in Readers |-> IF r \in late THEN Plus(seen[r], units) ELSE seen[r]]
  /\ UNCHANGED <<reading, floor, overlap>>

\* Increment, under Buffer.mu.
Increment(k, d) ==
  /\ pending' = [pending EXCEPT ![k] = @ + 1]
  /\ daily' = [daily EXCEPT ![d][k] = @ + 1]
  /\ added' = [added EXCEPT ![k] = @ + 1]
  /\ \E late \in SUBSET {r \in Readers : reading[r] = "entry"} :
       Racing(late, [Zero EXCEPT ![k] = 1])
  /\ UNCHANGED <<flushing, carried, carriedDaily, storeVars, behind>>

\* Mutation: the daily map is not swapped together with the lifetime map.
SwapLifetimeOnly(f) ==
  /\ flushing[f] = "no"
  /\ pending # Zero
  /\ flushing' = [flushing EXCEPT ![f] = "commit"]
  /\ carried' = [carried EXCEPT ![f] = pending]
  /\ pending' = Zero
  /\ overlap' = {r \in Readers : reading[r] = "buffer"} \cup overlap
  /\ UNCHANGED <<daily, carriedDaily, storeVars, reading, seen, floor, behind, added>>

\* Mutation: the maps are copied for the transaction and stay where they are.
SwapCopies(f) ==
  /\ flushing[f] = "no"
  /\ pending # Zero \/ daily # ZeroDaily
  /\ flushing' = [flushing EXCEPT ![f] = "commit"]
  /\ carried' = [carried EXCEPT ![f] = pending]
  /\ carriedDaily' = [carriedDaily EXCEPT ![f] = daily]
  /\ overlap' = {r \in Readers : reading[r] = "buffer"} \cup overlap
  /\ UNCHANGED <<pending, daily, storeVars, reading, seen, floor, behind, added>>

\* The critical section that begins flush: both maps are taken away.  An
\* empty flush returns and changes nothing.
Swap(f) ==
  /\ flushing[f] = "no"
  /\ pending # Zero \/ daily # ZeroDaily
  /\ flushing' = [flushing EXCEPT ![f] = "commit"]
  /\ carried' = [carried EXCEPT ![f] = pending]
  /\ carriedDaily' = [carriedDaily EXCEPT ![f] = daily]
  /\ pending' = Zero
  /\ daily' = ZeroDaily
  /\ overlap' = {r \in Readers : reading[r] = "buffer"} \cup overlap
  /\ UNCHANGED <<storeVars, reading, seen, floor, behind, added>>

\* FlushAtomic commits: both batches in one bbolt transaction.
Commit(f) ==
  /\ flushing[f] = "commit"
  /\ open
  /\ flushing' = [flushing EXCEPT ![f] = "no"]
  /\ db' = Plus(db, carried[f])
  /\ dbDaily' = PlusDaily(dbDaily, carriedDaily[f])
  /\ carried' = [carried EXCEPT ![f] = Zero]
  /\ carriedDaily' = [carriedDaily EXCEPT ![f] = ZeroDaily]
  /\ behind' = [r \in Readers |-> behind[r] \ {f}]
  /\ UNCHANGED <<pending, daily, open, reading, seen, floor, overlap, added>>

\* FlushAtomic fails: the transaction is rolled back, or cannot begin
\* because the database is closed.
CommitFails(f) ==
  /\ flushing[f] = "commit"
  /\ flushing' = [flushing EXCEPT ![f] = "restore"]
  /\ UNCHANGED <<pending, daily, carried, carriedDaily, storeVars, readVars, added>>

\* Mutation: the old maps are put back over what was added meanwhile.
RestoreOverwrites(f) ==
  /\ flushing[f] = "restore"
  /\ flushing' = [flushing EXCEPT ![f] = "no"]
  /\ pending' = carried[f]
  /\ daily' = carriedDaily[f]
  /\ carried' = [carried EXCEPT ![f] = Zero]
  /\ carriedDaily' = [carriedDaily EXCEPT ![f] = ZeroDaily]
  /\ UNCHANGED <<storeVars, readVars, added>>

\* The critical section that puts the batches back, additively.
Restore(f) ==
  /\ flushing[f] = "restore"
  /\ flushing' = [flushing EXCEPT ![f] = "no"]
  /\ pending' = Plus(pending, carried[f])
  /\ daily' = PlusDaily(daily, carriedDaily[f])
  /\ carried' = [carried EXCEPT ![f] = Zero]
  /\ carriedDaily' = [carriedDaily EXCEPT ![f] = ZeroDaily]
  /\ \E late \in SUBSET {r \in Readers : reading[r] = "entry" /\ f \in behind[r]} :
       Racing(late, carried[f])
  /\ behind' = [r \in Readers |-> behind[r] \ {f}]
  /\ UNCHANGED <<storeVars, added>>

-----------------------------------------------------------------------------
(* Reading.                                                                *)

\* store.ListByChat or store.Get, the first half of a merged read.
ReadStore(r) ==
  /\ reading[r] = "no"
  /\ open
  /\ reading' = [reading EXCEPT ![r] = "buffer"]
  /\ seen' = [seen EXCEPT ![r] = db]
  /\ floor' = [floor EXCEPT ![r] = added]
  /\ overlap' = IF \E f \in Flushers : flushing[f] # "no"
                THEN overlap \cup {r} ELSE overlap \ {r}
  /\ UNCHANGED <<bufferVars, storeVars, behind, added>>

\* The second half of ListMergedByChat, under Buffer.mu: what is pending is
\* added.
ReadBuffer(r) ==
  /\ reading[r] = "buffer"
  /\ reading' = [reading EXCEPT ![r] = "done"]
  /\ seen' = [seen EXCEPT ![r] = Plus(@, pending)]
  /\ UNCHANGED <<bufferVars, storeVars, floor, behind, overlap, added>>

\* The second half of GetMerged looks the entry up under Buffer.mu ...
TakeEntry(r) ==
  /\ reading[r] = "buffer"
  /\ reading' = [reading EXCEPT ![r] = "entry"]
  /\ seen' = [seen EXCEPT ![r] = Plus(@, pending)]
  /\ behind' = [behind EXCEPT ![r] = {f \in Flushers : flushing[f] # "no"}]
  /\ UNCHANGED <<bufferVars, storeVars, floor, overlap, added>>

\* ... and reads its fields afterwards.
ReadEntry(r) ==
  /\ reading[r] = "entry"
  /\ reading' = [reading EXCEPT ![r] = "done"]
  /\ behind' = [behind EXCEPT ![r] = {}]
  /\ UNCHANGED <<bufferVars, storeVars, seen, floor, overlap, added>>

-----------------------------------------------------------------------------
(* The process ends, with everything it had in memory.                     *)

LoseMemory ==
  /\ pending' = Zero
  /\ daily' = ZeroDaily
  /\ flushing' = [f \in Flushers |-> "no"]
  /\ carried' = [f \in Flushers |-> Zero]
  /\ carriedDaily' = [f \in Flushers |-> ZeroDaily]
  /\ open' = TRUE
  /\ reading' = [r \in Readers |-> "no"]
  /\ seen' = [r \in Readers |-> Zero]
  /\ floor' = [r \in Readers |-> Zero]
  /\ behind' = [r \in Readers |-> {}]
  /\ overlap' = {}
  /\ added' = db
  /\ UNCHANGED <<db, dbDaily>>

StoreClosed ==
  /\ open' = FALSE
  /\ UNCHANGED <<bufferVars, db, dbDaily, readVars, added>>

FlushStep(f) == Swap(f) \/ Commit(f) \/ CommitFails(f) \/ Restore(f)
ReadStep(r) ==
  ReadStore(r) \/ ReadBuffer(r) \/ TakeEntry(r) \/ ReadEntry(r)

StatsNext ==
  \/ \E k \in Keys, d \in Days : Increment(k, d)
  \/ \E f \in Flushers : FlushStep(f)
  \/ \E r \in Readers : ReadStep(r)
  \/ LoseMemory
  \/ StoreClosed

StatsSpec == StatsInit /\ [][StatsNext]_statsVars

-----------------------------------------------------------------------------
(* What the counters promise.                                              *)

\* Whatever flushes overlap, fail and are put back, every unit added is
\* exactly once in the database or in memory (buffer.go:111-178).
Conserved == \A k \in Keys : added[k] = db[k] + Uncommitted[k]

\* What the daily counts of m come to for key k.
Total(m, k) == SumFunction([d \in Days |-> m[d][k]])

\* The two maps never drift apart: a key's lifetime count is the sum of its
\* daily counts, in the buffer, in every batch and in the database
\* (buffer.go:53-84, 111-178; stats_repo.go:99-180).
DailyAgrees ==
  \A k \in Keys :
    /\ pending[k] = Total(daily, k)
    /\ db[k] = Total(dbDaily, k)
    /\ \A f \in Flushers : carried[f][k] = Total(carriedDaily[f], k)

\* A merged read never reports a unit twice, and it misses units only when
\* a flush was between its two halves (buffer.go:194-274).
ReadsSound ==
  \A r \in Readers : reading[r] = "done" => \A k \in Keys :
    /\ seen[r][k] <= added[k]
    /\ r \notin overlap => seen[r][k] >= floor[r][k]

\* The counters are a write-behind ledger.
Counters == INSTANCE Ledger WITH durable <- db, volatile <- Uncommitted
LedgerSpec == Counters!Spec
=============================================================================
