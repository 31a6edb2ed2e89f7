------------------------ MODULE StatsBuffer_proofs ------------------------
(***************************************************************************)
(* Proofs about StatsBuffer for any keys, days and readers, and any number *)
(* of flushes that overlap, fail and are put back: types, conservation,    *)
(* days that add up to their totals, merged reads that count nothing twice,*)
(* and that the buffer over its store is the write-behind ledger of module *)
(* Ledger; and about the process the buffer lives in (Lifecycle), which is *)
(* that buffer with more around it: updates are taken once, and the last   *)
(* counter is written before the database is closed.                       *)
(***************************************************************************)
EXTENDS Lifecycle, Sums_proofs, TLAPS

(***************************************************************************)
(* The strengthening: a flusher that is not between its swap and the end   *)
(* of its write carries nothing.  Without it a swap could overwrite a      *)
(* batch.                                                                  *)
(***************************************************************************)
NothingLeftBehind ==
  \A f \in Flushers : flushing[f] = "no" => carried[f] = Zero

IInv == StatsTypeOK /\ NothingLeftBehind /\ Conserved

-----------------------------------------------------------------------------
LEMMA ZeroType == Zero \in [Keys -> Nat] /\ ZeroDaily \in [Days -> [Keys -> Nat]]
  BY DEF Zero, ZeroDaily

LEMMA PlusType ==
  ASSUME NEW a \in [Keys -> Nat], NEW b \in [Keys -> Nat]
  PROVE  /\ Plus(a, b) \in [Keys -> Nat]
         /\ \A k \in Keys : Plus(a, b)[k] = a[k] + b[k]
  BY DEF Plus

LEMMA PlusDailyType ==
  ASSUME NEW a \in [Days -> [Keys -> Nat]], NEW b \in [Days -> [Keys -> Nat]]
  PROVE  PlusDaily(a, b) \in [Days -> [Keys -> Nat]]
  BY PlusType DEF PlusDaily

\* The racing reads of GetMerged stay vectors of counts.
LEMMA RacingType ==
  ASSUME StatsTypeOK, NEW late \in SUBSET Readers, NEW units \in [Keys -> Nat],
         Racing(late, units)
  PROVE  /\ seen' \in [Readers -> [Keys -> Nat]]
         /\ reading' = reading /\ floor' = floor /\ overlap' = overlap
  <1>1. \A r \in Readers : Plus(seen[r], units) \in [Keys -> Nat]
    BY PlusType DEF StatsTypeOK
  <1> QED BY <1>1 DEF Racing, StatsTypeOK

-----------------------------------------------------------------------------
(* Every step keeps the types.                                             *)

LEMMA IncrementType ==
  ASSUME StatsTypeOK, NEW k \in Keys, NEW d \in Days, Increment(k, d)
  PROVE  StatsTypeOK'
  <1>1. PICK late \in SUBSET {r \in Readers : reading[r] = "entry"} :
          Racing(late, [Zero EXCEPT ![k] = 1])
    BY DEF Increment
  <1>2. [Zero EXCEPT ![k] = 1] \in [Keys -> Nat]
    BY ZeroType
  <1>3. /\ seen' \in [Readers -> [Keys -> Nat]]
        /\ reading' = reading /\ floor' = floor /\ overlap' = overlap
    BY <1>1, <1>2, RacingType
  <1>4. pending' \in [Keys -> Nat] /\ added' \in [Keys -> Nat]
    BY DEF Increment, StatsTypeOK
  <1>5. daily' \in [Days -> [Keys -> Nat]]
    BY DEF Increment, StatsTypeOK
  <1> QED BY <1>3, <1>4, <1>5 DEF Increment, StatsTypeOK, storeVars

LEMMA SwapType ==
  ASSUME StatsTypeOK, NEW f \in Flushers, Swap(f)
  PROVE  StatsTypeOK'
  BY ZeroType DEF Swap, StatsTypeOK, storeVars

LEMMA CommitType ==
  ASSUME StatsTypeOK, NEW f \in Flushers, Commit(f)
  PROVE  StatsTypeOK'
  <1>1. carried[f] \in [Keys -> Nat] /\ carriedDaily[f] \in [Days -> [Keys -> Nat]]
    BY DEF StatsTypeOK
  <1>2. db' \in [Keys -> Nat]
    BY <1>1, PlusType DEF Commit, StatsTypeOK
  <1>3. dbDaily' \in [Days -> [Keys -> Nat]]
    BY <1>1, PlusDailyType DEF Commit, StatsTypeOK
  <1> QED BY <1>2, <1>3, ZeroType DEF Commit, StatsTypeOK

LEMMA RestoreType ==
  ASSUME StatsTypeOK, NEW f \in Flushers, Restore(f)
  PROVE  StatsTypeOK'
  <1>1. carried[f] \in [Keys -> Nat] /\ carriedDaily[f] \in [Days -> [Keys -> Nat]]
    BY DEF StatsTypeOK
  <1>2. pending' \in [Keys -> Nat]
    BY <1>1, PlusType DEF Restore, StatsTypeOK
  <1>3. daily' \in [Days -> [Keys -> Nat]]
    BY <1>1, PlusDailyType DEF Restore, StatsTypeOK
  <1>4. PICK late \in SUBSET {r \in Readers : reading[r] = "entry" /\ f \in behind[r]} :
          Racing(late, carried[f])
    BY DEF Restore
  <1>5. /\ seen' \in [Readers -> [Keys -> Nat]]
        /\ reading' = reading /\ floor' = floor /\ overlap' = overlap
    BY <1>1, <1>4, RacingType
  <1> QED BY <1>2, <1>3, <1>5, ZeroType DEF Restore, StatsTypeOK, storeVars

LEMMA ReadType ==
  ASSUME StatsTypeOK, NEW r \in Readers, ReadStep(r)
  PROVE  StatsTypeOK'
  <1>1. CASE ReadStore(r)
    BY <1>1 DEF ReadStore, StatsTypeOK, bufferVars, storeVars
  <1>2. Plus(seen[r], pending) \in [Keys -> Nat]
    BY PlusType DEF StatsTypeOK
  <1>3. CASE ReadBuffer(r)
    BY <1>2, <1>3 DEF ReadBuffer, StatsTypeOK, bufferVars, storeVars
  <1>4. CASE TakeEntry(r)
    BY <1>2, <1>4 DEF TakeEntry, StatsTypeOK, bufferVars, storeVars
  <1>5. CASE ReadEntry(r)
    BY <1>5 DEF ReadEntry, StatsTypeOK, bufferVars, storeVars
  <1> QED BY <1>1, <1>3, <1>4, <1>5 DEF ReadStep

\* Reads leave the buffer, the store and the account alone.
LEMMA ReadKeeps ==
  ASSUME NEW r \in Readers, ReadStep(r)
  PROVE  UNCHANGED <<bufferVars, storeVars, added>>
  BY DEF ReadStep, ReadStore, ReadBuffer, TakeEntry, ReadEntry

LEMMA StepType ==
  ASSUME StatsTypeOK, [StatsNext]_statsVars
  PROVE  StatsTypeOK'
  <1>1. ASSUME NEW k \in Keys, NEW d \in Days, Increment(k, d) PROVE StatsTypeOK'
    BY <1>1, IncrementType
  <1>2. ASSUME NEW f \in Flushers, FlushStep(f) PROVE StatsTypeOK'
    <2>1. CASE Swap(f) BY <2>1, SwapType
    <2>2. CASE Commit(f) BY <2>2, CommitType
    <2>3. CASE CommitFails(f)
      BY <2>3 DEF CommitFails, StatsTypeOK, storeVars, readVars
    <2>4. CASE Restore(f) BY <2>4, RestoreType
    <2> QED BY <1>2, <2>1, <2>2, <2>3, <2>4 DEF FlushStep
  <1>3. ASSUME NEW r \in Readers, ReadStep(r) PROVE StatsTypeOK'
    BY <1>3, ReadType
  <1>4. CASE LoseMemory
    BY <1>4, ZeroType DEF LoseMemory, StatsTypeOK
  <1>5. CASE StoreClosed
    BY <1>5 DEF StoreClosed, StatsTypeOK, bufferVars, readVars
  <1>6. CASE UNCHANGED statsVars
    BY <1>6 DEF statsVars, bufferVars, storeVars, readVars, StatsTypeOK
  <1> QED BY <1>1, <1>2, <1>3, <1>4, <1>5, <1>6 DEF StatsNext

(***************************************************************************)
(* Every variable keeps its type, whatever flushes and reads overlap.      *)
(***************************************************************************)
THEOREM TypeCorrect == StatsSpec => []StatsTypeOK
  <1>1. StatsInit => StatsTypeOK
    BY ZeroType DEF StatsInit, StatsTypeOK
  <1>2. StatsTypeOK /\ [StatsNext]_statsVars => StatsTypeOK'
    BY StepType
  <1> QED BY <1>1, <1>2, PTL DEF StatsSpec

-----------------------------------------------------------------------------
(* Conservation.                                                           *)

\* A swap moves what is pending to the flusher, which carried nothing.
LEMMA SwapKeeps ==
  ASSUME IInv, NEW f \in Flushers, Swap(f)
  PROVE  NothingLeftBehind' /\ Uncommitted' = Uncommitted
  <1>1. carried[f] = Zero
    BY DEF IInv, NothingLeftBehind, Swap
  <1>2. NothingLeftBehind'
    BY DEF IInv, NothingLeftBehind, Swap, StatsTypeOK
  <1>3. ASSUME NEW k \in Keys
        PROVE  pending'[k] + carried'["loop"][k] + carried'["stop"][k]
                 = pending[k] + carried["loop"][k] + carried["stop"][k]
    <2>1. CASE f = "loop"
      BY <1>1, <2>1 DEF Swap, Zero, IInv, StatsTypeOK, Flushers
    <2>2. CASE f = "stop"
      BY <1>1, <2>2 DEF Swap, Zero, IInv, StatsTypeOK, Flushers
    <2> QED BY <2>1, <2>2 DEF Flushers
  <1> QED BY <1>2, <1>3 DEF Uncommitted

\* A commit moves what the flusher carried to the database.
LEMMA CommitKeeps ==
  ASSUME IInv, NEW f \in Flushers, Commit(f)
  PROVE  /\ NothingLeftBehind'
         /\ \A k \in Keys : /\ db'[k] >= db[k]
                            /\ db'[k] + Uncommitted'[k] = db[k] + Uncommitted[k]
  <1>1. carried[f] \in [Keys -> Nat] /\ db \in [Keys -> Nat]
    BY DEF IInv, StatsTypeOK
  <1>2. \A k \in Keys : db'[k] = db[k] + carried[f][k]
    BY <1>1, PlusType DEF Commit
  <1>3. NothingLeftBehind'
    BY DEF IInv, NothingLeftBehind, Commit, StatsTypeOK
  <1>4. ASSUME NEW k \in Keys
        PROVE  Uncommitted'[k] + carried[f][k] = Uncommitted[k]
    <2>1. CASE f = "loop"
      BY <2>1 DEF Commit, Uncommitted, Zero, IInv, StatsTypeOK, Flushers
    <2>2. CASE f = "stop"
      BY <2>2 DEF Commit, Uncommitted, Zero, IInv, StatsTypeOK, Flushers
    <2> QED BY <2>1, <2>2 DEF Flushers
  <1>5. \A k \in Keys : Uncommitted[k] \in Nat /\ Uncommitted'[k] \in Nat
    <2>1. StatsTypeOK' BY CommitType DEF IInv
    <2> QED BY <2>1 DEF IInv, StatsTypeOK, Uncommitted, Flushers
  <1> QED BY <1>1, <1>2, <1>3, <1>4, <1>5

\* A restore puts what the flusher carried back.
LEMMA RestoreKeeps ==
  ASSUME IInv, NEW f \in Flushers, Restore(f)
  PROVE  NothingLeftBehind' /\ Uncommitted' = Uncommitted
  <1>1. carried[f] \in [Keys -> Nat] /\ pending \in [Keys -> Nat]
    BY DEF IInv, StatsTypeOK
  <1>2. \A k \in Keys : pending'[k] = pending[k] + carried[f][k]
    BY <1>1, PlusType DEF Restore
  <1>3. NothingLeftBehind'
    BY DEF IInv, NothingLeftBehind, Restore, StatsTypeOK
  <1>4. ASSUME NEW k \in Keys
        PROVE  pending'[k] + carried'["loop"][k] + carried'["stop"][k]
                 = pending[k] + carried["loop"][k] + carried["stop"][k]
    <2>1. CASE f = "loop"
      BY <1>2, <2>1 DEF Restore, Zero, IInv, StatsTypeOK, Flushers
    <2>2. CASE f = "stop"
      BY <1>2, <2>2 DEF Restore, Zero, IInv, StatsTypeOK, Flushers
    <2> QED BY <2>1, <2>2 DEF Flushers
  <1> QED BY <1>3, <1>4 DEF Uncommitted

\* An increment adds one unit to what is not committed.
LEMMA IncrementAdds ==
  ASSUME IInv, NEW k \in Keys, NEW d \in Days, Increment(k, d)
  PROVE  NothingLeftBehind' /\ Uncommitted' = [Uncommitted EXCEPT ![k] = @ + 1]
  <1>1. NothingLeftBehind'
    BY DEF IInv, NothingLeftBehind, Increment
  <1>2. /\ carried' = carried
        /\ pending \in [Keys -> Nat]
        /\ pending' = [pending EXCEPT ![k] = @ + 1]
    BY DEF Increment, IInv, StatsTypeOK
  <1>3. carried["loop"] \in [Keys -> Nat] /\ carried["stop"] \in [Keys -> Nat]
    BY DEF IInv, StatsTypeOK, Flushers
  <1>4. ASSUME NEW j \in Keys
        PROVE  Uncommitted'[j] = [Uncommitted EXCEPT ![k] = @ + 1][j]
    BY <1>2, <1>3 DEF Uncommitted
  <1> QED BY <1>1, <1>4 DEF Uncommitted

LEMMA LoseKeeps ==
  ASSUME IInv, LoseMemory
  PROVE  NothingLeftBehind' /\ Uncommitted' = [k \in Keys |-> 0]
  BY DEF IInv, NothingLeftBehind, LoseMemory, Uncommitted, Flushers, Zero

LEMMA OthersKeep ==
  ASSUME IInv, UNCHANGED <<pending, carried>>,
         \A f \in Flushers : flushing'[f] = "no" => flushing[f] = "no"
  PROVE  NothingLeftBehind' /\ Uncommitted' = Uncommitted
  BY DEF IInv, NothingLeftBehind, Uncommitted

LEMMA CommitFailsKeeps ==
  ASSUME IInv, NEW f \in Flushers, CommitFails(f)
  PROVE  NothingLeftBehind' /\ Uncommitted' = Uncommitted
  <1>1. \A g \in Flushers : flushing'[g] = "no" => flushing[g] = "no"
    BY DEF CommitFails, IInv, StatsTypeOK
  <1> QED BY <1>1, OthersKeep DEF CommitFails

LEMMA StepConserves ==
  ASSUME IInv, [StatsNext]_statsVars
  PROVE  IInv'
  <1>1. StatsTypeOK'
    BY StepType DEF IInv
  <1>2. \A k \in Keys : /\ db[k] \in Nat /\ added[k] \in Nat
                        /\ Uncommitted[k] \in Nat /\ Uncommitted'[k] \in Nat
    BY <1>1 DEF IInv, StatsTypeOK, Uncommitted, Flushers
  <1>3. ASSUME NEW k \in Keys, NEW d \in Days, Increment(k, d)
        PROVE  NothingLeftBehind' /\ Conserved'
    <2>1. NothingLeftBehind' /\ Uncommitted' = [Uncommitted EXCEPT ![k] = @ + 1]
      BY <1>3, IncrementAdds
    <2>2. db' = db /\ added' = [added EXCEPT ![k] = @ + 1]
      BY <1>3 DEF Increment, storeVars
    <2>3. ASSUME NEW j \in Keys
          PROVE  added'[j] = db'[j] + Uncommitted'[j]
      <3>1. Uncommitted'[j] = IF j = k THEN Uncommitted[j] + 1 ELSE Uncommitted[j]
        BY <2>1 DEF Uncommitted
      <3>2. added'[j] = IF j = k THEN added[j] + 1 ELSE added[j]
        BY <2>2 DEF IInv, StatsTypeOK
      <3> QED BY <3>1, <3>2, <2>2, <1>2 DEF IInv, Conserved
    <2> QED BY <2>1, <2>3 DEF Conserved
  <1>4. ASSUME NEW f \in Flushers, FlushStep(f)
        PROVE  NothingLeftBehind' /\ Conserved'
    <2>1. CASE Swap(f)
      BY <2>1, SwapKeeps DEF Swap, Conserved, IInv, storeVars
    <2>2. CASE Commit(f)
      BY <2>2, <1>1, <1>2, CommitKeeps DEF Commit, Conserved, IInv, StatsTypeOK
    <2>3. CASE CommitFails(f)
      BY <2>3, CommitFailsKeeps DEF CommitFails, Conserved, IInv, storeVars
    <2>4. CASE Restore(f)
      BY <2>4, RestoreKeeps DEF Restore, Conserved, IInv, storeVars
    <2> QED BY <1>4, <2>1, <2>2, <2>3, <2>4 DEF FlushStep
  <1>5. ASSUME NEW r \in Readers, ReadStep(r)
        PROVE  NothingLeftBehind' /\ Conserved'
    BY <1>5, ReadKeeps, OthersKeep DEF Conserved, IInv, bufferVars, storeVars
  <1>6. CASE LoseMemory
    <2>1. NothingLeftBehind' /\ Uncommitted' = [k \in Keys |-> 0]
      BY <1>6, LoseKeeps
    <2>2. added' = db /\ db' = db
      BY <1>6 DEF LoseMemory
    <2> QED BY <1>1, <2>1, <2>2, <1>2 DEF Conserved, IInv
  <1>7. CASE StoreClosed
    BY <1>1, <1>7, OthersKeep DEF StoreClosed, Conserved, IInv, bufferVars
  <1>8. CASE UNCHANGED statsVars
    BY <1>1, <1>8, OthersKeep
       DEF Conserved, IInv, statsVars, bufferVars, storeVars
  <1> QED BY <1>1, <1>3, <1>4, <1>5, <1>6, <1>7, <1>8 DEF StatsNext, IInv

LEMMA InitConserves == StatsInit => IInv
  <1> SUFFICES ASSUME StatsInit PROVE IInv
    OBVIOUS
  <1>1. StatsTypeOK
    BY ZeroType DEF StatsInit, StatsTypeOK
  <1>2. NothingLeftBehind
    BY DEF StatsInit, NothingLeftBehind
  <1>3. Conserved
    BY DEF StatsInit, Conserved, Uncommitted, Zero, Flushers
  <1> QED BY <1>1, <1>2, <1>3 DEF IInv

(***************************************************************************)
(* No overlap of flushes, failures and restores loses or doubles a unit.   *)
(***************************************************************************)
THEOREM ConservedCorrect == StatsSpec => []Conserved
  <1>1. IInv => Conserved
    BY DEF IInv
  <1>2. IInv /\ [StatsNext]_statsVars => IInv'
    BY StepConserves
  <1> QED BY InitConserves, <1>1, <1>2, PTL DEF StatsSpec

-----------------------------------------------------------------------------
(* The buffer implements the ledger.                                       *)

LEMMA StepImplements ==
  ASSUME IInv, [StatsNext]_statsVars
  PROVE  [Counters!Next]_(Counters!vars)
  <1> USE DEF Counters!vars
  <1>1. StatsTypeOK'
    BY StepType DEF IInv
  <1>2. ASSUME NEW k \in Keys, NEW d \in Days, Increment(k, d)
        PROVE  Counters!Next
    BY <1>2, IncrementAdds DEF Increment, storeVars, Counters!Next, Counters!Add
  <1>3. ASSUME NEW f \in Flushers, FlushStep(f)
        PROVE  Counters!Next \/ UNCHANGED Counters!vars
    <2>1. CASE Swap(f)
      BY <2>1, SwapKeeps DEF Swap, storeVars
    <2>2. CASE Commit(f)
      <3>1. db' \in [Keys -> Nat] /\ Uncommitted' \in [Keys -> Nat]
        BY <1>1 DEF StatsTypeOK, Uncommitted, Flushers
      <3> QED BY <2>2, <3>1, CommitKeeps DEF Counters!Next, Counters!Commit
    <2>3. CASE CommitFails(f)
      BY <2>3, CommitFailsKeeps DEF CommitFails, storeVars
    <2>4. CASE Restore(f)
      BY <2>4, RestoreKeeps DEF Restore, storeVars
    <2> QED BY <1>3, <2>1, <2>2, <2>3, <2>4 DEF FlushStep
  <1>4. ASSUME NEW r \in Readers, ReadStep(r)
        PROVE  UNCHANGED Counters!vars
    BY <1>4, ReadKeeps, OthersKeep DEF bufferVars, storeVars
  <1>5. CASE LoseMemory
    BY <1>5, LoseKeeps DEF LoseMemory, Counters!Next, Counters!Lose
  <1>6. CASE StoreClosed
    BY <1>6, OthersKeep DEF StoreClosed, bufferVars
  <1>7. CASE UNCHANGED statsVars
    BY <1>7, OthersKeep DEF statsVars, bufferVars, storeVars
  <1> QED BY <1>2, <1>3, <1>4, <1>5, <1>6, <1>7 DEF StatsNext

(***************************************************************************)
(* The counters are a write-behind ledger: every step of the buffer, its   *)
(* flushes, readers and store is a step of Ledger or changes nothing it    *)
(* speaks of.                                                              *)
(***************************************************************************)
THEOREM ImplementsLedger == StatsSpec => LedgerSpec
  <1>1. StatsInit => Counters!Init
    BY ZeroType DEF StatsInit, Counters!Init, Uncommitted, Zero, Flushers
  <1>2. IInv /\ [StatsNext]_statsVars => IInv'
    BY StepConserves
  <1>3. IInv /\ [StatsNext]_statsVars => [Counters!Next]_(Counters!vars)
    BY StepImplements
  <1> QED BY InitConserves, <1>1, <1>2, <1>3, PTL
          DEF StatsSpec, LedgerSpec, Counters!Spec

-----------------------------------------------------------------------------
(* The lifetime map and the daily map.                                     *)

LEMMA TotalZero ==
  ASSUME NEW k \in Keys
  PROVE  Total(ZeroDaily, k) = 0
<1> DEFINE g == [d \in Days |-> ZeroDaily[d][k]]
<1>1. \A d \in Days : g[d] = 0
  BY DEF ZeroDaily, Zero
<1>2. SumFunctionOnSet(g, Days) = 0
  <2> HIDE DEF g
  <2> QED BY <1>1, SumOfZeros, DaysAssumption
<1> QED BY <1>2, Zenon DEF Total, SumFunction

LEMMA TotalPlus ==
  ASSUME NEW a \in [Days -> [Keys -> Nat]], NEW b \in [Days -> [Keys -> Nat]], NEW k \in Keys
  PROVE  Total(PlusDaily(a, b), k) = Total(a, k) + Total(b, k)
<1> DEFINE f == [d \in Days |-> a[d][k]]
           g == [d \in Days |-> b[d][k]]
           h == [d \in Days |-> PlusDaily(a, b)[d][k]]
<1>1. \A d \in Days : f[d] \in Nat /\ g[d] \in Nat /\ h[d] = f[d] + g[d]
  BY DEF PlusDaily, Plus
<1>2. SumFunctionOnSet(h, Days) = SumFunctionOnSet(f, Days) + SumFunctionOnSet(g, Days)
  <2> HIDE DEF f, g, h
  <2> QED BY <1>1, SumPlus, DaysAssumption
<1> QED BY <1>2, Zenon DEF Total, SumFunction

\* One more on one day is one more in all.
LEMMA TotalOfOne ==
  ASSUME NEW a \in [Days -> [Keys -> Nat]], NEW d \in Days, NEW k \in Keys, NEW b,
         \A e \in Days : b[e][k] = IF e = d THEN a[e][k] + 1 ELSE a[e][k]
  PROVE  Total(b, k) = Total(a, k) + 1
<1> DEFINE f == [e \in Days |-> a[e][k]]
           h == [e \in Days |-> b[e][k]]
           one == [e \in Days |-> IF e = d THEN 1 ELSE 0]
<1>1. \A e \in Days : f[e] \in Nat /\ one[e] \in Nat /\ h[e] = f[e] + one[e]
  OBVIOUS
<1>2. one[d] = 1 /\ one[d] \in Nat /\ \A e \in Days : e # d => one[e] = 0
  OBVIOUS
<1>3. SumFunctionOnSet(h, Days) = SumFunctionOnSet(f, Days) + SumFunctionOnSet(one, Days)
  <2> HIDE DEF f, h, one
  <2> QED BY <1>1, SumPlus, DaysAssumption
<1>4. SumFunctionOnSet(one, Days) = one[d]
  <2> HIDE DEF one
  <2> QED BY <1>2, SumOfOne, DaysAssumption
<1>5. SumFunctionOnSet(h, Days) = SumFunctionOnSet(f, Days) + 1
  BY <1>2, <1>3, <1>4
<1> QED BY <1>5, Zenon DEF Total, SumFunction

\* The days of other keys do not matter.
LEMMA TotalOfOther ==
  ASSUME NEW a, NEW b, NEW k, \A e \in Days : b[e][k] = a[e][k]
  PROVE  Total(b, k) = Total(a, k)
<1>1. [e \in Days |-> b[e][k]] = [e \in Days |-> a[e][k]]
  OBVIOUS
<1> QED BY <1>1, Zenon DEF Total

LEMMA IncrementAgrees ==
  ASSUME StatsTypeOK, DailyAgrees, NEW j \in Keys, NEW d \in Days, Increment(j, d)
  PROVE  DailyAgrees'
<1>1. PICK w : w = daily'
  OBVIOUS
<1>2. ASSUME NEW k \in Keys
      PROVE  pending'[k] = Total(w, k)
  <2>1. pending[k] = Total(daily, k)
    BY DEF DailyAgrees
  <2>2. CASE k = j
    <3>1. \A e \in Days : w[e][k] = IF e = d THEN daily[e][k] + 1 ELSE daily[e][k]
      BY <1>1, <2>2 DEF Increment, StatsTypeOK
    <3>2. Total(w, k) = Total(daily, k) + 1
      <4>1. daily \in [Days -> [Keys -> Nat]]
        BY DEF StatsTypeOK
      <4> QED BY <3>1, <4>1, TotalOfOne
    <3>3. pending'[k] = pending[k] + 1
      BY <2>2 DEF Increment, StatsTypeOK
    <3> QED BY <2>1, <3>2, <3>3
  <2>3. CASE k # j
    <3>1. \A e \in Days : w[e][k] = daily[e][k]
      BY <1>1, <2>3 DEF Increment, StatsTypeOK
    <3>2. Total(w, k) = Total(daily, k)
      BY <3>1, TotalOfOther
    <3>3. pending'[k] = pending[k]
      BY <2>3 DEF Increment, StatsTypeOK
    <3> QED BY <2>1, <3>2, <3>3
  <2> QED BY <2>2, <2>3
<1>3. /\ db' = db /\ dbDaily' = dbDaily
      /\ carried' = carried /\ carriedDaily' = carriedDaily
  BY DEF Increment, storeVars
<1> QED BY <1>1, <1>2, <1>3 DEF DailyAgrees

LEMMA FlushAgrees ==
  ASSUME StatsTypeOK, DailyAgrees, NEW f \in Flushers, FlushStep(f)
  PROVE  DailyAgrees'
<1>0. /\ daily \in [Days -> [Keys -> Nat]] /\ dbDaily \in [Days -> [Keys -> Nat]]
      /\ carriedDaily[f] \in [Days -> [Keys -> Nat]]
  BY DEF StatsTypeOK
<1>1. CASE Swap(f)
  <2>1. ASSUME NEW k \in Keys
        PROVE  pending'[k] = Total(daily', k)
    <3>1. pending'[k] = 0 /\ daily' = ZeroDaily
      BY <1>1 DEF Swap, Zero
    <3> QED BY <3>1, TotalZero
  <2>2. ASSUME NEW k \in Keys, NEW g \in Flushers
        PROVE  carried'[g][k] = Total(carriedDaily'[g], k)
    <3>1. CASE g = f
      <4>1. carried'[g] = pending /\ carriedDaily'[g] = daily
        BY <1>1, <3>1 DEF Swap, StatsTypeOK
      <4> QED BY <4>1 DEF DailyAgrees
    <3>2. CASE g # f
      <4>1. carried'[g] = carried[g] /\ carriedDaily'[g] = carriedDaily[g]
        BY <1>1, <3>2 DEF Swap, StatsTypeOK
      <4> QED BY <4>1 DEF DailyAgrees
    <3> QED BY <3>1, <3>2
  <2>3. db' = db /\ dbDaily' = dbDaily
    BY <1>1 DEF Swap, storeVars
  <2> QED BY <2>1, <2>2, <2>3 DEF DailyAgrees
<1>2. ASSUME NEW k \in Keys, NEW g \in Flushers,
             carried' = [carried EXCEPT ![f] = Zero],
             carriedDaily' = [carriedDaily EXCEPT ![f] = ZeroDaily]
      PROVE  carried'[g][k] = Total(carriedDaily'[g], k)
  <2>1. CASE g = f
    <3>1. carried'[g][k] = 0 /\ carriedDaily'[g] = ZeroDaily
      BY <1>2, <2>1 DEF StatsTypeOK, Zero
    <3> QED BY <3>1, TotalZero
  <2>2. CASE g # f
    <3>1. carried'[g] = carried[g] /\ carriedDaily'[g] = carriedDaily[g]
      BY <1>2, <2>2 DEF StatsTypeOK
    <3> QED BY <3>1 DEF DailyAgrees
  <2> QED BY <2>1, <2>2
<1>3. CASE Commit(f)
  <2>1. ASSUME NEW k \in Keys
        PROVE  db'[k] = Total(dbDaily', k)
    <3>1. db'[k] = db[k] + carried[f][k] /\ dbDaily' = PlusDaily(dbDaily, carriedDaily[f])
      BY <1>3 DEF Commit, Plus
    <3>2. db[k] = Total(dbDaily, k) /\ carried[f][k] = Total(carriedDaily[f], k)
      BY DEF DailyAgrees
    <3> QED BY <1>0, <3>1, <3>2, TotalPlus
  <2>2. pending' = pending /\ daily' = daily
    BY <1>3 DEF Commit
  <2>3. /\ carried' = [carried EXCEPT ![f] = Zero]
        /\ carriedDaily' = [carriedDaily EXCEPT ![f] = ZeroDaily]
    BY <1>3 DEF Commit
  <2> QED BY <1>2, <2>1, <2>2, <2>3 DEF DailyAgrees
<1>4. CASE CommitFails(f)
  BY <1>4 DEF CommitFails, storeVars, DailyAgrees
<1>5. CASE Restore(f)
  <2>1. ASSUME NEW k \in Keys
        PROVE  pending'[k] = Total(daily', k)
    <3>1. pending'[k] = pending[k] + carried[f][k] /\ daily' = PlusDaily(daily, carriedDaily[f])
      BY <1>5 DEF Restore, Plus
    <3>2. pending[k] = Total(daily, k) /\ carried[f][k] = Total(carriedDaily[f], k)
      BY DEF DailyAgrees
    <3> QED BY <1>0, <3>1, <3>2, TotalPlus
  <2>2. db' = db /\ dbDaily' = dbDaily
    BY <1>5 DEF Restore, storeVars
  <2>3. /\ carried' = [carried EXCEPT ![f] = Zero]
        /\ carriedDaily' = [carriedDaily EXCEPT ![f] = ZeroDaily]
    BY <1>5 DEF Restore
  <2> QED BY <1>2, <2>1, <2>2, <2>3 DEF DailyAgrees
<1> QED BY <1>1, <1>3, <1>4, <1>5 DEF FlushStep

LEMMA LoseMemoryAgrees ==
  ASSUME DailyAgrees, LoseMemory
  PROVE  DailyAgrees'
<1>1. ASSUME NEW k \in Keys
      PROVE  pending'[k] = Total(daily', k)
  <2>1. pending'[k] = 0 /\ daily' = ZeroDaily
    BY DEF LoseMemory, Zero
  <2> QED BY <2>1, TotalZero
<1>2. ASSUME NEW k \in Keys, NEW g \in Flushers
      PROVE  carried'[g][k] = Total(carriedDaily'[g], k)
  <2>1. carried'[g][k] = 0 /\ carriedDaily'[g] = ZeroDaily
    BY DEF LoseMemory, Zero
  <2> QED BY <2>1, TotalZero
<1>3. db' = db /\ dbDaily' = dbDaily
  BY DEF LoseMemory
<1> QED BY <1>1, <1>2, <1>3 DEF DailyAgrees

LEMMA StepAgrees ==
  ASSUME StatsTypeOK, DailyAgrees, [StatsNext]_statsVars
  PROVE  DailyAgrees'
<1>1. ASSUME NEW r \in Readers, ReadStep(r) PROVE DailyAgrees'
  BY <1>1, ReadKeeps DEF DailyAgrees, bufferVars, storeVars
<1>2. CASE StoreClosed
  BY <1>2 DEF StoreClosed, bufferVars, DailyAgrees
<1>3. CASE UNCHANGED statsVars
  BY <1>3 DEF statsVars, bufferVars, storeVars, DailyAgrees
<1> QED BY <1>1, <1>2, <1>3, IncrementAgrees, FlushAgrees, LoseMemoryAgrees DEF StatsNext

LEMMA InitAgrees ==
  ASSUME StatsInit
  PROVE  DailyAgrees
<1>1. ASSUME NEW k \in Keys PROVE Total(ZeroDaily, k) = 0 /\ Zero[k] = 0
  BY TotalZero DEF Zero
<1> QED BY <1>1 DEF StatsInit, DailyAgrees

\* The lifetime map and the daily map agree for every key, in memory, in each
\* batch and in the database, however many days there are and however flushes
\* overlap and fail (buffer.go:53-178, stats_repo.go:99-180).
THEOREM DailyAgreesCorrect == StatsSpec => []DailyAgrees
<1>1. StatsInit => DailyAgrees
  BY InitAgrees
<1>2. StatsTypeOK /\ DailyAgrees /\ [StatsNext]_statsVars => DailyAgrees'
  BY StepAgrees
<1>3. StatsSpec => []StatsTypeOK
  BY TypeCorrect
<1> QED BY <1>1, <1>2, <1>3, PTL DEF StatsSpec

-----------------------------------------------------------------------------
(* Merged reads.                                                           *)

\* What reader r may still be given of the batches being flushed when it
\* took its entry.
Expects(r, k) ==
  (IF "loop" \in behind[r] THEN carried["loop"][k] ELSE 0)
    + (IF "stop" \in behind[r] THEN carried["stop"][k] ELSE 0)

(***************************************************************************)
(* A reader between its halves has seen what the database still holds; no  *)
(* flush ran since, unless it is in overlap.  One that has its entry has   *)
(* seen units that were added, none of them in a batch it still waits for. *)
(***************************************************************************)
HalfRead(r) ==
  /\ \A k \in Keys : seen[r][k] <= db[k] /\ floor[r][k] <= added[k]
  /\ r \notin overlap => seen[r] = db /\ \A f \in Flushers : flushing[f] = "no"

FullyRead(r) ==
  \A k \in Keys :
    /\ seen[r][k] + Expects(r, k) <= added[k]
    /\ r \notin overlap => seen[r][k] >= floor[r][k]

ReadOf(r) ==
  /\ reading[r] # "entry" => behind[r] = {}
  /\ \A f \in behind[r] : flushing[f] # "no"
  /\ reading[r] = "buffer" => HalfRead(r)
  /\ reading[r] \in {"entry", "done"} => FullyRead(r)

ReadInv == \A r \in Readers : ReadOf(r)

RInv == IInv /\ ReadInv

\* Every count is a number, before and after a step.
LEMMA Numbers ==
  ASSUME StatsTypeOK
  PROVE  /\ pending \in [Keys -> Nat] /\ db \in [Keys -> Nat] /\ added \in [Keys -> Nat]
         /\ carried["loop"] \in [Keys -> Nat] /\ carried["stop"] \in [Keys -> Nat]
         /\ \A r \in Readers : seen[r] \in [Keys -> Nat] /\ floor[r] \in [Keys -> Nat]
         /\ \A r \in Readers, k \in Keys : Expects(r, k) \in Nat
  BY DEF StatsTypeOK, Flushers, Expects

\* What is added is in the database, in the buffer or in a batch.
LEMMA Whereabouts ==
  ASSUME IInv, NEW k \in Keys
  PROVE  added[k] = db[k] + pending[k] + carried["loop"][k] + carried["stop"][k]
  BY Numbers DEF IInv, Conserved, Uncommitted

LEMMA IncrementReads ==
  ASSUME RInv, NEW k \in Keys, NEW d \in Days, Increment(k, d)
  PROVE  ReadInv'
  <1> DEFINE one == [Zero EXCEPT ![k] = 1]
  <1>1. PICK late \in SUBSET {r \in Readers : reading[r] = "entry"} : Racing(late, one)
    BY DEF Increment
  <1>2. one \in [Keys -> Nat] /\ \A j \in Keys : one[j] = IF j = k THEN 1 ELSE 0
    BY DEF Zero
  <1>3. \A j \in Keys : added'[j] = added[j] + one[j]
    BY <1>2, Numbers DEF Increment, RInv, IInv
  <1>4. /\ UNCHANGED <<flushing, carried, db, behind, reading, floor, overlap>>
        /\ \A r \in Readers : seen'[r] = IF r \in late THEN Plus(seen[r], one) ELSE seen[r]
    BY <1>1 DEF Increment, Racing, storeVars
  <1> HIDE DEF one
  <1>5. ASSUME NEW r \in Readers PROVE ReadOf(r)'
    <2>1. ReadOf(r) BY DEF RInv, ReadInv
    <2>2. \A j \in Keys : added'[j] >= added[j] /\ Expects(r, j)' = Expects(r, j)
      BY <1>2, <1>3, <1>4, Numbers DEF RInv, IInv, Expects
    <2>3. CASE reading[r] = "buffer"
      <3>1. seen'[r] = seen[r]
        BY <1>1, <1>4, <2>3
      <3>2. HalfRead(r)'
        BY <1>4, <2>1, <2>2, <2>3, <3>1, <1>2, <1>3, Numbers DEF HalfRead, ReadOf, RInv, IInv
      <3> QED BY <1>4, <2>1, <2>3, <3>2 DEF ReadOf
    <2>4. CASE reading[r] \in {"entry", "done"}
      <3>1. \A j \in Keys : /\ seen'[r][j] \in Nat
                            /\ seen'[r][j] >= seen[r][j]
                            /\ seen'[r][j] <= seen[r][j] + one[j]
        BY <1>2, <1>4, PlusType, Numbers DEF RInv, IInv
      <3>2. FullyRead(r)'
        BY <1>2, <1>3, <1>4, <2>1, <2>2, <2>4, <3>1, Numbers
           DEF FullyRead, ReadOf, RInv, IInv
      <3> QED BY <1>4, <2>1, <2>4, <3>2 DEF ReadOf
    <2>5. CASE reading[r] = "no"
      BY <1>4, <2>1, <2>5 DEF ReadOf
    <2> QED BY <2>3, <2>4, <2>5 DEF RInv, IInv, StatsTypeOK
  <1> QED BY <1>5 DEF ReadInv

\* A flusher that begins is nobody's batch to wait for.
LEMMA SwapReads ==
  ASSUME RInv, NEW f \in Flushers, Swap(f)
  PROVE  ReadInv'
  <1>1. /\ UNCHANGED <<db, added, behind, reading, floor, seen>>
        /\ overlap' = {r \in Readers : reading[r] = "buffer"} \cup overlap
        /\ flushing[f] = "no"
        /\ \A g \in Flushers \ {f} : flushing'[g] = flushing[g] /\ carried'[g] = carried[g]
        /\ flushing'[f] = "commit"
    BY DEF Swap, storeVars, RInv, IInv, StatsTypeOK
  <1>2. ASSUME NEW r \in Readers PROVE ReadOf(r)'
    <2>1. ReadOf(r) BY DEF RInv, ReadInv
    <2>2. f \notin behind[r] BY <1>1, <2>1 DEF ReadOf
    <2>3. \A j \in Keys : Expects(r, j)' = Expects(r, j)
      BY <1>1, <2>2 DEF Expects, Flushers
    <2>4. \A g \in behind[r] : flushing'[g] # "no"
      BY <1>1, <2>1, <2>2 DEF ReadOf, RInv, IInv, StatsTypeOK
    <2>5. reading[r] = "buffer" => HalfRead(r)'
      BY <1>1, <2>1 DEF HalfRead, ReadOf
    <2>6. reading[r] \in {"entry", "done"} => FullyRead(r)'
      BY <1>1, <2>1, <2>3 DEF FullyRead, ReadOf
    <2> QED BY <1>1, <2>1, <2>4, <2>5, <2>6 DEF ReadOf
  <1> QED BY <1>2 DEF ReadInv

LEMMA CommitReads ==
  ASSUME RInv, NEW f \in Flushers, Commit(f)
  PROVE  ReadInv'
  <1>1. /\ UNCHANGED <<added, reading, floor, seen, overlap>>
        /\ flushing[f] = "commit"
        /\ \A r \in Readers : behind'[r] = behind[r] \ {f}
        /\ \A g \in Flushers \ {f} : flushing'[g] = flushing[g] /\ carried'[g] = carried[g]
    BY DEF Commit, RInv, IInv, StatsTypeOK
  <1>2. \A j \in Keys : db'[j] >= db[j]
    BY CommitKeeps DEF RInv
  <1>3. StatsTypeOK'
    BY CommitType DEF RInv, IInv
  <1>4. ASSUME NEW r \in Readers PROVE ReadOf(r)'
    <2>1. ReadOf(r) BY DEF RInv, ReadInv
    <2>2. \A j \in Keys : Expects(r, j)' <= Expects(r, j) /\ Expects(r, j)' \in Nat
      BY <1>1, <1>3, Numbers DEF Expects, Flushers, RInv, IInv
    <2>3. behind[r] \subseteq Flushers BY DEF RInv, IInv, StatsTypeOK
    <2>4. \A g \in behind'[r] : flushing'[g] # "no"
      BY <1>1, <2>1, <2>3 DEF ReadOf
    <2>5. reading[r] = "buffer" => HalfRead(r)'
      <3> SUFFICES ASSUME reading[r] = "buffer" PROVE HalfRead(r)'
        OBVIOUS
      <3>1. HalfRead(r) BY <2>1 DEF ReadOf
      <3>2. r \in overlap BY <1>1, <3>1 DEF HalfRead
      <3>3. \A j \in Keys : seen[r][j] <= db'[j]
        BY <1>2, <1>3, <3>1, Numbers DEF HalfRead, RInv, IInv, StatsTypeOK
      <3> QED BY <1>1, <3>1, <3>2, <3>3 DEF HalfRead
    <2>6. reading[r] \in {"entry", "done"} => FullyRead(r)'
      BY <1>1, <1>3, <2>1, <2>2, Numbers DEF FullyRead, ReadOf, RInv, IInv
    <2> QED BY <1>1, <2>1, <2>4, <2>5, <2>6 DEF ReadOf
  <1> QED BY <1>4 DEF ReadInv

LEMMA CommitFailsReads ==
  ASSUME RInv, NEW f \in Flushers, CommitFails(f)
  PROVE  ReadInv'
  <1>1. /\ UNCHANGED <<db, added, carried, behind, reading, floor, seen, overlap>>
        /\ \A g \in Flushers : flushing'[g] = "no" <=> flushing[g] = "no"
    BY DEF CommitFails, storeVars, readVars, RInv, IInv, StatsTypeOK
  <1>2. ASSUME NEW r \in Readers PROVE ReadOf(r)'
    <2>1. ReadOf(r) /\ behind[r] \subseteq Flushers
      BY DEF RInv, ReadInv, IInv, StatsTypeOK
    <2>2. \A j \in Keys : Expects(r, j)' = Expects(r, j)
      BY <1>1 DEF Expects
    <2> QED BY <1>1, <2>1, <2>2 DEF ReadOf, HalfRead, FullyRead
  <1> QED BY <1>2 DEF ReadInv

\* Units of a batch are put back under an entry that waited for them once.
LEMMA RestoreReads ==
  ASSUME RInv, NEW f \in Flushers, Restore(f)
  PROVE  ReadInv'
  <1>1. PICK late \in SUBSET {r \in Readers : reading[r] = "entry" /\ f \in behind[r]} :
          Racing(late, carried[f])
    BY DEF Restore
  <1>2. /\ UNCHANGED <<added, db, reading, floor, overlap>>
        /\ flushing[f] = "restore"
        /\ \A r \in Readers : behind'[r] = behind[r] \ {f}
        /\ \A g \in Flushers \ {f} : flushing'[g] = flushing[g] /\ carried'[g] = carried[g]
        /\ carried[f] \in [Keys -> Nat]
        /\ \A r \in Readers : seen'[r] = IF r \in late THEN Plus(seen[r], carried[f]) ELSE seen[r]
    BY <1>1 DEF Restore, Racing, storeVars, RInv, IInv, StatsTypeOK
  <1>3. StatsTypeOK'
    BY RestoreType DEF RInv, IInv
  <1>4. ASSUME NEW r \in Readers PROVE ReadOf(r)'
    <2>1. ReadOf(r) /\ behind[r] \subseteq Flushers
      BY DEF RInv, ReadInv, IInv, StatsTypeOK
    <2>2. \A g \in behind'[r] : flushing'[g] # "no"
      BY <1>2, <2>1 DEF ReadOf
    <2>3. reading[r] = "buffer" => HalfRead(r)'
      <3> SUFFICES ASSUME reading[r] = "buffer" PROVE HalfRead(r)'
        OBVIOUS
      <3>1. HalfRead(r) BY <2>1 DEF ReadOf
      <3>2. r \in overlap BY <1>2, <3>1 DEF HalfRead
      <3>3. seen'[r] = seen[r] BY <1>1, <1>2
      <3> QED BY <1>2, <3>1, <3>2, <3>3 DEF HalfRead
    <2>4. reading[r] \in {"entry", "done"} => FullyRead(r)'
      <3> SUFFICES ASSUME reading[r] \in {"entry", "done"}, NEW j \in Keys
                   PROVE  /\ seen'[r][j] + Expects(r, j)' <= added'[j]
                          /\ r \notin overlap' => seen'[r][j] >= floor'[r][j]
        BY DEF FullyRead
      <3>1. /\ seen[r][j] + Expects(r, j) <= added[j]
            /\ r \notin overlap => seen[r][j] >= floor[r][j]
        BY <2>1 DEF ReadOf, FullyRead
      <3>0. Expects(r, j)' \in Nat
        BY <1>3 DEF Expects, StatsTypeOK, Flushers
      <3>2. /\ seen[r][j] \in Nat /\ Expects(r, j) \in Nat /\ Expects(r, j)' \in Nat
            /\ carried[f][j] \in Nat /\ added[j] \in Nat /\ floor[r][j] \in Nat
            /\ carried["loop"][j] \in Nat /\ carried["stop"][j] \in Nat
        BY <1>2, <3>0, Numbers DEF RInv, IInv
      <3>3. CASE r \in late
        <4>1. f \in behind[r] BY <3>3
        <4>2. Expects(r, j)' + carried[f][j] = Expects(r, j)
          <5>1. CASE f = "loop"
            BY <1>2, <3>2, <4>1, <5>1 DEF Expects, Flushers
          <5>2. CASE f = "stop"
            BY <1>2, <3>2, <4>1, <5>2 DEF Expects, Flushers
          <5> QED BY <5>1, <5>2 DEF Flushers
        <4>3. seen'[r][j] = seen[r][j] + carried[f][j]
          BY <1>2, <3>3, Numbers, PlusType DEF RInv, IInv
        <4> QED BY <1>2, <3>1, <3>2, <4>2, <4>3
      <3>4. CASE r \notin late
        <4>1. Expects(r, j)' <= Expects(r, j)
          BY <1>2, <3>2 DEF Expects, Flushers
        <4> QED BY <1>2, <3>1, <3>2, <3>4, <4>1
      <3> QED BY <3>3, <3>4
    <2> QED BY <1>2, <2>1, <2>2, <2>3, <2>4 DEF ReadOf
  <1> QED BY <1>4 DEF ReadInv

LEMMA ReaderReads ==
  ASSUME RInv, NEW r \in Readers, ReadStep(r)
  PROVE  ReadInv'
  <1>1. UNCHANGED <<pending, flushing, carried, db, added>>
    BY ReadKeeps DEF bufferVars, storeVars
  <1>2. ASSUME NEW o \in Readers, o # r PROVE ReadOf(o)'
    <2>1. /\ reading'[o] = reading[o] /\ seen'[o] = seen[o] /\ floor'[o] = floor[o]
          /\ behind'[o] = behind[o] /\ (o \in overlap' <=> o \in overlap)
      BY <1>2 DEF ReadStep, ReadStore, ReadBuffer, TakeEntry, ReadEntry,
                  RInv, IInv, StatsTypeOK
    <2>2. \A j \in Keys : Expects(o, j)' = Expects(o, j)
      BY <1>1, <2>1 DEF Expects
    <2> QED BY <1>1, <2>1, <2>2 DEF RInv, ReadInv, ReadOf, HalfRead, FullyRead
  <1>3. ReadOf(r)'
    <2>1. ReadOf(r) BY DEF RInv, ReadInv
    <2>2. CASE ReadStore(r)
      <3>1. /\ reading'[r] = "buffer" /\ seen'[r] = db /\ floor'[r] = added
            /\ behind' = behind /\ reading[r] = "no"
            /\ r \notin overlap' => \A f \in Flushers : flushing[f] = "no"
        BY <2>2 DEF ReadStore, RInv, IInv, StatsTypeOK
      <3>2. HalfRead(r)'
        BY <1>1, <3>1, Numbers DEF HalfRead, RInv, IInv
      <3> QED BY <1>1, <2>1, <3>1, <3>2 DEF ReadOf
    <2>3. CASE reading[r] = "buffer" /\ (ReadBuffer(r) \/ TakeEntry(r))
      <3>1. /\ seen'[r] = Plus(seen[r], pending) /\ floor'[r] = floor[r]
            /\ overlap' = overlap
            /\ reading'[r] \in {"entry", "done"}
            /\ reading'[r] # "entry" => behind'[r] = behind[r]
            /\ reading'[r] = "entry" => behind'[r] = {f \in Flushers : flushing[f] # "no"}
        BY <2>3 DEF ReadBuffer, TakeEntry, RInv, IInv, StatsTypeOK
      <3>2. HalfRead(r) /\ behind[r] = {}
        BY <2>1, <2>3 DEF ReadOf
      <3>3. \A f \in behind'[r] : flushing'[f] # "no"
        BY <1>1, <3>1, <3>2
      <3>4. FullyRead(r)'
        <4> SUFFICES ASSUME NEW j \in Keys
                     PROVE  /\ seen'[r][j] + Expects(r, j)' <= added'[j]
                            /\ r \notin overlap' => seen'[r][j] >= floor'[r][j]
          BY DEF FullyRead
        <4>1. seen'[r][j] = seen[r][j] + pending[j]
          BY <3>1, Numbers, PlusType DEF RInv, IInv
        <4>2. added[j] = db[j] + pending[j] + carried["loop"][j] + carried["stop"][j]
          BY Whereabouts DEF RInv
        <4>3. Expects(r, j)' <= carried["loop"][j] + carried["stop"][j]
          BY <1>1, Numbers DEF Expects, RInv, IInv
        <4>4. Expects(r, j)' \in Nat
          BY <1>1, Numbers DEF Expects, RInv, IInv
        <4>5. seen'[r][j] + Expects(r, j)' <= added'[j]
          BY <1>1, <3>2, <4>1, <4>2, <4>3, <4>4, Numbers DEF HalfRead, RInv, IInv
        <4>6. ASSUME r \notin overlap PROVE seen'[r][j] >= floor'[r][j]
          <5>1. /\ seen[r] = db /\ carried["loop"] = Zero /\ carried["stop"] = Zero
            BY <3>2, <4>6 DEF HalfRead, RInv, IInv, NothingLeftBehind, Flushers
          <5>2. carried["loop"][j] = 0 /\ carried["stop"][j] = 0
            BY <5>1 DEF Zero
          <5> QED BY <3>1, <3>2, <4>1, <4>2, <5>1, <5>2, Numbers DEF HalfRead, RInv, IInv
        <4> QED BY <3>1, <4>5, <4>6
      <3> QED BY <3>1, <3>2, <3>3, <3>4 DEF ReadOf
    <2>4. CASE ReadEntry(r)
      <3>1. /\ reading'[r] = "done" /\ behind'[r] = {} /\ reading[r] = "entry"
            /\ UNCHANGED <<seen, floor, overlap>>
        BY <2>4 DEF ReadEntry, RInv, IInv, StatsTypeOK
      <3>2. \A j \in Keys : Expects(r, j)' = 0
        BY <3>1 DEF Expects
      <3>3. FullyRead(r)'
        BY <1>1, <2>1, <3>1, <3>2, Numbers DEF ReadOf, FullyRead, RInv, IInv
      <3> QED BY <3>1, <3>3 DEF ReadOf
    <2> QED BY <2>2, <2>3, <2>4 DEF ReadStep, ReadBuffer, TakeEntry
  <1> QED BY <1>2, <1>3 DEF ReadInv

LEMMA StepReads ==
  ASSUME RInv, [StatsNext]_statsVars
  PROVE  RInv'
  <1>1. IInv'
    BY StepConserves DEF RInv
  <1>2. ASSUME NEW f \in Flushers, FlushStep(f) PROVE ReadInv'
    BY <1>2, SwapReads, CommitReads, CommitFailsReads, RestoreReads DEF FlushStep
  <1>3. ASSUME LoseMemory PROVE ReadInv'
    BY <1>3 DEF LoseMemory, ReadInv, ReadOf
  <1>4. ASSUME StoreClosed \/ UNCHANGED statsVars PROVE ReadInv'
    <2>1. UNCHANGED <<flushing, carried, db, added, reading, seen, floor, behind, overlap>>
      BY <1>4 DEF StoreClosed, statsVars, bufferVars, storeVars, readVars
    <2>2. \A r \in Readers, j \in Keys : Expects(r, j)' = Expects(r, j)
      BY <2>1 DEF Expects
    <2>3. ASSUME NEW r \in Readers PROVE ReadOf(r)'
      <3>1. ReadOf(r) BY DEF RInv, ReadInv
      <3> QED BY <2>1, <2>2, <3>1 DEF ReadOf, HalfRead, FullyRead
    <2> QED BY <2>3 DEF ReadInv
  <1>5. ASSUME NEW k \in Keys, NEW d \in Days, Increment(k, d) PROVE ReadInv'
    BY <1>5, IncrementReads
  <1>6. ASSUME NEW r \in Readers, ReadStep(r) PROVE ReadInv'
    BY <1>6, ReaderReads
  <1> QED BY <1>1, <1>2, <1>3, <1>4, <1>5, <1>6 DEF StatsNext, RInv

(***************************************************************************)
(* A merged read reports no unit twice, and all that were there when it    *)
(* began unless a flush was between its halves, whatever it races with.    *)
(***************************************************************************)
THEOREM ReadsSoundCorrect == StatsSpec => []ReadsSound
  <1>1. StatsInit => RInv
    <2>1. StatsInit => ReadInv
      BY DEF StatsInit, ReadInv, ReadOf
    <2> QED BY <2>1, InitConserves DEF RInv
  <1>2. RInv /\ [StatsNext]_statsVars => RInv'
    BY StepReads
  <1>3. RInv => ReadsSound
    <2> SUFFICES ASSUME RInv, NEW r \in Readers, reading[r] = "done", NEW k \in Keys
                 PROVE  /\ seen[r][k] <= added[k]
                        /\ r \notin overlap => seen[r][k] >= floor[r][k]
      BY DEF ReadsSound
    <2>1. FullyRead(r)
      BY DEF RInv, ReadInv, ReadOf
    <2> QED BY <2>1, Numbers DEF FullyRead, RInv, IInv
  <1> QED BY <1>1, <1>2, <1>3, PTL DEF StatsSpec

-----------------------------------------------------------------------------
(* The process.                                                            *)

(***************************************************************************)
(* What TypeOK leaves to the sequences and the ranges: both queues hold    *)
(* updates, and Telegram forgets only what there is.                       *)
(***************************************************************************)
ProcessType ==
  /\ TypeOK
  /\ batch \in Seq(Updates)
  /\ chan \in Seq(Updates)

\* A process that is gone has nothing under way.
Gone ==
  main = "gone" =>
    /\ poll = "off" /\ offset = 0
    /\ batch = <<>> /\ chan = <<>> /\ arrived = {}

\* Somebody has taken the update over from Telegram.
Taken(u) == u \in ToSet(chan) \cup arrived \cup dropped \/ times[u] > 0

(***************************************************************************)
(* All a poll loop is past has been taken: what Telegram has forgotten,    *)
(* what the offset is past while the loop runs (a loop that ends with its  *)
(* context may have passed an update it did not forward), and what comes   *)
(* before the batch it holds, whose updates follow one another.            *)
(***************************************************************************)
Passed ==
  \A u \in Updates :
    /\ u <= forgotten => Taken(u)
    /\ poll # "off" /\ u < offset => Taken(u)
    /\ batch # <<>> /\ u < batch[1] => Taken(u)

InOrder == \A i \in 1..Len(batch) : batch[i] = batch[1] + (i - 1)

(***************************************************************************)
(* One process: an update it has not passed, or has queued or with a       *)
(* handler, was counted at most once by each process before it.            *)
(***************************************************************************)
OnceEach ==
  /\ \A u \in Updates : times[u] <= 1 + restarts
  /\ main # "gone" => \A u \in Updates :
       u >= offset \/ u \in ToSet(chan) \cup arrived => times[u] <= restarts
  /\ \A u \in ToSet(chan) \cup arrived : u < offset
  /\ ToSet(chan) \cap arrived = {}
  /\ \A i, j \in 1..Len(chan) : chan[i] = chan[j] => i = j

(***************************************************************************)
(* A shutdown in which nothing went wrong: once Stop has waited for the    *)
(* handlers none is left and none can begin, no batch comes back while the *)
(* database is open, and Stop's own flush leaves the maps empty.           *)
(***************************************************************************)
ShutsDown ==
  /\ main # "up" => ~accepting
  /\ main # "flushing" => flushing["stop"] = "no"
  /\ open <=> main # "exit"
  /\ ~rough /\ open => \A f \in Flushers : flushing[f] # "restore"
  /\ ~rough /\ main \in {"flush", "flushing", "close", "exit"} => arrived = {}
  /\ ~rough /\ main \in {"flushing", "close"} => pending = Zero

\* A queue's members when an update is put in, and when one is taken out.
LEMMA QueueFacts ==
  ASSUME NEW s \in Seq(Updates)
  PROVE  /\ ToSet(s) \subseteq Updates
         /\ \A u \in Updates : ToSet(Append(s, u)) = ToSet(s) \cup {u}
         /\ s # <<>> => /\ Head(s) = s[1] /\ s[1] \in Updates
                        /\ Tail(s) \in Seq(Updates)
                        /\ ToSet(s) = ToSet(Tail(s)) \cup {s[1]}
  <1>1. ToSet(s) \subseteq Updates
    BY DEF ToSet
  <1>2. ASSUME NEW u \in Updates PROVE ToSet(Append(s, u)) = ToSet(s) \cup {u}
    <2>1. /\ DOMAIN Append(s, u) = 1..(Len(s) + 1)
          /\ \A i \in 1..Len(s) : Append(s, u)[i] = s[i]
          /\ Append(s, u)[Len(s) + 1] = u
          /\ Len(s) \in Nat /\ DOMAIN s = 1..Len(s)
      OBVIOUS
    <2> QED BY <2>1 DEF ToSet
  <1>3. ASSUME s # <<>>
        PROVE  /\ Head(s) = s[1] /\ s[1] \in Updates
               /\ Tail(s) \in Seq(Updates)
               /\ ToSet(s) = ToSet(Tail(s)) \cup {s[1]}
    <2>1. /\ Len(s) \in Nat /\ Len(s) > 0 /\ DOMAIN s = 1..Len(s)
          /\ Head(s) = s[1] /\ Tail(s) \in Seq(Updates)
          /\ DOMAIN Tail(s) = 1..(Len(s) - 1)
          /\ \A i \in 1..(Len(s) - 1) : Tail(s)[i] = s[i + 1]
      BY <1>3
    <2>2. \A i \in 1..Len(s) : i = 1 \/ (i - 1 \in 1..(Len(s) - 1) /\ s[i] = Tail(s)[i - 1])
      BY <2>1
    <2>3. \A i \in 1..(Len(s) - 1) : i + 1 \in 1..Len(s)
      BY <2>1
    <2>4. ToSet(s) = {s[i] : i \in 1..Len(s)}
      BY <2>1 DEF ToSet
    <2>5. ToSet(Tail(s)) = {Tail(s)[i] : i \in 1..(Len(s) - 1)}
      BY <2>1 DEF ToSet
    <2>6. \A x \in ToSet(s) : x \in ToSet(Tail(s)) \cup {s[1]}
      BY <2>2, <2>4, <2>5
    <2>7. \A x \in ToSet(Tail(s)) : x \in ToSet(s)
      BY <2>1, <2>3, <2>4, <2>5
    <2>8. s[1] \in ToSet(s) /\ s[1] \in Updates
      BY <2>1, <2>4
    <2> QED BY <2>1, <2>6, <2>7, <2>8
  <1> QED BY <1>1, <1>2, <1>3

LEMMA EmptyQueue ==
  /\ <<>> \in Seq(Updates) /\ ToSet(<<>>) = {} /\ Len(<<>>) = 0
  /\ Len(<<>>) <= ChanCap
  BY ChanCapAssumption DEF ToSet

LEMMA MaxOfTwo ==
  ASSUME NEW a \in Int, NEW b \in Int
  PROVE  Max({a, b}) = IF a >= b THEN a ELSE b
  <1> DEFINE m == IF a >= b THEN a ELSE b
  <1>1. m \in {a, b} /\ \A y \in {a, b} : m >= y
    OBVIOUS
  <1>2. \A x \in {a, b} : (\A y \in {a, b} : x >= y) => x = m
    OBVIOUS
  <1> QED BY <1>1, <1>2 DEF Max

-----------------------------------------------------------------------------
(* The process is a user of the counters.                                  *)

\* What neither moves an update nor counts one.
Quiet ==
  \/ \E r \in Readers : Read(r)
  \/ Tick \/ LastFlush
  \/ \E f \in Flushers : Write(f) \/ WriteFails(f)
  \/ Signal \/ Drained \/ StopFlush \/ StopFlushed \/ CloseStore

LEMMA QuietKeeps ==
  ASSUME Quiet
  PROVE  /\ UNCHANGED <<posted, forgotten, pollVars, chan, arrived, restarts, times, dropped>>
         /\ main' = "gone" <=> main = "gone"
  BY DEF Quiet, Read, Tick, LastFlush, Write, WriteFails, Signal, Drained,
         StopFlush, StopFlushed, CloseStore, hostVars, histVars

\* The poll loop, the channel and Telegram do not touch the counters.
Moves == Post \/ Check \/ Fetch \/ FetchFails \/ Forward \/ Dispatch

LEMMA MovesKeep ==
  ASSUME Moves
  PROVE  UNCHANGED <<statsVars, hostVars, histVars>>
  BY DEF Moves, Post, Check, Fetch, FetchFails, Forward, Dispatch

LEMMA NextCases ==
  ASSUME Next
  PROVE  Moves \/ (\E u \in Updates : Count(u)) \/ Quiet \/ Exit \/ Crash \/ Restart
  BY DEF Next, Moves, Quiet

\* Every step of the process is a step of the counters or leaves them alone.
LEMMA ProcessSteps ==
  ASSUME [Next]_vars
  PROVE  [StatsNext]_statsVars
  <1>1. CASE Moves BY <1>1, MovesKeep
  <1>2. ASSUME NEW u \in Updates, Count(u) PROVE StatsNext
    BY <1>2, KeyOfAssumption DEF Count, StatsNext
  <1>3. CASE Quiet
    <2>1. ASSUME NEW r \in Readers, Read(r) PROVE StatsNext
      BY <2>1 DEF Read, StatsNext
    <2>2. CASE Tick \/ LastFlush
      BY <2>2 DEF Tick, LastFlush, StatsNext, FlushStep, Flushers
    <2>3. ASSUME NEW f \in Flushers, Write(f) \/ WriteFails(f) PROVE StatsNext
      BY <2>3 DEF Write, WriteFails, StatsNext, FlushStep
    <2>4. CASE Signal \/ Drained \/ StopFlushed
      BY <2>4 DEF Signal, Drained, StopFlushed
    <2>5. CASE StopFlush
      BY <2>5 DEF StopFlush, StatsNext, FlushStep, Flushers
    <2>6. CASE CloseStore
      BY <2>6 DEF CloseStore, StatsNext
    <2> QED BY <1>3, <2>1, <2>2, <2>3, <2>4, <2>5, <2>6 DEF Quiet
  <1>4. CASE Exit \/ Crash
    BY <1>4 DEF Exit, Crash, Ends, StatsNext
  <1>5. CASE Restart
    BY <1>5 DEF Restart
  <1>6. CASE UNCHANGED vars
    BY <1>6 DEF vars
  <1> QED BY <1>1, <1>2, <1>3, <1>4, <1>5, <1>6, NextCases

(***************************************************************************)
(* The process uses the counters as their own specification allows:        *)
(* what holds of StatsBuffer holds in every process that polls, counts,    *)
(* flushes on a ticker and at its end, crashes and starts over.            *)
(***************************************************************************)
THEOREM ProcessUsesCounters == Spec => StatsSpec
  <1>1. Init => StatsInit
    BY DEF Init
  <1>2. [Next]_vars => [StatsNext]_statsVars
    BY ProcessSteps
  <1> QED BY <1>1, <1>2, PTL DEF Spec, StatsSpec

-----------------------------------------------------------------------------
(* Types of the process.                                                   *)

LEMMA FetchType ==
  ASSUME ProcessType, Fetch
  PROVE  /\ forgotten' \in 0..MaxUpdate
         /\ forgotten' = IF forgotten >= offset - 1 THEN forgotten ELSE offset - 1
         /\ batch' \in Seq(Updates)
         /\ \A i \in 1..Len(batch') : batch'[i] = forgotten' + i
  <1>1. forgotten \in Int /\ offset - 1 \in Int /\ posted \in 0..MaxUpdate /\ MaxUpdate \in Nat
    BY MaxUpdateAssumption DEF ProcessType, TypeOK
  <1>2. forgotten' = IF forgotten >= offset - 1 THEN forgotten ELSE offset - 1
    BY <1>1, MaxOfTwo DEF Fetch
  <1>3. forgotten' \in 0..MaxUpdate
    BY <1>2, MaxUpdateAssumption DEF ProcessType, TypeOK
  <1>4. PICK first, last :
          /\ first = forgotten' /\ last \in first..posted
          /\ batch' = [i \in 1..(last - first) |-> first + i]
    BY DEF Fetch
  <1>5. /\ first \in Nat /\ last \in Int /\ first <= last /\ last <= MaxUpdate
        /\ last - first \in Nat
    <2>1. first \in 0..MaxUpdate /\ last \in first..posted
      BY <1>3, <1>4
    <2> QED BY <1>1, <2>1
  <1>6. \A i \in 1..(last - first) : first + i \in Updates
    BY <1>1, <1>5 DEF Updates
  <1>7. batch' \in Seq(Updates) /\ Len(batch') = last - first
    <2> DEFINE s == [i \in 1..(last - first) |-> first + i]
    <2>1. s \in Seq(Updates) /\ Len(s) = last - first
      BY <1>5, <1>6
    <2> QED BY <1>4, <2>1
  <1> QED BY <1>2, <1>3, <1>4, <1>7

LEMMA StepProcessType ==
  ASSUME ProcessType, [Next]_vars
  PROVE  ProcessType'
  <1>1. StatsTypeOK'
    BY ProcessSteps, StepType DEF ProcessType, TypeOK
  <1>2. /\ offset \in Nat /\ MaxUpdate \in Nat
        /\ ToSet(batch) \subseteq Updates /\ ToSet(chan) \subseteq Updates
    BY MaxUpdateAssumption DEF ProcessType, TypeOK
  <1> DEFINE Queues == /\ ToSet(batch') \subseteq Updates
                       /\ ToSet(chan') \subseteq Updates
                       /\ batch' \in Seq(Updates) /\ chan' \in Seq(Updates)
                       /\ Len(chan') <= ChanCap
  <1>3. CASE Moves
    <2>0. UNCHANGED <<hostVars, histVars>> BY <1>3, MovesKeep
    <2>1. Queues /\ offset' \in 0..(MaxUpdate + 1) /\ arrived' \subseteq Updates
          /\ forgotten' \in 0..MaxUpdate
          /\ poll' \in {"off", "check", "fetch", "forward"}
          /\ posted' \in 0..MaxUpdate
      <3>1. CASE Post
        BY <1>2, <3>1 DEF Post, ProcessType, TypeOK, pollVars
      <3>2. CASE Check
        BY <3>2 DEF Check, ProcessType, TypeOK
      <3>3. CASE Fetch
        BY <3>3, FetchType, QueueFacts DEF Fetch, ProcessType, TypeOK, NextOf
      <3>4. CASE FetchFails
        <4>1. Max({forgotten, offset - 1}) \in 0..MaxUpdate
          <5>1. forgotten \in Int /\ offset - 1 \in Int
            BY <1>2 DEF ProcessType, TypeOK
          <5>2. Max({forgotten, offset - 1}) = IF forgotten >= offset - 1 THEN forgotten ELSE offset - 1
            BY <5>1, MaxOfTwo
          <5> QED BY <1>2, <5>2 DEF ProcessType, TypeOK
        <4> QED BY <3>4, <4>1 DEF FetchFails, ProcessType, TypeOK
      <3>5. CASE Forward
        <4>0. batch \in Seq(Updates) /\ batch # <<>> /\ chan \in Seq(Updates)
          BY <3>5 DEF Forward, ProcessType
        <4>1. Head(batch) \in Updates /\ Tail(batch) \in Seq(Updates)
          BY <4>0, QueueFacts
        <4>a. ToSet(Tail(batch)) \subseteq Updates
          BY <4>1, QueueFacts
        <4>b. /\ Append(chan, Head(batch)) \in Seq(Updates)
              /\ Len(Append(chan, Head(batch))) = Len(chan) + 1
              /\ Len(chan) \in Nat
          BY <4>0, <4>1
        <4>c. ToSet(Append(chan, Head(batch))) \subseteq Updates
          BY <4>b, QueueFacts
        <4>d. <<>> \in Seq(Updates) /\ ToSet(<<>>) \subseteq Updates
          BY EmptyQueue
        <4>2. Head(batch) + 1 \in 0..(MaxUpdate + 1)
          BY <1>2, <4>1 DEF Updates
        <4>3. poll' \in {"off", "check", "forward"} /\ offset' \in 0..(MaxUpdate + 1)
          BY <3>5, <4>2 DEF Forward, ProcessType, TypeOK, NextOf
        <4>5. Len(chan) < ChanCap => Len(chan) + 1 <= ChanCap
          BY <4>b, ChanCapAssumption
        <4>4. Queues
          BY <3>5, <4>0, <4>1, <4>a, <4>b, <4>c, <4>d, <4>5 DEF Forward, ProcessType, TypeOK
        <4> QED BY <3>5, <4>3, <4>4 DEF Forward, ProcessType, TypeOK
      <3>6. CASE Dispatch
        <4>1. /\ Head(chan) \in Updates /\ Tail(chan) \in Seq(Updates)
              /\ ToSet(Tail(chan)) \subseteq Updates
              /\ Len(Tail(chan)) = Len(chan) - 1 /\ Len(chan) \in Nat
          BY <3>6, QueueFacts DEF Dispatch, ProcessType
        <4>2. Len(Tail(chan)) <= ChanCap
          BY <4>1, ChanCapAssumption DEF ProcessType, TypeOK
        <4> QED BY <3>6, <4>1, <4>2 DEF Dispatch, ProcessType, TypeOK, pollVars
      <3> QED BY <1>3, <3>1, <3>2, <3>3, <3>4, <3>5, <3>6 DEF Moves
    <2> QED BY <1>1, <2>0, <2>1 DEF ProcessType, TypeOK, hostVars, histVars
  <1>4. ASSUME NEW u \in Updates, Count(u) PROVE ProcessType'
    BY <1>1, <1>4 DEF Count, ProcessType, TypeOK, pollVars, hostVars
  <1>5. CASE Quiet
    <2>1. /\ accepting' \in BOOLEAN /\ canceled' \in BOOLEAN /\ ticking' \in BOOLEAN
          /\ rough' \in BOOLEAN
          /\ main' \in {"up", "drain", "flush", "flushing", "close", "exit", "gone"}
      BY <1>5 DEF Quiet, Read, Tick, LastFlush, Write, WriteFails, Signal, Drained,
                  StopFlush, StopFlushed, CloseStore, hostVars, histVars,
                  ProcessType, TypeOK
    <2> QED BY <1>1, <1>5, <2>1, QuietKeeps DEF ProcessType, TypeOK, pollVars
  <1>6. ASSUME NEW roughly \in BOOLEAN, Ends(roughly) PROVE ProcessType'
    <2>1. /\ batch' = <<>> /\ chan' = <<>> /\ arrived' = {} /\ offset' = 0
          /\ dropped' = dropped \cup ToSet(chan) \cup arrived
      BY <1>6 DEF Ends
    <2>2. Queues /\ offset' \in 0..(MaxUpdate + 1)
      BY <1>2, <2>1, EmptyQueue
    <2>3. dropped' \subseteq Updates /\ arrived' \subseteq Updates
      BY <1>2, <2>1 DEF ProcessType, TypeOK
    <2> QED BY <1>1, <1>6, <2>2, <2>3 DEF Ends, ProcessType, TypeOK
  <1>7. CASE Exit \/ Crash
    BY <1>6, <1>7 DEF Exit, Crash
  <1>8. CASE Restart
    BY <1>1, <1>8, MaxRestartsAssumption DEF Restart, ProcessType, TypeOK, histVars
  <1>9. CASE UNCHANGED vars
    BY <1>1, <1>9 DEF vars, pollVars, hostVars, histVars, ProcessType, TypeOK
  <1> QED BY <1>3, <1>4, <1>5, <1>7, <1>8, <1>9, NextCases

LEMMA InitProcessType == Init => ProcessType
  <1> SUFFICES ASSUME Init PROVE ProcessType
    OBVIOUS
  <1>1. StatsTypeOK
    BY InitConserves DEF Init, IInv
  <1>2. /\ ToSet(batch) \subseteq Updates /\ ToSet(chan) \subseteq Updates
        /\ batch \in Seq(Updates) /\ chan \in Seq(Updates) /\ Len(chan) <= ChanCap
    BY EmptyQueue DEF Init
  <1>3. /\ posted \in 0..MaxUpdate /\ forgotten \in 0..MaxUpdate
        /\ offset \in 0..(MaxUpdate + 1) /\ restarts \in 0..MaxRestarts
    BY MaxUpdateAssumption, MaxRestartsAssumption DEF Init
  <1> QED BY <1>1, <1>2, <1>3 DEF Init, ProcessType, TypeOK

(***************************************************************************)
(* Types of the process: the queues hold updates, the channel never more   *)
(* than its capacity, and the offset is never more than one past the last  *)
(* update, through any number of starts.                                   *)
(***************************************************************************)
THEOREM ProcessTypeCorrect == Spec => []TypeOK
  <1>1. ProcessType /\ [Next]_vars => ProcessType'
    BY StepProcessType
  <1>2. ProcessType => TypeOK
    BY DEF ProcessType
  <1> QED BY InitProcessType, <1>1, <1>2, PTL DEF Spec

-----------------------------------------------------------------------------
(* Every acknowledged update is taken over, and by one process once.       *)

TakenInv == ProcessType /\ Gone /\ Passed /\ InOrder /\ OnceEach

LEMMA QuietTakes ==
  ASSUME TakenInv, Quiet \/ UNCHANGED vars
  PROVE  Gone' /\ Passed' /\ InOrder' /\ OnceEach'
  <1>1. /\ UNCHANGED <<posted, forgotten, pollVars, chan, arrived, restarts, times, dropped>>
        /\ main' = "gone" <=> main = "gone"
    BY QuietKeeps DEF vars, hostVars, histVars
  <1>2. \A u : Taken(u)' <=> Taken(u)
    BY <1>1 DEF Taken
  <1>3. Gone' /\ InOrder'
    BY <1>1 DEF TakenInv, Gone, InOrder, pollVars
  <1>4. Passed'
    BY <1>1, <1>2 DEF TakenInv, Passed, pollVars
  <1>5. OnceEach'
    BY <1>1 DEF TakenInv, OnceEach, pollVars
  <1> QED BY <1>3, <1>4, <1>5

\* The head of the batch: in order, so all before the next one is passed.
LEMMA BatchFacts ==
  ASSUME TakenInv, batch # <<>>
  PROVE  /\ Head(batch) = batch[1] /\ batch[1] \in Updates
         /\ Tail(batch) # <<>> => Tail(batch)[1] = batch[1] + 1
         /\ \A i \in 1..Len(Tail(batch)) : Tail(batch)[i] = Tail(batch)[1] + (i - 1)
  <1>1. batch \in Seq(Updates) /\ Len(batch) \in Nat /\ Len(batch) > 0
    BY DEF TakenInv, ProcessType
  <1>2. /\ Head(batch) = batch[1] /\ batch[1] \in Updates
        /\ Tail(batch) \in Seq(Updates) /\ Len(Tail(batch)) = Len(batch) - 1
        /\ \A i \in 1..Len(Tail(batch)) : Tail(batch)[i] = batch[i + 1]
    BY <1>1
  <1>3. \A i \in 1..Len(Tail(batch)) : Tail(batch)[i] = batch[1] + i
    <2> SUFFICES ASSUME NEW i \in 1..Len(Tail(batch)) PROVE batch[i + 1] = batch[1] + i
      BY <1>2
    <2>1. i + 1 \in 1..Len(batch) BY <1>1, <1>2
    <2>2. batch[i + 1] = batch[1] + ((i + 1) - 1) BY <2>1 DEF TakenInv, InOrder
    <2> QED BY <2>2
  <1>4. Tail(batch) # <<>> => 1 \in 1..Len(Tail(batch))
    BY <1>1, <1>2
  <1>5. batch[1] \in Int
    BY <1>2 DEF Updates
  <1>6. Tail(batch) # <<>> => Tail(batch)[1] = batch[1] + 1
    BY <1>3, <1>4
  <1>7. ASSUME NEW i \in 1..Len(Tail(batch))
        PROVE  Tail(batch)[i] = Tail(batch)[1] + (i - 1)
    <2>1. i \in Int /\ 1 \in 1..Len(Tail(batch)) BY <1>1, <1>2
    <2>2. Tail(batch)[i] = batch[1] + i /\ Tail(batch)[1] = batch[1] + 1
      BY <1>3, <2>1
    <2> QED BY <1>5, <2>1, <2>2
  <1> QED BY <1>2, <1>6, <1>7

\* An answer begins where everything has been taken.
LEMMA FetchTakes ==
  ASSUME TakenInv, Fetch
  PROVE  Gone' /\ Passed' /\ InOrder' /\ OnceEach'
  <1>1. UNCHANGED <<statsVars, posted, offset, chan, arrived, hostVars, histVars>> /\ poll = "fetch"
    BY DEF Fetch
  <1>2. /\ forgotten' \in Nat
        /\ forgotten' = IF forgotten >= offset - 1 THEN forgotten ELSE offset - 1
        /\ batch' \in Seq(Updates)
        /\ \A i \in 1..Len(batch') : batch'[i] = forgotten' + i
    BY FetchType, MaxUpdateAssumption DEF TakenInv
  <1>3. \A u : Taken(u)' <=> Taken(u)
    BY <1>1 DEF Taken, histVars
  <1>4. forgotten \in Int /\ offset \in Int /\ Updates \subseteq Int
    BY MaxUpdateAssumption DEF TakenInv, ProcessType, TypeOK, Updates
  <1>5. \A u \in Updates : u <= forgotten' => Taken(u)
    BY <1>1, <1>2, <1>4 DEF TakenInv, Passed
  <1>6. batch' # <<>> => batch'[1] = forgotten' + 1
    BY <1>2
  <1>7. Passed'
    <2> SUFFICES ASSUME NEW u \in Updates
                 PROVE  /\ u <= forgotten' => Taken(u)'
                        /\ poll' # "off" /\ u < offset' => Taken(u)'
                        /\ batch' # <<>> /\ u < batch'[1] => Taken(u)'
      BY DEF Passed
    <2>1. u < offset => Taken(u) BY <1>1 DEF TakenInv, Passed
    <2>2. batch' # <<>> /\ u < batch'[1] => u <= forgotten'
      BY <1>2, <1>4, <1>6
    <2> QED BY <1>1, <1>3, <1>5, <2>1, <2>2
  <1>8. InOrder'
    <2> SUFFICES ASSUME NEW i \in 1..Len(batch')
                 PROVE  batch'[i] = batch'[1] + (i - 1)
      BY DEF InOrder
    <2>1. 1 \in 1..Len(batch') /\ i \in Int BY <1>2
    <2> QED BY <1>2, <2>1
  <1>9. Gone'
    BY <1>1 DEF TakenInv, Gone, hostVars
  <1>10. OnceEach'
    BY <1>1 DEF TakenInv, OnceEach, hostVars, histVars
  <1> QED BY <1>7, <1>8, <1>9, <1>10

LEMMA FetchFailsTakes ==
  ASSUME TakenInv, FetchFails
  PROVE  Gone' /\ Passed' /\ InOrder' /\ OnceEach'
  <1>1. /\ UNCHANGED <<offset, batch, chan, arrived, hostVars, histVars>>
        /\ poll = "fetch"
    BY DEF FetchFails
  <1>2. forgotten \in Int /\ offset \in Int /\ Updates \subseteq Int
    BY MaxUpdateAssumption DEF TakenInv, ProcessType, TypeOK, Updates
  <1>3. \A u : Taken(u)' <=> Taken(u)
    BY <1>1 DEF Taken, histVars
  <1>4. forgotten' = forgotten \/ forgotten' = offset - 1
    <2>1. Max({forgotten, offset - 1}) \in {forgotten, offset - 1}
      BY <1>2, MaxOfTwo
    <2> QED BY <2>1 DEF FetchFails
  <1>5. ASSUME NEW u \in Updates
        PROVE  /\ u <= forgotten' => Taken(u)
               /\ u < offset => Taken(u)
               /\ batch # <<>> /\ u < batch[1] => Taken(u)
    <2>1. u <= offset - 1 => u < offset BY <1>2
    <2> QED BY <1>1, <1>4, <2>1 DEF TakenInv, Passed
  <1>6. Passed'
    BY <1>1, <1>3, <1>5 DEF Passed
  <1>7. Gone'
    BY <1>1 DEF TakenInv, Gone, hostVars
  <1>8. OnceEach' /\ InOrder'
    BY <1>1 DEF TakenInv, OnceEach, InOrder, hostVars, histVars
  <1> QED BY <1>6, <1>7, <1>8

LEMMA ForwardTakes ==
  ASSUME TakenInv, Forward
  PROVE  Gone' /\ Passed' /\ InOrder' /\ OnceEach'
  <1>0. PICK h : h = batch[1]
    OBVIOUS
  <1>1. /\ poll = "forward" /\ batch # <<>>
        /\ UNCHANGED <<forgotten, arrived, hostVars, histVars>>
    BY DEF Forward
  <1>2. /\ Head(batch) = h /\ h \in Updates /\ h \in Int
        /\ Tail(batch) # <<>> => Tail(batch)[1] = h + 1
        /\ \A i \in 1..Len(Tail(batch)) : Tail(batch)[i] = Tail(batch)[1] + (i - 1)
    BY <1>0, <1>1, BatchFacts DEF Updates
  <1>3. main # "gone"
    BY <1>1 DEF TakenInv, Gone
  <1>4. chan \in Seq(Updates) /\ offset \in Int /\ Updates \subseteq Int /\ Len(chan) \in Nat
    BY MaxUpdateAssumption DEF TakenInv, ProcessType, TypeOK, Updates
  <1>5. \/ /\ h < offset
           /\ batch' = Tail(batch) /\ UNCHANGED <<offset, chan>>
        \/ /\ ~(h < offset)
           /\ batch' = Tail(batch) /\ offset' = h + 1 /\ chan' = Append(chan, h)
        \/ /\ ~(h < offset)
           /\ batch' = <<>> /\ offset' = h + 1 /\ UNCHANGED chan /\ poll' = "off"
    BY <1>2 DEF Forward
  <1>6. ToSet(Append(chan, h)) = ToSet(chan) \cup {h}
    BY <1>2, <1>4, QueueFacts
  <1>7. ToSet(chan) \subseteq ToSet(chan')
    BY <1>5, <1>6
  <1>8. \A u : Taken(u) => Taken(u)'
    BY <1>1, <1>7 DEF Taken, histVars
  <1>9. \A u \in Updates : /\ u <= forgotten \/ u < offset \/ u < h => Taken(u)
    BY <1>0, <1>1 DEF TakenInv, Passed
  <1>10. poll' # "off" \/ batch' # <<>> => Taken(h)'
    <2>1. CASE h < offset BY <1>2, <1>8, <1>9, <2>1
    <2>2. CASE chan' = Append(chan, h) BY <1>6, <2>2 DEF Taken
    <2> QED BY <1>5, <2>1, <2>2
  <1>11. batch' # <<>> => batch'[1] = h + 1
    BY <1>2, <1>5
  <1>12. Passed'
    <2> SUFFICES ASSUME NEW u \in Updates
                 PROVE  /\ u <= forgotten' => Taken(u)'
                        /\ poll' # "off" /\ u < offset' => Taken(u)'
                        /\ batch' # <<>> /\ u < batch'[1] => Taken(u)'
      BY DEF Passed
    <2>1. u < h + 1 => u = h \/ u < h BY <1>2, <1>4
    <2>2. u < offset' => u < offset \/ u < h + 1 BY <1>5
    <2>3. u <= forgotten' => Taken(u)'
      BY <1>1, <1>8, <1>9
    <2>4. (poll' # "off" \/ batch' # <<>>) /\ u < h + 1 => Taken(u)'
      BY <1>8, <1>9, <1>10, <2>1
    <2>5. u < offset => Taken(u)'
      BY <1>8, <1>9
    <2> QED BY <1>11, <2>2, <2>3, <2>4, <2>5
  <1>13. InOrder'
    <2>1. CASE batch' = Tail(batch) BY <1>2, <2>1 DEF InOrder
    <2>2. CASE batch' = <<>>
      <3>1. Len(batch') = 0 BY <2>2
      <3> QED BY <3>1 DEF InOrder
    <2> QED BY <1>5, <2>1, <2>2
  <1>14. Gone'
    BY <1>1, <1>3 DEF Gone, hostVars
  <1>15. OnceEach'
    <2>1. UNCHANGED <<arrived, times, restarts, main>> /\ offset' >= offset
      BY <1>1, <1>2, <1>4, <1>5 DEF hostVars, histVars
    <2>2. CASE chan' = chan
      <3>1. \A u \in Updates : u >= offset' => u >= offset
        BY <1>2, <1>4, <1>5, <2>1
      <3>2. \A u \in ToSet(chan) \cup arrived : u < offset'
        <4>1. ToSet(chan) \cup arrived \subseteq Int
          BY <1>4 DEF TakenInv, ProcessType, TypeOK
        <4>2. offset' \in Int BY <1>2, <1>4, <1>5
        <4> QED BY <1>4, <2>1, <4>1, <4>2 DEF TakenInv, OnceEach
      <3> QED BY <1>3, <2>1, <2>2, <3>1, <3>2 DEF TakenInv, OnceEach
    <2>3. CASE chan' = Append(chan, h) /\ ~(h < offset) /\ offset' = h + 1
      <3>1. \A u \in ToSet(chan) \cup arrived : u < offset /\ times[u] <= restarts
        <4>1. ToSet(chan) \cup arrived \subseteq Updates
          BY DEF TakenInv, ProcessType, TypeOK
        <4> QED BY <1>3, <4>1 DEF TakenInv, OnceEach
      <3>2. h \notin ToSet(chan) \cup arrived
        BY <2>3, <3>1
      <3>3. times[h] <= restarts
        BY <1>2, <1>3, <1>4, <2>3 DEF TakenInv, OnceEach
      <3>4. ToSet(chan') = ToSet(chan) \cup {h}
        BY <1>6, <2>3
      <3>5. \A i, j \in 1..Len(chan') : chan'[i] = chan'[j] => i = j
        <4>1. /\ Len(chan') = Len(chan) + 1 /\ chan'[Len(chan) + 1] = h
              /\ \A i \in 1..Len(chan) : chan'[i] = chan[i] /\ chan[i] \in ToSet(chan)
          BY <1>2, <1>4, <2>3 DEF ToSet
        <4>2. \A i \in 1..Len(chan') : i \in 1..Len(chan) \/ i = Len(chan) + 1
          BY <1>4, <4>1
        <4>3. \A i, j \in 1..Len(chan) : chan[i] = chan[j] => i = j
          BY DEF TakenInv, OnceEach
        <4> QED BY <3>2, <4>1, <4>2, <4>3
      <3>6. \A u \in Updates : u >= offset' => u >= offset
        BY <1>2, <1>4, <2>3
      <3>7. \A u \in ToSet(chan') \cup arrived' : u < offset'
        <4>1. ToSet(chan) \cup arrived \subseteq Int
          BY <1>4 DEF TakenInv, ProcessType, TypeOK
        <4> QED BY <1>2, <1>4, <2>1, <2>3, <3>1, <3>4, <4>1
      <3>8. \A u \in Updates : u >= offset' \/ u \in ToSet(chan') \cup arrived' => times'[u] <= restarts'
        BY <1>3, <2>1, <3>1, <3>3, <3>4, <3>6 DEF TakenInv, OnceEach
      <3>9. ToSet(chan') \cap arrived' = {}
        BY <2>1, <3>2, <3>4 DEF TakenInv, OnceEach
      <3>10. \A u \in Updates : times'[u] <= 1 + restarts'
        BY <2>1 DEF TakenInv, OnceEach
      <3> QED BY <3>5, <3>7, <3>8, <3>9, <3>10 DEF OnceEach
    <2> QED BY <1>5, <2>2, <2>3
  <1> QED BY <1>12, <1>13, <1>14, <1>15

LEMMA OthersMoveTakes ==
  ASSUME TakenInv, Post \/ Check
  PROVE  Gone' /\ Passed' /\ InOrder' /\ OnceEach'
  <1>1. /\ UNCHANGED <<forgotten, offset, batch, chan, arrived, hostVars, histVars>>
        /\ poll' # "off" => poll # "off"
        /\ main = "gone" => poll' = poll
    BY DEF Post, Check, pollVars, TakenInv, Gone
  <1>2. \A u : Taken(u)' <=> Taken(u)
    BY <1>1 DEF Taken, histVars
  <1> QED BY <1>1, <1>2 DEF TakenInv, Gone, Passed, InOrder, OnceEach, hostVars, histVars

\* The head of the channel goes to a handler, and is nowhere else.
LEMMA DispatchTakes ==
  ASSUME TakenInv, Dispatch
  PROVE  Gone' /\ Passed' /\ InOrder' /\ OnceEach'
  <1>0. PICK h : h = chan[1]
    OBVIOUS
  <1>1. chan \in Seq(Updates) /\ chan # <<>>
    BY DEF TakenInv, ProcessType, Dispatch
  <1>2. /\ Head(chan) = h /\ h \in Updates /\ chan' = Tail(chan)
        /\ ToSet(chan) = ToSet(chan') \cup {h}
        /\ arrived' = arrived \cup {h}
        /\ UNCHANGED <<forgotten, poll, offset, batch, hostVars, histVars>>
    BY <1>0, <1>1, QueueFacts DEF Dispatch, pollVars
  <1>3. /\ Len(chan) \in Nat /\ Len(chan) > 0 /\ DOMAIN chan = 1..Len(chan)
        /\ Len(chan') = Len(chan) - 1 /\ DOMAIN chan' = 1..Len(chan')
        /\ \A i \in 1..Len(chan') : chan'[i] = chan[i + 1] /\ i + 1 \in 1..Len(chan)
    BY <1>1, <1>2
  <1>4. \A i, j \in 1..Len(chan) : chan[i] = chan[j] => i = j
    BY DEF TakenInv, OnceEach
  <1>5. h \notin ToSet(chan')
    <2> SUFFICES ASSUME NEW i \in 1..Len(chan'), chan'[i] = h
                 PROVE  FALSE
      BY <1>3 DEF ToSet
    <2>1. i + 1 \in 1..Len(chan) /\ 1 \in 1..Len(chan) /\ chan[i + 1] = chan[1]
      BY <1>0, <1>3
    <2>2. i + 1 = 1 BY <1>4, <2>1
    <2> QED BY <1>3, <2>2
  <1>6. \A i, j \in 1..Len(chan') : chan'[i] = chan'[j] => i = j
    <2> SUFFICES ASSUME NEW i \in 1..Len(chan'), NEW j \in 1..Len(chan'), chan'[i] = chan'[j]
                 PROVE  i = j
      OBVIOUS
    <2>1. i + 1 = j + 1 BY <1>3, <1>4
    <2> QED BY <1>3, <2>1
  <1>7. \A u : Taken(u)' <=> Taken(u)
    BY <1>2 DEF Taken, histVars
  <1>8. main # "gone"
    BY <1>1 DEF TakenInv, Gone
  <1>9. ToSet(chan') \cup arrived' = ToSet(chan) \cup arrived
    BY <1>2
  <1>10. OnceEach'
    BY <1>2, <1>5, <1>6, <1>9 DEF TakenInv, OnceEach, hostVars, histVars
  <1>11. Passed' /\ InOrder' /\ Gone'
    BY <1>2, <1>7, <1>8 DEF TakenInv, Passed, InOrder, Gone, hostVars
  <1> QED BY <1>10, <1>11

LEMMA CountTakes ==
  ASSUME TakenInv, NEW u \in Updates, Count(u)
  PROVE  Gone' /\ Passed' /\ InOrder' /\ OnceEach'
  <1>1. /\ u \in arrived /\ arrived' = arrived \ {u}
        /\ times \in [Updates -> Nat] /\ times' = [times EXCEPT ![u] = @ + 1]
        /\ UNCHANGED <<posted, forgotten, poll, offset, batch, chan, hostVars, dropped>>
        /\ restarts \in Nat
    BY DEF Count, TakenInv, ProcessType, TypeOK, pollVars
  <1>2. main # "gone"
    BY <1>1 DEF TakenInv, Gone
  <1>3. /\ u < offset /\ times[u] <= restarts /\ u \notin ToSet(chan)
        /\ times[u] \in Nat /\ times'[u] = times[u] + 1
        /\ \A o \in Updates \ {u} : times'[o] = times[o]
    BY <1>1, <1>2 DEF TakenInv, OnceEach
  <1>4. \A o \in Updates : Taken(o) => Taken(o)'
    <2>1. Taken(u)' BY <1>3 DEF Taken
    <2>2. ASSUME NEW o \in Updates \ {u}, Taken(o) PROVE Taken(o)'
      BY <1>1, <1>3, <2>2 DEF Taken
    <2> QED BY <2>1, <2>2
  <1>5. Passed' /\ InOrder' /\ Gone'
    BY <1>1, <1>2, <1>4 DEF TakenInv, Passed, InOrder, Gone, hostVars
  <1>6. \A o \in Updates : times'[o] <= 1 + restarts'
    BY <1>1, <1>3 DEF TakenInv, OnceEach, hostVars
  <1>7. \A o \in Updates : o >= offset' \/ o \in ToSet(chan') \cup arrived' => times'[o] <= restarts'
    <2> SUFFICES ASSUME NEW o \in Updates, o >= offset \/ o \in ToSet(chan) \cup (arrived \ {u})
                 PROVE  times'[o] <= restarts
      BY <1>1 DEF hostVars
    <2>1. o # u
      <3>1. o \in Int /\ u \in Int /\ offset \in Int
        BY MaxUpdateAssumption DEF Updates, TakenInv, ProcessType, TypeOK
      <3> QED BY <1>3, <3>1
    <2> QED BY <1>2, <1>3, <2>1 DEF TakenInv, OnceEach
  <1>8. OnceEach'
    BY <1>1, <1>6, <1>7 DEF TakenInv, OnceEach
  <1> QED BY <1>5, <1>8

\* A process that ends leaves what it had taken and not counted in dropped.
LEMMA EndsTakes ==
  ASSUME TakenInv, NEW roughly \in BOOLEAN, Ends(roughly)
  PROVE  Gone' /\ Passed' /\ InOrder' /\ OnceEach'
  <1>1. /\ main' = "gone" /\ poll' = "off" /\ offset' = 0
        /\ batch' = <<>> /\ chan' = <<>> /\ arrived' = {}
        /\ dropped' = dropped \cup ToSet(chan) \cup arrived
        /\ UNCHANGED <<forgotten, restarts, times>>
    BY DEF Ends
  <1>2. \A u : Taken(u) => Taken(u)'
    BY <1>1 DEF Taken
  <1>3. Passed'
    BY <1>1, <1>2 DEF TakenInv, Passed
  <1>4. ToSet(chan') = {} /\ Len(chan') = 0 /\ Len(batch') = 0
    BY <1>1, EmptyQueue
  <1> QED BY <1>1, <1>3, <1>4 DEF TakenInv, Gone, InOrder, OnceEach

LEMMA RestartTakes ==
  ASSUME TakenInv, Restart
  PROVE  Gone' /\ Passed' /\ InOrder' /\ OnceEach'
  <1>1. /\ main' = "up" /\ restarts' = restarts + 1
        /\ offset' = 0 /\ batch' = <<>> /\ chan' = <<>> /\ arrived' = {}
        /\ UNCHANGED <<forgotten, chan, arrived, times, dropped>>
    BY DEF Restart, TakenInv, Gone, histVars
  <1>2. \A u : Taken(u)' <=> Taken(u)
    BY <1>1 DEF Taken
  <1>3. \A u \in Updates : ~(u < offset')
    BY <1>1, MaxUpdateAssumption DEF Updates
  <1>4. Passed'
    BY <1>1, <1>2, <1>3 DEF TakenInv, Passed
  <1>5. ToSet(chan') = {} /\ Len(chan') = 0 /\ Len(batch') = 0
    BY <1>1, EmptyQueue
  <1>6. restarts \in Nat /\ \A u \in Updates : times[u] \in Nat /\ times[u] <= 1 + restarts
    BY DEF TakenInv, ProcessType, TypeOK, OnceEach
  <1>7. \A u \in Updates : times'[u] <= restarts' /\ times'[u] <= 1 + restarts'
    BY <1>1, <1>6
  <1>8. OnceEach'
    BY <1>1, <1>5, <1>7 DEF OnceEach
  <1> QED BY <1>1, <1>4, <1>5, <1>8 DEF Gone, InOrder

LEMMA StepTakes ==
  ASSUME TakenInv, [Next]_vars
  PROVE  TakenInv'
  <1> DEFINE Goal == Gone' /\ Passed' /\ InOrder' /\ OnceEach'
  <1>1. ProcessType'
    BY StepProcessType DEF TakenInv
  <1>2. ASSUME Moves PROVE Goal
    BY <1>2, OthersMoveTakes, FetchTakes, FetchFailsTakes, ForwardTakes, DispatchTakes DEF Moves
  <1>3. ASSUME NEW u \in Updates, Count(u) PROVE Goal
    BY <1>3, CountTakes
  <1>4. ASSUME Quiet \/ UNCHANGED vars PROVE Goal
    BY <1>4, QuietTakes
  <1>5. ASSUME Exit \/ Crash PROVE Goal
    BY <1>5, EndsTakes DEF Exit, Crash
  <1>6. ASSUME Restart PROVE Goal
    BY <1>6, RestartTakes
  <1>7. Goal
    BY <1>2, <1>3, <1>4, <1>5, <1>6, NextCases
  <1> QED BY <1>1, <1>7 DEF TakenInv

LEMMA InitTakes == Init => TakenInv
  <1> SUFFICES ASSUME Init PROVE TakenInv
    OBVIOUS
  <1>1. ProcessType
    BY InitProcessType
  <1>2. ToSet(chan) = {} /\ Len(chan) = 0 /\ Len(batch) = 0
    BY EmptyQueue DEF Init
  <1>3. \A u \in Updates : ~(u <= forgotten) /\ ~(u < offset)
    BY MaxUpdateAssumption DEF Init, Updates
  <1> QED BY <1>1, <1>2, <1>3 DEF Init, TakenInv, Gone, Passed, InOrder, OnceEach

(***************************************************************************)
(* Whatever is polled, lost in an answer, cut off by a shutdown, crashed   *)
(* and started over: an update Telegram was told to forget has been taken  *)
(* over, and no process counts an update twice.                            *)
(***************************************************************************)
THEOREM TakenOnceCorrect == Spec => []TakenOnce
  <1>1. TakenInv /\ [Next]_vars => TakenInv'
    BY StepTakes
  <1>2. TakenInv => TakenOnce
    <2> SUFFICES ASSUME TakenInv PROVE TakenOnce
      OBVIOUS
    <2>1. \A u \in 1..forgotten : u \in Updates /\ u <= forgotten
      BY MaxUpdateAssumption DEF TakenInv, ProcessType, TypeOK, Updates
    <2>2. ForgottenTaken
      BY <2>1 DEF ForgottenTaken, TakenInv, Passed, Taken
    <2>3. CountedOncePerProcess
      BY DEF CountedOncePerProcess, TakenInv, OnceEach
    <2> QED BY <2>2, <2>3 DEF TakenOnce
  <1> QED BY InitTakes, <1>1, <1>2, PTL DEF Spec

-----------------------------------------------------------------------------
(* Shutting down.                                                          *)

DownInv == ProcessType /\ ShutsDown

\* Only the ticker, Stop and their writes touch the maps while nobody counts.
LEMMA StepShutsDown ==
  ASSUME DownInv, [Next]_vars
  PROVE  DownInv'
  <1>1. ProcessType'
    BY StepProcessType DEF DownInv
  <1>2. /\ flushing \in [Flushers -> {"no", "commit", "restore"}] /\ open \in BOOLEAN
        /\ rough \in BOOLEAN /\ "stop" \in Flushers /\ "loop" \in Flushers
        /\ main \in {"up", "drain", "flush", "flushing", "close", "exit", "gone"}
    BY DEF DownInv, ProcessType, TypeOK, StatsTypeOK, Flushers
  <1>3. ASSUME Moves PROVE ShutsDown'
    <2>1. /\ UNCHANGED <<statsVars, hostVars, histVars>>
          /\ arrived' = arrived \/ (accepting /\ Dispatch)
      BY <1>3, MovesKeep DEF Moves, Post, Check, Fetch, FetchFails, Forward, Dispatch
    <2> QED BY <2>1 DEF DownInv, ShutsDown, statsVars, bufferVars, storeVars, hostVars, histVars
  <1>4. ASSUME NEW u \in Updates, Count(u) PROVE ShutsDown'
    <2>1. /\ u \in arrived /\ arrived' \subseteq arrived
          /\ UNCHANGED <<flushing, open, hostVars, rough>>
      BY <1>4 DEF Count, Increment, storeVars
    <2> QED BY <2>1 DEF DownInv, ShutsDown, hostVars
  <1>5. ASSUME NEW r \in Readers, Read(r) PROVE ShutsDown'
    <2>1. UNCHANGED <<bufferVars, storeVars, arrived, hostVars, histVars>>
      BY <1>5, ReadKeeps DEF Read
    <2> QED BY <2>1 DEF DownInv, ShutsDown, bufferVars, storeVars, hostVars, histVars
  <1>6. ASSUME Tick \/ LastFlush PROVE ShutsDown'
    <2>1. /\ UNCHANGED <<open, arrived, accepting, main, rough>>
          /\ \/ pending' = pending /\ flushing' = flushing
             \/ pending' = Zero /\ flushing' = [flushing EXCEPT !["loop"] = "commit"]
      <3>1. CASE Tick
        BY <3>1 DEF Tick, Swap, storeVars, hostVars, histVars
      <3>2. CASE LastFlush
        <4>1. UNCHANGED <<arrived, accepting, main, rough>>
          BY <3>2 DEF LastFlush, histVars
        <4>2. CASE Swap("loop") BY <4>1, <4>2 DEF Swap, storeVars
        <4>3. CASE UNCHANGED statsVars
          <5>1. pending' = pending /\ flushing' = flushing /\ open' = open
            BY <4>3 DEF statsVars, bufferVars, storeVars
          <5> QED BY <4>1, <5>1
        <4> QED BY <3>2, <4>2, <4>3 DEF LastFlush
      <3> QED BY <1>6, <3>1, <3>2
    <2> QED BY <1>2, <2>1 DEF DownInv, ShutsDown
  <1>7. ASSUME NEW f \in Flushers, Write(f) PROVE ShutsDown'
    <2>1. CASE Commit(f)
      <3>1. /\ flushing' = [flushing EXCEPT ![f] = "no"]
            /\ UNCHANGED <<pending, open, arrived, accepting, main, rough>>
        BY <1>7, <2>1 DEF Write, Commit, hostVars, histVars
      <3> QED BY <1>2, <3>1 DEF DownInv, ShutsDown
    <2>2. CASE Restore(f)
      <3>1. /\ flushing' = [flushing EXCEPT ![f] = "no"] /\ flushing[f] = "restore"
            /\ UNCHANGED <<open, arrived, accepting, main, rough>>
        BY <1>7, <2>2 DEF Write, Restore, storeVars, hostVars, histVars
      <3>2. rough \/ ~open
        BY <3>1 DEF DownInv, ShutsDown
      <3> QED BY <1>2, <3>1, <3>2 DEF DownInv, ShutsDown
    <2> QED BY <1>7, <2>1, <2>2 DEF Write
  <1>8. ASSUME NEW f \in Flushers, WriteFails(f) PROVE ShutsDown'
    <2>1. /\ flushing' = [flushing EXCEPT ![f] = "restore"] /\ flushing[f] = "commit"
          /\ rough' = (rough \/ open)
          /\ UNCHANGED <<pending, open, arrived, accepting, main>>
      BY <1>8 DEF WriteFails, CommitFails, storeVars, hostVars
    <2> QED BY <1>2, <2>1 DEF DownInv, ShutsDown
  <1>9. ASSUME Signal \/ Drained PROVE ShutsDown'
    <2>1. UNCHANGED <<pending, flushing, open, arrived>>
      BY <1>9 DEF Signal, Drained, statsVars, bufferVars, storeVars
    <2> QED BY <1>2, <1>9, <2>1 DEF Signal, Drained, DownInv, ShutsDown, histVars
  <1>10. ASSUME StopFlush PROVE ShutsDown'
    <2>1. /\ main = "flush" /\ UNCHANGED <<open, arrived, accepting, rough>>
          /\ \/ /\ main' = "close" /\ pending = Zero /\ UNCHANGED <<pending, flushing>>
             \/ /\ main' = "flushing" /\ pending' = Zero
                /\ flushing' = [flushing EXCEPT !["stop"] = "commit"]
      BY <1>10 DEF StopFlush, Swap, statsVars, bufferVars, storeVars, histVars
    <2> QED BY <1>2, <2>1 DEF DownInv, ShutsDown
  <1>11. ASSUME StopFlushed PROVE ShutsDown'
    <2>1. /\ main = "flushing" /\ main' = "close" /\ flushing["stop"] = "no"
          /\ UNCHANGED <<pending, flushing, open, arrived, accepting, rough>>
      BY <1>11 DEF StopFlushed, statsVars, bufferVars, storeVars, histVars
    <2> QED BY <2>1 DEF DownInv, ShutsDown
  <1>12. ASSUME CloseStore PROVE ShutsDown'
    <2>1. /\ main = "close" /\ main' = "exit" /\ open' = FALSE
          /\ UNCHANGED <<pending, flushing, arrived, accepting, rough>>
      BY <1>12 DEF CloseStore, StoreClosed, bufferVars, histVars
    <2> QED BY <2>1 DEF DownInv, ShutsDown
  <1>13. ASSUME Exit \/ Crash PROVE ShutsDown'
    <2>1. /\ main' = "gone" /\ open' = TRUE /\ accepting' = FALSE
          /\ flushing' = [f \in Flushers |-> "no"]
      BY <1>13 DEF Exit, Crash, Ends, LoseMemory
    <2> QED BY <1>2, <2>1 DEF ShutsDown
  <1>14. ASSUME Restart PROVE ShutsDown'
    <2>1. main = "gone" /\ main' = "up" /\ UNCHANGED <<pending, flushing, open, rough>>
      BY <1>14 DEF Restart, statsVars, bufferVars, storeVars, histVars
    <2> QED BY <2>1 DEF DownInv, ShutsDown
  <1>15. ASSUME UNCHANGED vars PROVE ShutsDown'
    BY <1>15 DEF vars, statsVars, bufferVars, storeVars, hostVars, histVars, DownInv, ShutsDown
  <1>16. ASSUME Quiet PROVE ShutsDown'
    BY <1>5, <1>6, <1>7, <1>8, <1>9, <1>10, <1>11, <1>12, <1>16 DEF Quiet
  <1>17. ShutsDown'
    BY <1>3, <1>4, <1>13, <1>14, <1>15, <1>16, NextCases
  <1> QED BY <1>1, <1>17 DEF DownInv

(***************************************************************************)
(* The order of Stop holds for any number of updates, handlers and         *)
(* flushes: an uneventful shutdown closes the database only after every    *)
(* handler has counted and Stop's own flush is written.                    *)
(***************************************************************************)
THEOREM DrainedBeforeCloseCorrect == Spec => []DrainedBeforeClose
  <1>1. Init => DownInv
    <2>1. Init => ShutsDown
      BY DEF Init, StatsInit, ShutsDown, Flushers
    <2> QED BY <2>1, InitProcessType DEF DownInv
  <1>2. DownInv /\ [Next]_vars => DownInv'
    BY StepShutsDown
  <1>3. DownInv => DrainedBeforeClose
    BY DEF DownInv, ShutsDown, DrainedBeforeClose
  <1> QED BY <1>1, <1>2, <1>3, PTL DEF Spec

-----------------------------------------------------------------------------
\* What is proved of the counters holds in the process that uses them, with its
\* update loop, its shutdown and its restarts (bot/app.go, stats/buffer.go).
THEOREM CountersInProcess == Spec => [](Conserved /\ DailyAgrees /\ ReadsSound)
  BY ProcessUsesCounters, ConservedCorrect, DailyAgreesCorrect, ReadsSoundCorrect, PTL
=============================================================================
