------------------------------ MODULE Cooldown ------------------------------
(***************************************************************************)
(* The gate before the commands anybody may call (bot/cooldown.go): one run*)
(* per window for each person and command, and one notice for whoever comes*)
(* back within it.  It remembers in memory, and every so often forgets what*)
(* is old.  A call decides under the lock, with the time read inside.      *)
(***************************************************************************)
EXTENDS Naturals

CONSTANTS
  Gates,       \* pairs of a command and a person
  Every,       \* every, of each gate
  SweepEvery,  \* cooldownSweepEvery
  EvictAfter,  \* cooldownEvictAfter
  LastTick     \* bound on time

\* "cooldownEvictAfter is far longer than any gate window".
ASSUME CooldownAssumption ==
  /\ {SweepEvery, EvictAfter} \subseteq Nat /\ LastTick \in Nat \ {0}
  /\ Every \in [Gates -> Nat \ {0}]
  /\ \A g \in Gates : Every[g] <= EvictAfter

VARIABLES
  tick,       \* the monotonic clock, from 1
  last,       \* the last run let through, 0 when it is not remembered
  notified,   \* the last notice, the same way
  lastSweep,
  ranAt,      \* history: the last run let through
  refused,    \* history: somebody has been turned away since
  warnings    \* history: notices since

cooldownVars == <<tick, last, notified, lastSweep, ranAt, refused, warnings>>

Ticks == 0..LastTick

CooldownTypeOK ==
  /\ tick \in Ticks \ {0} /\ lastSweep \in Ticks
  /\ last \in [Gates -> Ticks] /\ notified \in [Gates -> Ticks]
  /\ ranAt \in [Gates -> Ticks] /\ refused \in [Gates -> BOOLEAN]
  /\ warnings \in [Gates -> Nat]

NotYet == [g \in Gates |-> 0]

\* newCooldown: the first sweep is counted from the start.
CooldownInit ==
  /\ tick = 1 /\ lastSweep = 1
  /\ last = NotYet /\ notified = NotYet /\ ranAt = NotYet
  /\ refused = [g \in Gates |-> FALSE] /\ warnings = NotYet

----------------------------------------------------------------------------
Old(t) == tick - t > EvictAfter

\* What the two maps hold once stale entries are dropped; a run that is
\* forgotten takes its notice along.
SweepDue == tick - lastSweep >= SweepEvery
SweptLast == [g \in Gates |-> IF SweepDue /\ Old(last[g]) THEN 0 ELSE last[g]]
SweptNotified ==
  [g \in Gates |-> IF SweepDue /\ ((last[g] # 0 /\ Old(last[g])) \/ Old(notified[g]))
                   THEN 0 ELSE notified[g]]

Within(g, t) == t # 0 /\ tick - t < Every[g]

Allow(g) ==
  /\ ~Within(g, SweptLast[g])
  /\ last' = [SweptLast EXCEPT ![g] = tick]
  /\ notified' = [SweptNotified EXCEPT ![g] = 0]
  /\ ranAt' = [ranAt EXCEPT ![g] = tick]
  /\ refused' = [refused EXCEPT ![g] = FALSE] /\ warnings' = [warnings EXCEPT ![g] = 0]

Refuse(g) ==
  /\ Within(g, SweptLast[g])
  /\ last' = SweptLast
  /\ LET notify == ~Within(g, SweptNotified[g])
     IN /\ notified' = [SweptNotified EXCEPT ![g] = IF notify THEN tick ELSE @]
        /\ warnings' = [warnings EXCEPT ![g] = IF notify THEN @ + 1 ELSE @]
  /\ refused' = [refused EXCEPT ![g] = TRUE]
  /\ UNCHANGED ranAt

Gate(g) ==
  /\ Allow(g) \/ Refuse(g)
  /\ lastSweep' = IF SweepDue THEN tick ELSE lastSweep
  /\ UNCHANGED tick

TimePasses ==
  /\ tick < LastTick /\ tick' = tick + 1
  /\ UNCHANGED <<last, notified, lastSweep, ranAt, refused, warnings>>

CooldownRestart ==
  /\ lastSweep' = tick /\ UNCHANGED tick
  /\ last' = NotYet /\ notified' = NotYet /\ ranAt' = NotYet
  /\ refused' = [g \in Gates |-> FALSE] /\ warnings' = NotYet

CooldownNext == (\E g \in Gates : Gate(g)) \/ TimePasses \/ CooldownRestart

CooldownSpec == CooldownInit /\ [][CooldownNext]_cooldownVars

----------------------------------------------------------------------------
\* A run is remembered as long as it keeps the next one out, whatever is swept
\* in between; who comes back within its window hears of it once, however often
\* that is, and hears of it again after the next run.
CooldownKept ==
  \A g \in Gates :
    /\ Within(g, ranAt[g]) => last[g] = ranAt[g]
    /\ warnings[g] = IF refused[g] THEN 1 ELSE 0
=============================================================================
