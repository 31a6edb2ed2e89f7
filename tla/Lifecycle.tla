----------------------------- MODULE Lifecycle -----------------------------
(***************************************************************************)
(* The life of the process, src/internal/bot/app.go: the getUpdates loop,  *)
(* the goroutine per update, the message counters they feed (module        *)
(* StatsBuffer), the shutdown sequence of Stop and main, a crash, and the  *)
(* next start.                                                             *)
(*                                                                         *)
(* Every update is a message with content, so its handler adds it to the   *)
(* counters once.  Telegram keeps an update until a getUpdates call with a *)
(* larger offset, and returns it again to a process that starts over.      *)
(***************************************************************************)
EXTENDS StatsBuffer, SequencesExt

CONSTANTS
  MaxUpdate,    \* bound: updates people cause
  MaxRestarts,  \* bound: starts after the first one
  ChanCap,      \* longPollingUpdateChanBuffer
  KeyOf,        \* update -> the counter it adds to
  DayOf         \* update -> its day

Updates == 1..MaxUpdate

ASSUME MaxUpdateAssumption == MaxUpdate \in Nat
ASSUME MaxRestartsAssumption == MaxRestarts \in Nat
ASSUME ChanCapAssumption == ChanCap \in Nat \ {0}
ASSUME KeyOfAssumption == KeyOf \in [Updates -> Keys] /\ DayOf \in [Updates -> Days]

VARIABLES
  posted,     \* Telegram: updates 1..posted exist
  forgotten,  \* Telegram: updates 1..forgotten are acknowledged
  poll,       \* where the poll loop is
  offset,     \* params.Offset
  batch,      \* fetched updates it has not forwarded
  chan,       \* the update channel
  arrived,    \* updates with a goroutine that has not counted them yet
  accepting,  \* the update handler takes updates from the channel
  canceled,   \* main's context is done
  main,       \* where main and App.Stop are
  ticking,    \* the loop of Buffer.Run has not made its last flush
  restarts,   \* starts after the first one
  times,      \* history: how often an update was counted
  dropped,    \* history: updates a process ended with before counting them
  rough       \* history: a crash, a timeout or a failed write has happened

pollVars == <<poll, offset, batch>>
hostVars == <<accepting, canceled, main, ticking, restarts>>
histVars == <<times, dropped, rough>>
vars == <<statsVars, posted, forgotten, pollVars, chan, arrived,
          hostVars, histVars>>

TypeOK ==
  /\ StatsTypeOK
  /\ posted \in 0..MaxUpdate
  /\ forgotten \in 0..MaxUpdate
  /\ poll \in {"off", "check", "fetch", "forward"}
  /\ offset \in 0..(MaxUpdate + 1)
  /\ ToSet(batch) \subseteq Updates
  /\ ToSet(chan) \subseteq Updates /\ Len(chan) <= ChanCap
  /\ arrived \subseteq Updates
  /\ accepting \in BOOLEAN
  /\ canceled \in BOOLEAN
  /\ main \in {"up", "drain", "flush", "flushing", "close", "exit", "gone"}
  /\ ticking \in BOOLEAN
  /\ restarts \in 0..MaxRestarts
  /\ times \in [Updates -> Nat]
  /\ dropped \subseteq Updates
  /\ rough \in BOOLEAN

Init ==
  /\ StatsInit
  /\ posted = 0
  /\ forgotten = 0
  /\ poll = "check"
  /\ offset = 0
  /\ batch = <<>>
  /\ chan = <<>>
  /\ arrived = {}
  /\ accepting = TRUE
  /\ canceled = FALSE
  /\ main = "up"
  /\ ticking = TRUE
  /\ restarts = 0
  /\ times = [u \in Updates |-> 0]
  /\ dropped = {}
  /\ rough = FALSE

-----------------------------------------------------------------------------
(* Telegram and pollUpdates.                                               *)

Post ==
  /\ posted < MaxUpdate
  /\ posted' = posted + 1
  /\ UNCHANGED <<statsVars, forgotten, pollVars, chan, arrived,
                 hostVars, histVars>>

\* The loop over a batch goes on, or back to the head of the poll loop.
NextOf(rest) == IF rest = <<>> THEN "check" ELSE "forward"

\* The head of the loop.
Check ==
  /\ poll = "check"
  /\ poll' = IF canceled THEN "off" ELSE "fetch"
  /\ UNCHANGED <<statsVars, posted, forgotten, offset, batch, chan, arrived, hostVars, histVars>>

\* getUpdates answers with updates from the offset on, some or none.
Fetch ==
  /\ poll = "fetch"
  /\ forgotten' = Max({forgotten, offset - 1})
  /\ \E last \in forgotten'..posted :
       batch' = [i \in 1..(last - forgotten') |-> forgotten' + i]
  /\ poll' = NextOf(batch')
  /\ UNCHANGED <<statsVars, posted, offset, chan, arrived, hostVars,
                 histVars>>

\* getUpdates fails, also after Telegram has read the offset; the loop waits
\* and goes around, unless its context is done.
FetchFails ==
  /\ poll = "fetch"
  /\ forgotten' \in {forgotten, Max({forgotten, offset - 1})}
  /\ poll' = IF canceled THEN "off" ELSE "check"
  /\ UNCHANGED <<statsVars, posted, offset, batch, chan, arrived,
                 hostVars, histVars>>

\* Mutation: the offset is set to the update instead of past it.
ForwardOffByOne ==
  /\ poll = "forward"
  /\ batch # <<>>
  /\ batch' = Tail(batch)
  /\ offset' = Head(batch)
  /\ Len(chan) < ChanCap
  /\ chan' = Append(chan, Head(batch))
  /\ poll' = NextOf(batch')
  /\ UNCHANGED <<statsVars, posted, forgotten, arrived, hostVars, histVars>>

\* Mutation: the offset skips one update.
ForwardSkipsOne ==
  /\ poll = "forward"
  /\ batch # <<>>
  /\ batch' = Tail(batch)
  /\ offset' = Head(batch) + 2
  /\ Len(chan) < ChanCap
  /\ chan' = Append(chan, Head(batch))
  /\ poll' = NextOf(batch')
  /\ UNCHANGED <<statsVars, posted, forgotten, arrived, hostVars, histVars>>

\* The next update of the batch: past the offset and into the channel, or
\* the loop ends because the context is done.
Forward ==
  /\ poll = "forward"
  /\ batch # <<>>
  /\ IF Head(batch) < offset
     THEN /\ batch' = Tail(batch)
          /\ poll' = NextOf(batch')
          /\ UNCHANGED <<offset, chan>>
     ELSE /\ offset' = Head(batch) + 1
          /\ \/ /\ Len(chan) < ChanCap
                /\ chan' = Append(chan, Head(batch))
                /\ batch' = Tail(batch)
                /\ poll' = NextOf(batch')
             \/ /\ canceled
                /\ poll' = "off"
                /\ batch' = <<>>
                /\ UNCHANGED chan
  /\ UNCHANGED <<statsVars, posted, forgotten, arrived, hostVars, histVars>>

-----------------------------------------------------------------------------
(* Handlers.                                                               *)

\* The update handler starts a goroutine for the next update.
Dispatch ==
  /\ accepting
  /\ chan # <<>>
  /\ chan' = Tail(chan)
  /\ arrived' = arrived \cup {Head(chan)}
  /\ UNCHANGED <<statsVars, posted, forgotten, pollVars, hostVars, histVars>>

\* statsCountHandler.
Count(u) ==
  /\ u \in arrived
  /\ Increment(KeyOf[u], DayOf[u])
  /\ arrived' = arrived \ {u}
  /\ times' = [times EXCEPT ![u] = @ + 1]
  /\ UNCHANGED <<posted, forgotten, pollVars, chan, hostVars, dropped, rough>>

\* A handler or the /stats command reads the counters.
Read(r) ==
  /\ main # "gone"
  /\ ReadStep(r)
  /\ UNCHANGED <<posted, forgotten, pollVars, chan, arrived, hostVars,
                 histVars>>

-----------------------------------------------------------------------------
(* The flushes: the ticker of Buffer.Run, its last flush, and Stop's.      *)

Tick ==
  /\ ticking
  /\ main # "gone"
  /\ Swap("loop")
  /\ UNCHANGED <<posted, forgotten, pollVars, chan, arrived, hostVars,
                 histVars>>

\* Run sees its context done and flushes for the last time.
LastFlush ==
  /\ ticking
  /\ canceled
  /\ flushing["loop"] = "no"
  /\ ticking' = FALSE
  /\ \/ Swap("loop")
     \/ pending = Zero /\ UNCHANGED statsVars
  /\ UNCHANGED <<posted, forgotten, pollVars, chan, arrived, accepting,
                 canceled, main, restarts, histVars>>

Write(f) ==
  /\ Commit(f) \/ Restore(f)
  /\ UNCHANGED <<posted, forgotten, pollVars, chan, arrived, hostVars,
                 histVars>>

\* A closed database is no incident of its own.
WriteFails(f) ==
  /\ CommitFails(f)
  /\ rough' = (rough \/ open)
  /\ UNCHANGED <<posted, forgotten, pollVars, chan, arrived, hostVars,
                 times, dropped>>

-----------------------------------------------------------------------------
(* Shutdown, crash and restart.                                            *)

\* SIGTERM or SIGINT: main calls Stop, which stops the update handler.
Signal ==
  /\ main = "up"
  /\ canceled' = TRUE
  /\ accepting' = FALSE
  /\ main' = "drain"
  /\ UNCHANGED <<statsVars, posted, forgotten, pollVars, chan, arrived,
                 ticking, restarts, histVars>>

\* Mutation: Stop does not wait for the handlers.
DrainedAtOnce ==
  /\ main = "drain"
  /\ main' = "flush"
  /\ UNCHANGED <<statsVars, posted, forgotten, pollVars, chan, arrived,
                 accepting, canceled, ticking, restarts, histVars>>

\* Stop has waited for the handlers, or for ShutdownTimeout.
Drained ==
  /\ main = "drain"
  /\ main' = "flush"
  /\ rough' = (rough \/ arrived # {})
  /\ UNCHANGED <<statsVars, posted, forgotten, pollVars, chan, arrived,
                 accepting, canceled, ticking, restarts, times, dropped>>

\* statsBuffer.Flush begins, and finds something or not.
StopFlush ==
  /\ main = "flush"
  /\ \/ Swap("stop") /\ main' = "flushing"
     \/ pending = Zero /\ main' = "close" /\ UNCHANGED statsVars
  /\ UNCHANGED <<posted, forgotten, pollVars, chan, arrived, accepting,
                 canceled, ticking, restarts, histVars>>

StopFlushed ==
  /\ main = "flushing"
  /\ flushing["stop"] = "no"
  /\ main' = "close"
  /\ UNCHANGED <<statsVars, posted, forgotten, pollVars, chan, arrived,
                 accepting, canceled, ticking, restarts, histVars>>

CloseStore ==
  /\ main = "close"
  /\ main' = "exit"
  /\ StoreClosed
  /\ UNCHANGED <<posted, forgotten, pollVars, chan, arrived, accepting,
                 canceled, ticking, restarts, histVars>>

\* main returns, or the process is killed.
Ends(roughly) ==
  /\ main' = "gone"
  /\ LoseMemory
  /\ poll' = "off"
  /\ offset' = 0
  /\ batch' = <<>>
  /\ chan' = <<>>
  /\ arrived' = {}
  /\ accepting' = FALSE
  /\ canceled' = FALSE
  /\ ticking' = FALSE
  /\ dropped' = dropped \cup ToSet(chan) \cup arrived
  /\ rough' = (rough \/ roughly)
  /\ UNCHANGED <<posted, forgotten, restarts, times>>

Exit == main = "exit" /\ Ends(FALSE)

Crash == main # "gone" /\ Ends(TRUE)

Restart ==
  /\ main = "gone"
  /\ restarts < MaxRestarts
  /\ restarts' = restarts + 1
  /\ main' = "up"
  /\ poll' = "check"
  /\ accepting' = TRUE
  /\ ticking' = TRUE
  /\ UNCHANGED <<statsVars, posted, forgotten, offset, batch, chan, arrived, canceled, histVars>>

Next ==
  \/ Post \/ Check \/ Fetch \/ FetchFails \/ Forward
  \/ Dispatch
  \/ \E u \in Updates : Count(u)
  \/ \E r \in Readers : Read(r)
  \/ Tick \/ LastFlush
  \/ \E f \in Flushers : Write(f) \/ WriteFails(f)
  \/ Signal \/ Drained \/ StopFlush \/ StopFlushed \/ CloseStore
  \/ Exit \/ Crash \/ Restart

Spec == Init /\ [][Next]_vars

-----------------------------------------------------------------------------
(* What the process promises.                                              *)

\* The offset never runs ahead of the work: an update Telegram was told to
\* forget is in the channel, with a handler or counted, or the process that
\* took it over has ended (app.go:580-622).
ForgottenTaken ==
  \A u \in 1..forgotten :
    u \in ToSet(chan) \cup arrived \cup dropped \/ times[u] > 0

\* One process counts an update at most once; a second time takes a restart.
CountedOncePerProcess == \A u \in Updates : times[u] <= 1 + restarts

\* A process takes every update it acknowledges, and none of them twice.
TakenOnce == ForgottenTaken /\ CountedOncePerProcess

\* A shutdown without an incident closes the database only after every
\* handler has counted its update and Stop's own flush is written; memory
\* holds at most what the loop of Run took away (app.go:498-530).
DrainedBeforeClose ==
  main \in {"close", "exit"} /\ ~rough =>
    /\ arrived = {}
    /\ flushing["stop"] = "no"
    /\ open => pending = Zero

\* "Flushing must happen after they have settled", "stats flushed"
\* (app.go:496-497, 529): a shutdown in which nothing went wrong leaves
\* nothing in memory.
CleanShutdownKeepsAll ==
  main = "exit" /\ ~rough => \A k \in Keys : Uncommitted[k] = 0

\* "Each live message is Add-ed exactly once, so no dedup is needed here"
\* (monthstats/buffer.go:27-28), at least when no process crashed.
AddedOnce == ~rough => \A u \in Updates : times[u] <= 1
=============================================================================
