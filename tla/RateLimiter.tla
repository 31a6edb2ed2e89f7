---------------------------- MODULE RateLimiter ----------------------------
(***************************************************************************)
(* The per-chat outgoing rate limiter, src/internal/shared/ratelimit.      *)
(*                                                                         *)
(* Callers enter Wait, which queues a request in the bucket of its chat;   *)
(* one goroutine per bucket (run) hands out one slot per Rate and leaves   *)
(* after IdleTimeout without work; a reaper forgets idle buckets and Close *)
(* ends everything.  Every action below is one critical section or one     *)
(* select of the code, so the interleavings are those of the goroutines.   *)
(*                                                                         *)
(* Time is counted in ticks.  The instants nextAllowedAt, lastSeenAt and   *)
(* the idle timer are kept as distances from now (hold, quiet, idleFor),   *)
(* which keeps the state space finite without a bound on time.             *)
(*                                                                         *)
(* Requests and Buckets are pools of objects: an object nobody refers to   *)
(* may be allocated again, as the garbage collector would.                 *)
(***************************************************************************)
EXTENDS Naturals, Sequences

CONSTANTS
  Chats,        \* chat ids
  Requests,     \* pool of request objects, one per call of Wait
  Buckets,      \* pool of chatBucket objects
  NoRequest,    \* a worker holds no request
  NoBucket,     \* the map has no bucket for the chat
  QueueCap,     \* capacity of one bucket's queue
  Rate,         \* ticks between two slots of one bucket
  IdleTimeout   \* ticks without work after which a worker leaves

ASSUME QueueCapAssumption == QueueCap \in Nat \ {0}
ASSUME RateAssumption == Rate \in Nat \ {0}
ASSUME IdleTimeoutAssumption == IdleTimeout \in Nat \ {0}
ASSUME NoRequestAssumption == NoRequest \notin Requests
ASSUME NoBucketAssumption == NoBucket \notin Buckets

VARIABLES
  closed,     \* Limiter.closed; stopCh is closed in the same section
  bucketOf,   \* Limiter.buckets: chat -> bucket or NoBucket
  reaping,    \* the reaper goroutine is alive
  chatOf,     \* chatBucket.chatID
  queue,      \* chatBucket.queue
  signal,     \* chatBucket.signal holds a token
  worker,     \* where the bucket's run goroutine is; "none" = !workerRunning
  hand,       \* the request run has popped
  leaving,    \* buckets whose worker cleared workerRunning but has not yet
              \* called deleteBucket
  hold,       \* ticks until nextAllowedAt
  quiet,      \* ticks since lastSeenAt
  idleFor,    \* ticks since the worker reset its idle timer; 0 outside the
              \* select, where nothing reads the timer
  waiting,    \* requests whose caller is in the select of Wait
  ready,      \* request.ready, a channel with one buffer slot
  canceled,   \* requests whose canceled flag is set
  sinceGrant  \* history: ticks since the last slot granted for the chat

bucketVars == <<chatOf, queue, signal, worker, hand, leaving>>
timeVars   == <<hold, quiet, idleFor, sinceGrant>>
callVars   == <<waiting, ready, canceled>>
limVars    == <<closed, bucketOf, reaping>>
vars == <<limVars, bucketVars, timeVars, callVars>>

WorkerStates == {"none", "pop", "idle", "slot", "grant"}
Outcomes     == {"ok", "full", "closed"}

TypeOK ==
  /\ closed \in BOOLEAN
  /\ bucketOf \in [Chats -> Buckets \cup {NoBucket}]
  /\ reaping \in BOOLEAN
  /\ chatOf \in [Buckets -> Chats]
  /\ queue \in [Buckets -> Seq(Requests)]
  /\ \A b \in Buckets : Len(queue[b]) <= QueueCap
  /\ signal \in [Buckets -> BOOLEAN]
  /\ worker \in [Buckets -> WorkerStates]
  /\ hand \in [Buckets -> Requests \cup {NoRequest}]
  /\ leaving \in SUBSET Buckets
  /\ hold \in [Buckets -> 0..Rate]
  /\ quiet \in [Buckets -> 0..(IdleTimeout + 1)]
  /\ idleFor \in [Buckets -> 0..IdleTimeout]
  /\ waiting \in SUBSET Requests
  /\ ready \in [Requests -> Outcomes \cup {"empty"}]
  /\ canceled \in SUBSET Requests
  /\ sinceGrant \in [Chats -> 0..Rate]

Init ==
  /\ closed = FALSE
  /\ bucketOf = [c \in Chats |-> NoBucket]
  /\ reaping = TRUE
  /\ chatOf \in [Buckets -> Chats]
  /\ queue = [b \in Buckets |-> <<>>]
  /\ signal = [b \in Buckets |-> FALSE]
  /\ worker = [b \in Buckets |-> "none"]
  /\ hand = [b \in Buckets |-> NoRequest]
  /\ leaving = {}
  /\ hold = [b \in Buckets |-> 0]
  /\ quiet = [b \in Buckets |-> 0]
  /\ idleFor = [b \in Buckets |-> 0]
  /\ waiting = {}
  /\ ready = [r \in Requests |-> "empty"]
  /\ canceled = {}
  /\ sinceGrant = [c \in Chats |-> Rate]

-----------------------------------------------------------------------------
(* Shared pieces of the actions.                                           *)

Queued(b) == {queue[b][i] : i \in 1..Len(queue[b])}

\* The limiter or its workers still refer to the request.
Referenced(r) == \E b \in Buckets : r \in Queued(b) \/ hand[b] = r

\* A bucket object nothing refers to.
Unused(b) ==
  /\ \A c \in Chats : bucketOf[c] # b
  /\ worker[b] = "none"
  /\ b \notin leaving

\* request.deliver: a non-blocking send into the one-slot channel.
Deliver(rs, outcome) ==
  [r \in Requests |->
     IF r \in rs /\ ready[r] = "empty" THEN outcome ELSE ready[r]]

\* The waiters enqueueLocked evicts, oldest first, to make room for one
\* more, and those that stay.
Evicted(q) ==
  IF Len(q) < QueueCap THEN {} ELSE {q[i] : i \in 1..(Len(q) - QueueCap + 1)}
\* Mutation: one waiter too many stays in the queue.
KeptOneTooMany(q) ==
  IF Len(q) <= QueueCap THEN q ELSE SubSeq(q, Len(q) - QueueCap + 1, Len(q))
Kept(q) ==
  IF Len(q) < QueueCap THEN q ELSE SubSeq(q, Len(q) - QueueCap + 2, Len(q))

-----------------------------------------------------------------------------
(* The caller: Limiter.Wait.  On a closed limiter it returns               *)
(* ErrLimiterClosed and changes nothing, which is a stuttering step.       *)

\* enqueueLocked and ensureWorkerLocked on bucket b, under Limiter.mu.
Enqueue(r, b, reset) ==
  /\ queue' = [queue EXCEPT ![b] = Append(Kept(queue[b]), r)]
  /\ signal' = [signal EXCEPT ![b] = TRUE]
  /\ worker' = [worker EXCEPT ![b] = IF @ = "none" THEN "pop" ELSE @]
  /\ quiet' = [quiet EXCEPT ![b] = 0]
  /\ hold' = IF reset THEN [hold EXCEPT ![b] = 0] ELSE hold
  /\ ready' = [Deliver(Evicted(queue[b]), "full") EXCEPT ![r] = "empty"]
  /\ waiting' = waiting \cup {r}
  /\ canceled' = canceled \ {r}
  /\ UNCHANGED <<closed, reaping, hand, leaving, idleFor, sinceGrant>>

\* The first half of Wait, up to l.mu.Unlock, for a chat the map knows.
WaitKnown(r, c) ==
  /\ r \notin waiting /\ ~Referenced(r)
  /\ ~closed
  /\ bucketOf[c] # NoBucket
  /\ Enqueue(r, bucketOf[c], FALSE)
  /\ UNCHANGED <<bucketOf, chatOf>>

\* The same when getOrCreateLocked has to make the bucket.
WaitNew(r, c) ==
  /\ r \notin waiting /\ ~Referenced(r)
  /\ ~closed
  /\ bucketOf[c] = NoBucket
  /\ \E b \in Buckets :
       /\ Unused(b)
       /\ bucketOf' = [bucketOf EXCEPT ![c] = b]
       /\ chatOf' = [chatOf EXCEPT ![b] = c]
       /\ Enqueue(r, b, TRUE)

\* The second half of Wait: the select takes the outcome, ready[r], ...
Return(r) ==
  /\ r \in waiting
  /\ ready[r] # "empty"
  /\ waiting' = waiting \ {r}
  /\ ready' = [ready EXCEPT ![r] = "empty"]
  /\ UNCHANGED <<limVars, bucketVars, timeVars, canceled>>

\* ... or the caller's context ends, at any moment.
CtxDone(r) ==
  /\ r \in waiting
  /\ waiting' = waiting \ {r}
  /\ canceled' = canceled \cup {r}
  /\ UNCHANGED <<limVars, bucketVars, timeVars, ready>>

-----------------------------------------------------------------------------
(* The per-chat goroutine: chatBucket.run.                                 *)

\* Mutation: popNext reads the head and leaves it in the queue.
PopPeeks(b) ==
  /\ worker[b] = "pop"
  /\ queue[b] # <<>>
  /\ hand' = [hand EXCEPT ![b] = Head(queue[b])]
  /\ worker' = [worker EXCEPT ![b] = IF hold[b] > 0 THEN "slot" ELSE "grant"]
  /\ UNCHANGED <<limVars, chatOf, queue, signal, leaving, timeVars, callVars>>

\* Mutation: the last tick of the pause is not waited for.
PopTooEarly(b) ==
  /\ worker[b] = "pop"
  /\ queue[b] # <<>>
  /\ queue' = [queue EXCEPT ![b] = Tail(@)]
  /\ hand' = [hand EXCEPT ![b] = Head(queue[b])]
  /\ worker' = [worker EXCEPT ![b] = IF hold[b] > 1 THEN "slot" ELSE "grant"]
  /\ UNCHANGED <<limVars, chatOf, signal, leaving, timeVars, callVars>>

\* popNext found a request.  A canceled one is skipped; otherwise the
\* worker either has to wait for its slot or goes straight to granting.
Pop(b) ==
  /\ worker[b] = "pop"
  /\ queue[b] # <<>>
  /\ queue' = [queue EXCEPT ![b] = Tail(@)]
  /\ IF Head(queue[b]) \in canceled
     THEN UNCHANGED <<hand, worker>>
     ELSE /\ hand' = [hand EXCEPT ![b] = Head(queue[b])]
          /\ worker' = [worker EXCEPT ![b] =
                          IF hold[b] > 0 THEN "slot" ELSE "grant"]
  /\ UNCHANGED <<limVars, chatOf, signal, leaving, timeVars, callVars>>

\* popNext found nothing: reset the idle timer and enter the select.
PopEmpty(b) ==
  /\ worker[b] = "pop"
  /\ queue[b] = <<>>
  /\ worker' = [worker EXCEPT ![b] = "idle"]
  /\ idleFor' = [idleFor EXCEPT ![b] = 0]
  /\ UNCHANGED <<limVars, chatOf, queue, signal, hand, leaving,
                 hold, quiet, sinceGrant, callVars>>

WakeUp(b) ==
  /\ worker[b] = "idle"
  /\ signal[b]
  /\ signal' = [signal EXCEPT ![b] = FALSE]
  /\ worker' = [worker EXCEPT ![b] = "pop"]
  /\ idleFor' = [idleFor EXCEPT ![b] = 0]
  /\ UNCHANGED <<limVars, chatOf, queue, hand, leaving,
                 hold, quiet, sinceGrant, callVars>>

\* Mutation: tryExitIfEmpty trusts the timer and does not look at the queue.
IdleExpireBlind(b) ==
  /\ worker[b] = "idle"
  /\ idleFor[b] = IdleTimeout
  /\ worker' = [worker EXCEPT ![b] = "none"]
  /\ leaving' = leaving \cup {b}
  /\ idleFor' = [idleFor EXCEPT ![b] = 0]
  /\ UNCHANGED <<limVars, chatOf, queue, signal, hand,
                 hold, quiet, sinceGrant, callVars>>

\* Mutation: the idle timer is not reset, so a stale firing ends the worker.
IdleExpireStale(b) ==
  /\ worker[b] = "idle"
  /\ IF queue[b] # <<>>
     THEN worker' = [worker EXCEPT ![b] = "pop"] /\ UNCHANGED leaving
     ELSE /\ worker' = [worker EXCEPT ![b] = "none"]
          /\ leaving' = leaving \cup {b}
  /\ idleFor' = [idleFor EXCEPT ![b] = 0]
  /\ UNCHANGED <<limVars, chatOf, queue, signal, hand,
                 hold, quiet, sinceGrant, callVars>>

\* The idle timer fired: tryExitIfEmpty re-checks the queue under b.mu.
IdleExpire(b) ==
  /\ worker[b] = "idle"
  /\ idleFor[b] = IdleTimeout
  /\ IF queue[b] # <<>>
     THEN worker' = [worker EXCEPT ![b] = "pop"] /\ UNCHANGED leaving
     ELSE /\ worker' = [worker EXCEPT ![b] = "none"]
          /\ leaving' = leaving \cup {b}
  /\ idleFor' = [idleFor EXCEPT ![b] = 0]
  /\ UNCHANGED <<limVars, chatOf, queue, signal, hand,
                 hold, quiet, sinceGrant, callVars>>

\* deleteBucket, after tryExitIfEmpty released b.mu.
DeleteBucket(b) ==
  /\ b \in leaving
  /\ leaving' = leaving \ {b}
  /\ bucketOf' = [c \in Chats |->
        IF c = chatOf[b] /\ bucketOf[c] = b THEN NoBucket ELSE bucketOf[c]]
  /\ UNCHANGED <<closed, reaping, chatOf, queue, signal, worker, hand,
                 timeVars, callVars>>

\* Mutation: markStopped drops the queue without answering it.
StoppedSilently(b) ==
  /\ worker' = [worker EXCEPT ![b] = "none"]
  /\ hand' = [hand EXCEPT ![b] = NoRequest]
  /\ queue' = [queue EXCEPT ![b] = <<>>]
  /\ ready' = Deliver({hand[b]}, "closed")
  /\ idleFor' = [idleFor EXCEPT ![b] = 0]
  /\ UNCHANGED <<limVars, chatOf, signal, leaving, hold, quiet, sinceGrant,
                 waiting, canceled>>

\* markStopped, and the delivery to the request in hand before it.
Stopped(b) ==
  /\ worker' = [worker EXCEPT ![b] = "none"]
  /\ hand' = [hand EXCEPT ![b] = NoRequest]
  /\ queue' = [queue EXCEPT ![b] = <<>>]
  /\ ready' = Deliver(Queued(b) \cup {hand[b]}, "closed")
  /\ idleFor' = [idleFor EXCEPT ![b] = 0]
  /\ UNCHANGED <<limVars, chatOf, signal, leaving, hold, quiet, sinceGrant,
                 waiting, canceled>>

IdleStop(b) == worker[b] = "idle" /\ closed /\ Stopped(b)
SlotStop(b) == worker[b] = "slot" /\ closed /\ Stopped(b)

\* time.After(wait) fired: the request may have been canceled meanwhile.
SlotElapsed(b) ==
  /\ worker[b] = "slot"
  /\ hold[b] = 0
  /\ IF hand[b] \in canceled
     THEN /\ worker' = [worker EXCEPT ![b] = "pop"]
          /\ hand' = [hand EXCEPT ![b] = NoRequest]
     ELSE worker' = [worker EXCEPT ![b] = "grant"] /\ UNCHANGED hand
  /\ UNCHANGED <<limVars, chatOf, queue, signal, leaving, timeVars, callVars>>

\* Account for the slot and deliver nil.
Grant(b) ==
  /\ worker[b] = "grant"
  /\ hold' = [hold EXCEPT ![b] = Rate]
  /\ quiet' = [quiet EXCEPT ![b] = 0]
  /\ sinceGrant' = [sinceGrant EXCEPT ![chatOf[b]] = 0]
  /\ ready' = Deliver({hand[b]}, "ok")
  /\ hand' = [hand EXCEPT ![b] = NoRequest]
  /\ worker' = [worker EXCEPT ![b] = "pop"]
  /\ UNCHANGED <<limVars, chatOf, queue, signal, leaving, idleFor,
                 waiting, canceled>>

-----------------------------------------------------------------------------
(* The reaper, Close, and time.                                            *)

Reapable(c) ==
  LET b == bucketOf[c] IN
  /\ b # NoBucket
  /\ queue[b] = <<>>
  /\ worker[b] = "none"
  /\ quiet[b] > IdleTimeout

SweepIdle ==
  /\ reaping
  /\ \E c \in Chats : Reapable(c)
  /\ bucketOf' = [c \in Chats |-> IF Reapable(c) THEN NoBucket ELSE bucketOf[c]]
  /\ UNCHANGED <<closed, reaping, bucketVars, timeVars, callVars>>

\* Mutation: the reaper does not select on stopCh.
ReaperDeaf ==
  /\ reaping
  /\ UNCHANGED vars

ReaperStop ==
  /\ reaping
  /\ closed
  /\ reaping' = FALSE
  /\ UNCHANGED <<closed, bucketOf, bucketVars, timeVars, callVars>>

\* The locked part of Close; shutdown runs for every bucket in the map.
Close ==
  /\ ~closed
  /\ closed' = TRUE
  /\ LET mapped == {bucketOf[c] : c \in Chats} \ {NoBucket} IN
       /\ ready' = Deliver(UNION {Queued(b) : b \in mapped}, "closed")
       /\ queue' = [b \in Buckets |-> IF b \in mapped THEN <<>> ELSE queue[b]]
  /\ UNCHANGED <<bucketOf, reaping, chatOf, signal, worker, hand, leaving,
                 timeVars, waiting, canceled>>

\* Time passes for everything something still reads.
Tick ==
  /\ hold' = [b \in Buckets |-> IF hold[b] > 0 THEN hold[b] - 1 ELSE 0]
  /\ quiet' = [b \in Buckets |->
                 IF quiet[b] <= IdleTimeout /\ ~Unused(b) THEN quiet[b] + 1
                 ELSE quiet[b]]
  /\ idleFor' = [b \in Buckets |->
                   IF worker[b] = "idle" /\ idleFor[b] < IdleTimeout
                   THEN idleFor[b] + 1 ELSE idleFor[b]]
  /\ sinceGrant' = [c \in Chats |->
                      IF sinceGrant[c] < Rate THEN sinceGrant[c] + 1
                                              ELSE sinceGrant[c]]
  /\ UNCHANGED <<limVars, bucketVars, callVars>>

-----------------------------------------------------------------------------
\* One step of the bucket's goroutine; deleteBucket runs in a goroutine that
\* already gave up workerRunning.
WorkerStep(b) ==
  \/ Pop(b) \/ PopEmpty(b) \/ WakeUp(b) \/ IdleExpire(b)
  \/ IdleStop(b) \/ SlotStop(b) \/ SlotElapsed(b) \/ Grant(b)

Next ==
  \/ \E r \in Requests, c \in Chats : WaitKnown(r, c) \/ WaitNew(r, c)
  \/ \E r \in Requests : Return(r) \/ CtxDone(r)
  \/ \E b \in Buckets : WorkerStep(b) \/ DeleteBucket(b)
  \/ SweepIdle \/ ReaperStop \/ Close \/ Tick

\* Goroutines that can run do run, and time passes.  Nothing forces callers
\* to call, contexts to end or Close to be called.
Fairness ==
  /\ \A b \in Buckets : WF_vars(WorkerStep(b)) /\ WF_vars(DeleteBucket(b))
  /\ \A r \in Requests : WF_vars(Return(r))
  /\ WF_vars(ReaperStop)
  /\ WF_vars(Tick)

Spec == Init /\ [][Next]_vars
FairSpec == Spec /\ Fairness

-----------------------------------------------------------------------------
(* What the limiter promises.                                              *)

\* The step in which bucket b hands out a slot.
Granting(b) == worker[b] = "grant" /\ worker'[b] # "grant"

\* No caller of Wait is forgotten: a caller that still waits and has no
\* outcome yet is in a queue, or in the hand, of a bucket whose goroutine is
\* alive.  This is what the re-check in tryExitIfEmpty, the signal and the
\* drains of shutdown and markStopped are for (ratelimit.go:285-421).
NoLostRequest ==
  \A r \in Requests :
    r \in waiting /\ ready[r] = "empty" =>
      \E b \in Buckets :
        worker[b] # "none" /\ (r \in Queued(b) \/ hand[b] = r)

\* A request that still sits in a queue or in a worker's hand has no outcome,
\* so every deliver of the code finds room in the channel and no evicted or
\* refused request can later be granted as well (ratelimit.go:236-241).
PendingUnanswered ==
  \A r \in Requests : Referenced(r) => ready[r] = "empty"

\* A request is never in two places: no slot is ever paid for twice
\* (ratelimit.go:387-396).
OnePlace ==
  /\ \A a, b \in Buckets :
       hand[a] # NoRequest =>
         /\ hand[a] \notin Queued(b)
         /\ hand[a] = hand[b] => a = b
  /\ \A a, b \in Buckets : a # b => Queued(a) \cap Queued(b) = {}
  /\ \A b \in Buckets : \A i, j \in 1..Len(queue[b]) :
       queue[b][i] = queue[b][j] => i = j

\* What the queues and the workers' hands refer to is there once, and unanswered.
HeldOnce == OnePlace /\ PendingUnanswered

\* One bucket never hands out two slots within Rate, although the worker
\* decides on a reading of nextAllowedAt taken before it slept
\* (ratelimit.go:355-378).
BucketSpacing == [][\A b \in Buckets : Granting(b) => hold[b] = 0]_vars

\* Until Close, the limiter remembers the last slot of a chat for as long as
\* it has to: within Rate of a grant some live bucket of the chat is still
\* counting the pause down, so a worker that exits has none left to remember
\* (ratelimit.go:179-214, 408-421).  That bucket need not be the one in the map:
\* a worker whose bucket deleteBucket has taken out of the map satisfies this,
\* and the next Wait, served by another bucket, does not know of its pause.  It
\* is how ChatSpacing fails.
PauseRemembered ==
  \A c \in Chats : ~closed /\ sinceGrant[c] < Rate =>
    \E b \in Buckets :
      /\ chatOf[b] = c
      /\ bucketOf[c] = b \/ worker[b] # "none"
      /\ hold[b] = Rate - sinceGrant[c]

\* "one slot every 4 s -> 15/min" (ratelimit.go:35) per chat, "each chat owns
\* an independent token bucket" (ratelimit.go:5): no chat is granted a slot
\* within Rate of its previous one.
ChatSpacing ==
  [][\A b \in Buckets : Granting(b) => sinceGrant[chatOf[b]] = Rate]_vars

\* Every call of Wait returns: granted, evicted, refused or canceled
\* (ratelimit.go:99-136).
EveryWaitReturns ==
  \A r \in Requests : r \in waiting ~> r \notin waiting

\* Close returns: the WaitGroup it waits for - reaper, workers and workers on
\* their way out - drains (ratelimit.go:141-154).
CloseReturns ==
  closed ~> /\ ~reaping
            /\ leaving = {}
            /\ \A b \in Buckets : worker[b] = "none"
=============================================================================
