------------------------- MODULE RateLimiter_proofs -------------------------
(***************************************************************************)
(* Proofs about RateLimiter, for every set of chats, requests and buckets, *)
(* every queue capacity, rate and idle timeout.                            *)
(***************************************************************************)
EXTENDS RateLimiter, TLAPS, SequenceTheorems

-----------------------------------------------------------------------------
(* The queue after one more waiter joined it.                              *)

Elems(q) == {q[i] : i \in 1..Len(q)}

\* Trimming a queue leaves room for one more waiter, keeps a suffix, and
\* answers every waiter it does not keep (ratelimit.go:261-280).
LEMMA KeptFacts ==
  ASSUME NEW q \in Seq(Requests), Len(q) <= QueueCap
  PROVE  /\ Kept(q) \in Seq(Requests)
         /\ Len(Kept(q)) < QueueCap
         /\ Len(Kept(q)) <= Len(q)
         /\ \A i \in 1..Len(Kept(q)) : Kept(q)[i] = q[i + (Len(q) - Len(Kept(q)))]
         /\ Evicted(q) = {q[i] : i \in 1..(Len(q) - Len(Kept(q)))}
<1>0. QueueCap \in Nat \ {0} /\ Len(q) \in Nat
  BY QueueCapAssumption, LenProperties
<1>1. CASE Len(q) < QueueCap
  BY <1>0, <1>1 DEF Kept, Evicted
<1>2. CASE Len(q) = QueueCap
  <2>1. Kept(q) = SubSeq(q, 2, Len(q))
    BY <1>0, <1>2 DEF Kept
  <2>2. \A i \in 2..Len(q) : q[i] \in Requests
    BY <1>0, LenProperties
  <2>3. /\ Kept(q) \in Seq(Requests)
        /\ Len(Kept(q)) = IF 2 <= Len(q) THEN Len(q) - 1 ELSE 0
        /\ \A i \in 1..(Len(q) - 1) : Kept(q)[i] = q[i + 1]
    <3>1. /\ SubSeq(q, 2, Len(q)) \in Seq(Requests)
          /\ Len(SubSeq(q, 2, Len(q))) = IF 2 <= Len(q) THEN Len(q) - 2 + 1 ELSE 0
          /\ \A i \in 1..(Len(q) - 2 + 1) : SubSeq(q, 2, Len(q))[i] = q[2 + i - 1]
      BY <1>0, <2>2, SubSeqProperties
    <3> QED BY <1>0, <2>1, <3>1
  <2>4. Len(Kept(q)) = Len(q) - 1
    BY <1>0, <1>2, <2>3
  <2>5. Evicted(q) = {q[i] : i \in 1..1}
    BY <1>0, <1>2 DEF Evicted
  <2> QED BY <1>0, <1>2, <2>3, <2>4, <2>5
<1> QED BY <1>0, <1>1, <1>2

\* What enqueueLocked does to the set of waiters of a bucket.
LEMMA EnqueueFacts ==
  ASSUME NEW q \in Seq(Requests), Len(q) <= QueueCap, NEW r \in Requests
  PROVE  LET n == Append(Kept(q), r) IN
         /\ n \in Seq(Requests)
         /\ Len(n) <= QueueCap
         /\ Elems(n) \subseteq Elems(q) \cup {r}
         /\ Elems(q) \subseteq Elems(n) \cup Evicted(q)
         /\ r \in Elems(n)
         /\ Evicted(q) \subseteq Elems(q)
<1> DEFINE k == Kept(q)
           n == Append(k, r)
           d == Len(q) - Len(k)
<1>0. /\ k \in Seq(Requests) /\ Len(k) \in Nat /\ Len(q) \in Nat
      /\ QueueCap \in Nat
      /\ Len(k) < QueueCap /\ Len(k) <= Len(q)
      /\ \A i \in 1..Len(k) : k[i] = q[i + d]
      /\ Evicted(q) = {q[i] : i \in 1..d}
  BY QueueCapAssumption, LenProperties, KeptFacts
<1>1. /\ n \in Seq(Requests) /\ Len(n) = Len(k) + 1
      /\ \A i \in 1..Len(k) : n[i] = k[i]
      /\ n[Len(k) + 1] = r
  BY <1>0, AppendProperties
<1> HIDE DEF k, n
<1>2. ASSUME NEW i \in 1..Len(n)
      PROVE  n[i] \in Elems(q) \cup {r}
  <2>1. CASE i = Len(k) + 1
    BY <1>1, <2>1
  <2>2. CASE i \in 1..Len(k)
    BY <1>0, <1>1, <2>2 DEF Elems
  <2> QED BY <1>0, <1>1, <2>1, <2>2
<1>3. ASSUME NEW i \in 1..Len(q)
      PROVE  q[i] \in Elems(n) \cup Evicted(q)
  <2>1. CASE i <= d
    BY <1>0, <2>1
  <2>2. CASE i > d
    <3> DEFINE j == i - d
    <3>1. j \in 1..Len(k) /\ j \in 1..Len(n) /\ j + d = i
      BY <1>0, <1>1, <2>2
    <3> HIDE DEF j
    <3>2. n[j] = k[j] /\ k[j] = q[j + d]
      BY <1>0, <1>1, <3>1
    <3>3. n[j] = q[i]
      BY <3>1, <3>2
    <3> QED BY <3>1, <3>3 DEF Elems
  <2> QED BY <1>0, <2>1, <2>2
<1>4. r \in Elems(n)
  <2>1. Len(k) + 1 \in 1..Len(n)
    BY <1>0, <1>1
  <2> QED BY <1>1, <2>1 DEF Elems
<1>5. Evicted(q) \subseteq Elems(q)
  BY <1>0 DEF Elems
<1>6. Elems(n) \subseteq Elems(q) \cup {r}
  BY <1>2 DEF Elems
<1>7. Elems(q) \subseteq Elems(n) \cup Evicted(q)
  BY <1>3 DEF Elems
<1>8. n \in Seq(Requests) /\ Len(n) <= QueueCap
  BY <1>0, <1>1
<1> QED BY <1>4, <1>5, <1>6, <1>7, <1>8 DEF n, k

-----------------------------------------------------------------------------
(* Types.                                                                  *)

\* deliver keeps every channel in its domain.
LEMMA DeliverType ==
  ASSUME TypeOK, NEW rs, NEW o \in Outcomes
  PROVE  Deliver(rs, o) \in [Requests -> Outcomes \cup {"empty"}]
BY DEF TypeOK, Deliver

\* Joining a queue keeps the types and the capacity (ratelimit.go:261-295).
LEMMA EnqueueType ==
  ASSUME TypeOK, NEW r \in Requests, NEW b \in Buckets, NEW reset \in BOOLEAN,
         Enqueue(r, b, reset),
         bucketOf' \in [Chats -> Buckets \cup {NoBucket}],
         chatOf' \in [Buckets -> Chats]
  PROVE  TypeOK'
<1>1. /\ queue' \in [Buckets -> Seq(Requests)]
      /\ \A x \in Buckets : Len(queue'[x]) <= QueueCap
  <2>1. queue[b] \in Seq(Requests) /\ Len(queue[b]) <= QueueCap
    BY DEF TypeOK
  <2>2. /\ Append(Kept(queue[b]), r) \in Seq(Requests)
        /\ Len(Append(Kept(queue[b]), r)) <= QueueCap
    BY <2>1, EnqueueFacts
  <2> QED BY <2>2 DEF TypeOK, Enqueue
<1>2. ready' \in [Requests -> Outcomes \cup {"empty"}]
  <2>1. Deliver(Evicted(queue[b]), "full") \in [Requests -> Outcomes \cup {"empty"}]
    BY DeliverType DEF Outcomes
  <2> QED BY <2>1 DEF Enqueue
<1>3. hold' \in [Buckets -> 0..Rate] /\ quiet' \in [Buckets -> 0..(IdleTimeout + 1)]
  BY RateAssumption, IdleTimeoutAssumption DEF TypeOK, Enqueue
<1>4. /\ signal' \in [Buckets -> BOOLEAN]
      /\ worker' \in [Buckets -> WorkerStates]
      /\ waiting' \in SUBSET Requests
      /\ canceled' \in SUBSET Requests
  BY DEF TypeOK, Enqueue, WorkerStates
<1> QED BY <1>1, <1>2, <1>3, <1>4 DEF TypeOK, Enqueue

\* Every variable keeps its type, and no queue outgrows its capacity.
THEOREM TypeCorrect == Spec => []TypeOK
<1>1. Init => TypeOK
  <2> SUFFICES ASSUME Init PROVE TypeOK
    OBVIOUS
  <2>1. << >> \in Seq(Requests) /\ Len(<< >>) <= QueueCap
    BY EmptySeq, QueueCapAssumption
  <2>2. /\ queue \in [Buckets -> Seq(Requests)]
        /\ \A b \in Buckets : Len(queue[b]) <= QueueCap
    BY <2>1 DEF Init
  <2>3. /\ hold \in [Buckets -> 0..Rate]
        /\ quiet \in [Buckets -> 0..(IdleTimeout + 1)]
        /\ idleFor \in [Buckets -> 0..IdleTimeout]
        /\ sinceGrant \in [Chats -> 0..Rate]
    BY RateAssumption, IdleTimeoutAssumption DEF Init
  <2> QED BY <2>2, <2>3 DEF Init, TypeOK, WorkerStates
<1>2. TypeOK /\ [Next]_vars => TypeOK'
  <2> SUFFICES ASSUME TypeOK, [Next]_vars PROVE TypeOK'
    OBVIOUS
  <2>1. ASSUME NEW r \in Requests, NEW c \in Chats, WaitKnown(r, c)
        PROVE  TypeOK'
    <3>1. bucketOf[c] \in Buckets /\ Enqueue(r, bucketOf[c], FALSE)
      BY <2>1 DEF WaitKnown, TypeOK
    <3>2. bucketOf' = bucketOf /\ chatOf' = chatOf
      BY <2>1 DEF WaitKnown
    <3>3. /\ bucketOf' \in [Chats -> Buckets \cup {NoBucket}]
          /\ chatOf' \in [Buckets -> Chats]
      BY <3>2 DEF TypeOK
    <3> QED BY <3>1, <3>3, EnqueueType
  <2>2. ASSUME NEW r \in Requests, NEW c \in Chats, WaitNew(r, c)
        PROVE  TypeOK'
    <3>1. PICK b \in Buckets :
            /\ bucketOf' = [bucketOf EXCEPT ![c] = b]
            /\ chatOf' = [chatOf EXCEPT ![b] = c]
            /\ Enqueue(r, b, TRUE)
      BY <2>2 DEF WaitNew
    <3>2. /\ bucketOf' \in [Chats -> Buckets \cup {NoBucket}]
          /\ chatOf' \in [Buckets -> Chats]
      BY <3>1 DEF TypeOK
    <3> QED BY <3>1, <3>2, EnqueueType
  <2>3. ASSUME NEW r \in Requests, Return(r) PROVE TypeOK'
    BY <2>3 DEF Return, TypeOK, limVars, bucketVars, timeVars
  <2>4. ASSUME NEW r \in Requests, CtxDone(r) PROVE TypeOK'
    BY <2>4 DEF CtxDone, TypeOK, limVars, bucketVars, timeVars
  <2>5. ASSUME NEW b \in Buckets, Pop(b) PROVE TypeOK'
    <3>1. queue[b] \in Seq(Requests) /\ queue[b] # <<>> /\ Len(queue[b]) \in Nat
      BY <2>5, LenProperties DEF Pop, TypeOK
    <3>2. /\ Head(queue[b]) \in Requests
          /\ Tail(queue[b]) \in Seq(Requests)
          /\ Len(Tail(queue[b])) = Len(queue[b]) - 1
      BY <3>1, HeadTailProperties
    <3>3. /\ queue' \in [Buckets -> Seq(Requests)]
          /\ \A x \in Buckets : Len(queue'[x]) <= QueueCap
      BY <2>5, <3>1, <3>2, QueueCapAssumption DEF Pop, TypeOK
    <3>4. hand' \in [Buckets -> Requests \cup {NoRequest}]
      <4>1. hand' = hand \/ hand' = [hand EXCEPT ![b] = Head(queue[b])]
        BY <2>5 DEF Pop
      <4>2. hand \in [Buckets -> Requests \cup {NoRequest}]
        BY DEF TypeOK
      <4> QED BY <3>2, <4>1, <4>2
    <3>5. worker' \in [Buckets -> WorkerStates]
      <4>1. \E w \in WorkerStates : worker' = worker \/ worker' = [worker EXCEPT ![b] = w]
        BY <2>5 DEF Pop, WorkerStates
      <4>2. worker \in [Buckets -> WorkerStates]
        BY DEF TypeOK
      <4> QED BY <4>1, <4>2
    <3> QED BY <2>5, <3>3, <3>4, <3>5
            DEF Pop, TypeOK, limVars, timeVars, callVars
  <2>6. ASSUME NEW b \in Buckets, PopEmpty(b) PROVE TypeOK'
    BY <2>6, IdleTimeoutAssumption
       DEF PopEmpty, TypeOK, WorkerStates, limVars, callVars
  <2>7. ASSUME NEW b \in Buckets, WakeUp(b) PROVE TypeOK'
    BY <2>7, IdleTimeoutAssumption
       DEF WakeUp, TypeOK, WorkerStates, limVars, callVars
  <2>8. ASSUME NEW b \in Buckets, IdleExpire(b) PROVE TypeOK'
    <3>1. worker' \in [Buckets -> WorkerStates] /\ leaving' \in SUBSET Buckets
      BY <2>8 DEF IdleExpire, TypeOK, WorkerStates
    <3>2. idleFor' \in [Buckets -> 0..IdleTimeout]
      BY <2>8, IdleTimeoutAssumption DEF IdleExpire, TypeOK
    <3> QED BY <2>8, <3>1, <3>2 DEF IdleExpire, TypeOK, limVars, callVars
  <2>9. ASSUME NEW b \in Buckets, Stopped(b) PROVE TypeOK'
    <3>1. ready' \in [Requests -> Outcomes \cup {"empty"}]
      BY <2>9, DeliverType DEF Stopped, Outcomes
    <3>2. /\ queue' \in [Buckets -> Seq(Requests)]
          /\ \A x \in Buckets : Len(queue'[x]) <= QueueCap
      BY <2>9, EmptySeq, QueueCapAssumption DEF Stopped, TypeOK
    <3>3. /\ hand' \in [Buckets -> Requests \cup {NoRequest}]
          /\ worker' \in [Buckets -> WorkerStates]
          /\ idleFor' \in [Buckets -> 0..IdleTimeout]
      BY <2>9, IdleTimeoutAssumption DEF Stopped, TypeOK, WorkerStates
    <3> QED BY <2>9, <3>1, <3>2, <3>3 DEF Stopped, TypeOK, limVars
  <2>10. ASSUME NEW b \in Buckets, SlotElapsed(b) PROVE TypeOK'
    BY <2>10 DEF SlotElapsed, TypeOK, WorkerStates, limVars, timeVars, callVars
  <2>11. ASSUME NEW b \in Buckets, Grant(b) PROVE TypeOK'
    <3>1. ready' \in [Requests -> Outcomes \cup {"empty"}]
      BY <2>11, DeliverType DEF Grant, Outcomes
    <3>2. /\ hold' \in [Buckets -> 0..Rate]
          /\ quiet' \in [Buckets -> 0..(IdleTimeout + 1)]
          /\ sinceGrant' \in [Chats -> 0..Rate]
      BY <2>11, RateAssumption, IdleTimeoutAssumption DEF Grant, TypeOK
    <3> QED BY <2>11, <3>1, <3>2 DEF Grant, TypeOK, WorkerStates, limVars
  <2>12. ASSUME NEW b \in Buckets, DeleteBucket(b) PROVE TypeOK'
    BY <2>12 DEF DeleteBucket, TypeOK, timeVars, callVars
  <2>13. CASE SweepIdle
    BY <2>13 DEF SweepIdle, TypeOK, bucketVars, timeVars, callVars
  <2>14. CASE ReaperStop
    BY <2>14 DEF ReaperStop, TypeOK, bucketVars, timeVars, callVars
  <2>15. CASE Close
    <3> DEFINE mapped == {bucketOf[c] : c \in Chats} \ {NoBucket}
    <3>1. ready' \in [Requests -> Outcomes \cup {"empty"}]
      BY <2>15, DeliverType DEF Close, Outcomes
    <3>2. /\ queue' \in [Buckets -> Seq(Requests)]
          /\ \A x \in Buckets : Len(queue'[x]) <= QueueCap
      <4>1. queue' = [b \in Buckets |-> IF b \in mapped THEN <<>> ELSE queue[b]]
        BY <2>15 DEF Close
      <4>2. << >> \in Seq(Requests) /\ Len(<< >>) <= QueueCap
        BY EmptySeq, QueueCapAssumption
      <4> HIDE DEF mapped
      <4> QED BY <4>1, <4>2 DEF TypeOK
    <3> QED BY <2>15, <3>1, <3>2 DEF Close, TypeOK, timeVars
  <2>16. CASE Tick
    <3>1. /\ hold' \in [Buckets -> 0..Rate]
          /\ quiet' \in [Buckets -> 0..(IdleTimeout + 1)]
          /\ idleFor' \in [Buckets -> 0..IdleTimeout]
          /\ sinceGrant' \in [Chats -> 0..Rate]
      BY <2>16, RateAssumption, IdleTimeoutAssumption DEF Tick, TypeOK
    <3> QED BY <2>16, <3>1 DEF Tick, TypeOK, limVars, bucketVars, callVars
  <2>17. CASE UNCHANGED vars
    BY <2>17 DEF TypeOK, vars, limVars, bucketVars, timeVars, callVars
  <2> QED BY <2>1, <2>2, <2>3, <2>4, <2>5, <2>6, <2>7, <2>8, <2>9, <2>10, <2>11,
             <2>12, <2>13, <2>14, <2>15, <2>16, <2>17
          DEF Next, WorkerStep, IdleStop, SlotStop
<1> QED BY <1>1, <1>2, PTL DEF Spec
-----------------------------------------------------------------------------
(* Where a bucket's goroutine stands, and what that says of its bucket.    *)

\* A bucket without a goroutine has an empty queue, a goroutine holds a
\* request exactly between popNext and deliver, and one that is about to
\* deliver has waited its pause out.
WorkerShape ==
  \A b \in Buckets :
    /\ worker[b] = "none" => queue[b] = <<>>
    /\ hand[b] # NoRequest <=> worker[b] \in {"slot", "grant"}
    /\ worker[b] = "grant" => hold[b] = 0

\* The shape of every bucket is kept by every step.
THEOREM ShapeCorrect == Spec => []WorkerShape
<1>1. Init => WorkerShape
  BY DEF Init, WorkerShape
<1>2. TypeOK /\ WorkerShape /\ [Next]_vars => WorkerShape'
  <2> SUFFICES ASSUME TypeOK, WorkerShape, [Next]_vars PROVE WorkerShape'
    OBVIOUS
  <2>0. ASSUME NEW r, NEW b \in Buckets, NEW reset \in BOOLEAN, Enqueue(r, b, reset)
        PROVE  WorkerShape'
    <3>1. worker'[b] # "none" /\ worker'[b] \in {"slot", "grant"} <=> worker[b] \in {"slot", "grant"}
      BY <2>0 DEF Enqueue, TypeOK
    <3>2. ASSUME NEW x \in Buckets, x # b
          PROVE  worker'[x] = worker[x] /\ queue'[x] = queue[x] /\ hold'[x] = hold[x]
      BY <2>0, <3>2 DEF Enqueue, TypeOK
    <3>3. /\ worker'[b] # "none"
          /\ worker'[b] = "grant" <=> worker[b] = "grant"
          /\ hold'[b] = 0 \/ hold'[b] = hold[b]
      BY <2>0 DEF Enqueue, TypeOK
    <3>4. hand' = hand
      BY <2>0 DEF Enqueue
    <3> QED BY <3>1, <3>2, <3>3, <3>4 DEF WorkerShape
  <2>1. ASSUME NEW r \in Requests, NEW c \in Chats, WaitKnown(r, c)
        PROVE  WorkerShape'
    BY <2>0, <2>1 DEF WaitKnown, TypeOK
  <2>2. ASSUME NEW r \in Requests, NEW c \in Chats, WaitNew(r, c)
        PROVE  WorkerShape'
    BY <2>0, <2>2 DEF WaitNew
  <2>3. ASSUME NEW r \in Requests, Return(r) \/ CtxDone(r) PROVE WorkerShape'
    BY <2>3 DEF Return, CtxDone, WorkerShape, bucketVars, timeVars
  <2>4. ASSUME NEW b \in Buckets, Pop(b) PROVE WorkerShape'
    <3>1. Head(queue[b]) # NoRequest
      BY <2>4, HeadTailProperties, NoRequestAssumption DEF Pop, TypeOK
    <3>2. hold' = hold
      BY <2>4 DEF Pop, timeVars
    <3>3. ASSUME NEW x \in Buckets, x # b
          PROVE  worker'[x] = worker[x] /\ queue'[x] = queue[x] /\ hand'[x] = hand[x]
      BY <2>4, <3>3 DEF Pop, TypeOK
    <3>4. hold[b] \in 0..Rate /\ Rate \in Nat
      BY RateAssumption DEF TypeOK
    <3>5. CASE Head(queue[b]) \in canceled
      <4>1. worker' = worker /\ hand' = hand /\ worker[b] = "pop"
        BY <2>4, <3>5 DEF Pop
      <4> QED BY <3>2, <3>3, <4>1 DEF WorkerShape
    <3>6. CASE Head(queue[b]) \notin canceled
      <4>1. hand'[b] = Head(queue[b]) /\ worker'[b] = IF hold[b] > 0 THEN "slot" ELSE "grant"
        BY <2>4, <3>6 DEF Pop, TypeOK
      <4>2. hold[b] > 0 \/ hold[b] = 0
        BY <3>4
      <4> QED BY <3>1, <3>2, <3>3, <4>1, <4>2 DEF WorkerShape
    <3> QED BY <3>5, <3>6
  <2>5. ASSUME NEW b \in Buckets, PopEmpty(b) \/ WakeUp(b) PROVE WorkerShape'
    BY <2>5 DEF PopEmpty, WakeUp, WorkerShape, TypeOK
  <2>6. ASSUME NEW b \in Buckets, IdleExpire(b) PROVE WorkerShape'
    BY <2>6 DEF IdleExpire, WorkerShape, TypeOK
  <2>7. ASSUME NEW b \in Buckets, Stopped(b) PROVE WorkerShape'
    BY <2>7 DEF Stopped, WorkerShape, TypeOK
  <2>8. ASSUME NEW b \in Buckets, SlotElapsed(b) PROVE WorkerShape'
    BY <2>8 DEF SlotElapsed, WorkerShape, TypeOK, timeVars
  <2>9. ASSUME NEW b \in Buckets, Grant(b) PROVE WorkerShape'
    BY <2>9 DEF Grant, WorkerShape, TypeOK
  <2>10. ASSUME NEW b \in Buckets, DeleteBucket(b) PROVE WorkerShape'
    BY <2>10 DEF DeleteBucket, WorkerShape, timeVars
  <2>11. CASE SweepIdle \/ ReaperStop
    BY <2>11 DEF SweepIdle, ReaperStop, WorkerShape, bucketVars, timeVars
  <2>12. CASE Close
    <3>1. worker' = worker /\ hand' = hand /\ hold' = hold
      BY <2>12 DEF Close, timeVars
    <3>2. \A x \in Buckets : queue'[x] = queue[x] \/ queue'[x] = << >>
      BY <2>12 DEF Close
    <3> QED BY <3>1, <3>2 DEF WorkerShape
  <2>13. CASE Tick
    <3>1. worker' = worker /\ hand' = hand /\ queue' = queue
      BY <2>13 DEF Tick, bucketVars
    <3>2. \A x \in Buckets : hold[x] = 0 => hold'[x] = 0
      BY <2>13 DEF Tick
    <3> QED BY <3>1, <3>2 DEF WorkerShape
  <2>14. CASE UNCHANGED vars
    BY <2>14 DEF vars, bucketVars, timeVars, WorkerShape
  <2> QED BY <2>1, <2>2, <2>3, <2>4, <2>5, <2>6, <2>7, <2>8, <2>9, <2>10, <2>11,
             <2>12, <2>13, <2>14
          DEF Next, WorkerStep, IdleStop, SlotStop
<1> QED BY <1>1, <1>2, TypeCorrect, PTL DEF Spec

\* No bucket hands out two slots within Rate (ratelimit.go:355-378).
THEOREM BucketSpacingCorrect == Spec => BucketSpacing
<1>1. TypeOK /\ WorkerShape /\ [Next]_vars
        => [\A b \in Buckets : Granting(b) => hold[b] = 0]_vars
  BY DEF Granting, WorkerShape
<1> QED BY <1>1, TypeCorrect, ShapeCorrect, PTL DEF Spec, BucketSpacing
-----------------------------------------------------------------------------
(* A request is in one place, and has no outcome while it is in one.       *)

Distinct(q) == \A i, j \in 1..Len(q) : q[i] = q[j] => i = j

\* Joining a queue keeps its waiters distinct and apart from the evicted.
LEMMA EnqueueDistinct ==
  ASSUME NEW q \in Seq(Requests), Len(q) <= QueueCap, NEW r \in Requests,
         Distinct(q), r \notin Elems(q)
  PROVE  /\ Distinct(Append(Kept(q), r))
         /\ Evicted(q) \cap Elems(Append(Kept(q), r)) = {}
<1> DEFINE k == Kept(q)
           n == Append(k, r)
           d == Len(q) - Len(k)
<1>0. /\ k \in Seq(Requests) /\ Len(k) \in Nat /\ Len(q) \in Nat
      /\ Len(k) <= Len(q)
      /\ \A i \in 1..Len(k) : k[i] = q[i + d]
      /\ Evicted(q) = {q[i] : i \in 1..d}
  BY QueueCapAssumption, LenProperties, KeptFacts
<1>1. /\ Len(n) = Len(k) + 1
      /\ \A i \in 1..Len(k) : n[i] = k[i]
      /\ n[Len(k) + 1] = r
  BY <1>0, AppendProperties
<1> HIDE DEF k, n
<1>2. ASSUME NEW i \in 1..Len(k)
      PROVE  i + d \in 1..Len(q) /\ n[i] = q[i + d] /\ n[i] # r
  <2>1. i + d \in 1..Len(q)
    BY <1>0
  <2>2. n[i] = q[i + d]
    BY <1>0, <1>1
  <2>3. q[i + d] \in Elems(q)
    BY <2>1 DEF Elems
  <2> QED BY <2>1, <2>2, <2>3
<1>3. ASSUME NEW i \in 1..Len(n), NEW j \in 1..Len(n), n[i] = n[j]
      PROVE  i = j
  <2>1. CASE i = Len(k) + 1 /\ j = Len(k) + 1
    BY <2>1
  <2>2. CASE i = Len(k) + 1 /\ j \in 1..Len(k)
    BY <1>1, <1>2, <1>3, <2>2
  <2>3. CASE i \in 1..Len(k) /\ j = Len(k) + 1
    BY <1>1, <1>2, <1>3, <2>3
  <2>4. CASE i \in 1..Len(k) /\ j \in 1..Len(k)
    <3>1. q[i + d] = q[j + d] /\ i + d \in 1..Len(q) /\ j + d \in 1..Len(q)
      BY <1>2, <1>3, <2>4
    <3>2. i + d = j + d
      BY <3>1 DEF Distinct
    <3> QED BY <1>0, <2>4, <3>2
  <2> QED BY <1>0, <1>1, <2>1, <2>2, <2>3, <2>4
<1>4. ASSUME NEW i \in 1..d, NEW j \in 1..Len(n), q[i] = n[j]
      PROVE  FALSE
  <2>0. i \in 1..Len(q)
    BY <1>0
  <2>1. CASE j = Len(k) + 1
    <3>1. q[i] = r /\ q[i] \in Elems(q)
      BY <1>1, <1>4, <2>0, <2>1 DEF Elems
    <3> QED BY <3>1
  <2>2. CASE j \in 1..Len(k)
    <3>1. q[i] = q[j + d] /\ j + d \in 1..Len(q)
      BY <1>2, <1>4, <2>2
    <3>2. i = j + d
      BY <2>0, <3>1 DEF Distinct
    <3> QED BY <1>0, <2>2, <3>2
  <2> QED BY <1>0, <1>1, <2>1, <2>2
<1>5. Distinct(n)
  BY <1>3 DEF Distinct
<1>6. Evicted(q) \cap Elems(n) = {}
  BY <1>0, <1>4 DEF Elems
<1> QED BY <1>5, <1>6 DEF n, k

\* What popNext does to the set of waiters of a bucket.
LEMMA PopFacts ==
  ASSUME NEW q \in Seq(Requests), q # << >>
  PROVE  /\ Head(q) \in Elems(q)
         /\ Elems(Tail(q)) \subseteq Elems(q)
         /\ Elems(q) \subseteq Elems(Tail(q)) \cup {Head(q)}
         /\ Distinct(q) => Head(q) \notin Elems(Tail(q)) /\ Distinct(Tail(q))
<1>1. /\ Len(q) \in Nat /\ Len(q) # 0
      /\ Len(Tail(q)) = Len(q) - 1
      /\ \A i \in 1..Len(Tail(q)) : Tail(q)[i] = q[i + 1]
      /\ Head(q) = q[1]
  BY LenProperties, EmptySeq, HeadTailProperties
<1> DEFINE t == Tail(q)
           h == Head(q)
<1> HIDE DEF t, h
<1>2. /\ Len(t) = Len(q) - 1
      /\ \A i \in 1..Len(t) : t[i] = q[i + 1] /\ i + 1 \in 1..Len(q)
      /\ h = q[1] /\ 1 \in 1..Len(q)
  BY <1>1 DEF t, h
<1>3. h \in Elems(q) /\ Elems(t) \subseteq Elems(q)
  BY <1>2 DEF Elems
<1>4. ASSUME NEW i \in 1..Len(q) PROVE q[i] \in Elems(t) \cup {h}
  <2>1. CASE i = 1
    BY <1>2, <2>1
  <2>2. CASE i # 1
    <3> DEFINE j == i - 1
    <3>1. j \in 1..Len(t) /\ j + 1 = i
      BY <1>1, <1>2, <2>2
    <3> HIDE DEF j
    <3>2. t[j] = q[i]
      BY <1>2, <3>1
    <3> QED BY <3>1, <3>2 DEF Elems
  <2> QED BY <2>1, <2>2
<1>5. ASSUME Distinct(q) PROVE h \notin Elems(t)
  <2> SUFFICES ASSUME NEW i \in 1..Len(t), t[i] = h PROVE FALSE
    BY DEF Elems
  <2>1. q[i + 1] = q[1] /\ i + 1 \in 1..Len(q) /\ 1 \in 1..Len(q)
    BY <1>2
  <2>2. i + 1 = 1
    BY <1>5, <2>1 DEF Distinct
  <2> QED BY <1>1, <1>2, <2>2
<1>6. ASSUME Distinct(q), NEW i \in 1..Len(t), NEW j \in 1..Len(t), t[i] = t[j]
      PROVE  i = j
  <2>1. q[i + 1] = q[j + 1] /\ i + 1 \in 1..Len(q) /\ j + 1 \in 1..Len(q)
    BY <1>2, <1>6
  <2>2. i + 1 = j + 1
    BY <1>6, <2>1 DEF Distinct
  <2> QED BY <1>1, <1>2, <2>2
<1>7. Elems(q) \subseteq Elems(t) \cup {h}
  BY <1>4 DEF Elems
<1>8. Distinct(q) => Distinct(t)
  BY <1>6 DEF Distinct
<1> QED BY <1>3, <1>5, <1>7, <1>8 DEF t, h

\* OnePlace in terms of Elems and Distinct.
LEMMA OnePlaceSplit ==
  /\ OnePlace <=>
       /\ \A a, b \in Buckets : hand[a] # NoRequest =>
            hand[a] \notin Elems(queue[b]) /\ (hand[a] = hand[b] => a = b)
       /\ \A a, b \in Buckets : a # b => Elems(queue[a]) \cap Elems(queue[b]) = {}
       /\ \A b \in Buckets : Distinct(queue[b])
  /\ OnePlace' <=>
       /\ \A a, b \in Buckets : hand'[a] # NoRequest =>
            hand'[a] \notin Elems(queue'[b]) /\ (hand'[a] = hand'[b] => a = b)
       /\ \A a, b \in Buckets : a # b => Elems(queue'[a]) \cap Elems(queue'[b]) = {}
       /\ \A b \in Buckets : Distinct(queue'[b])
BY DEF OnePlace, Elems, Distinct, Queued

\* Steps that only empty queues and hands keep OnePlace.
LEMMA OnePlaceShrinks ==
  ASSUME OnePlace,
         \A x \in Buckets : queue'[x] = queue[x] \/ queue'[x] = << >>,
         \A x \in Buckets : hand'[x] = hand[x] \/ hand'[x] = NoRequest
  PROVE  OnePlace'
<1>1. Elems(<< >>) = {} /\ Distinct(<< >>)
  BY DEF Elems, Distinct
<1>2. \A x \in Buckets : Elems(queue'[x]) \subseteq Elems(queue[x])
  BY <1>1
<1>3. \A x \in Buckets : Distinct(queue[x]) => Distinct(queue'[x])
  BY <1>1
<1> QED BY <1>2, <1>3, OnePlaceSplit

\* A request the limiter refers to is referred to by one queue entry or one
\* worker only.
THEOREM OnePlaceCorrect == Spec => []OnePlace
<1>1. Init => OnePlace
  BY DEF Init, OnePlace, Queued
<1>2. TypeOK /\ OnePlace /\ [Next]_vars => OnePlace'
  <2> SUFFICES ASSUME TypeOK, OnePlace, [Next]_vars PROVE OnePlace'
    OBVIOUS
  <2>0. ASSUME NEW r \in Requests, NEW b \in Buckets, NEW reset \in BOOLEAN,
               ~Referenced(r), Enqueue(r, b, reset)
        PROVE  OnePlace'
    <3> DEFINE n == Append(Kept(queue[b]), r)
    <3>1. queue[b] \in Seq(Requests) /\ Len(queue[b]) <= QueueCap
      BY DEF TypeOK
    <3>2. \A x \in Buckets : r \notin Elems(queue[x]) /\ hand[x] # r
      BY <2>0 DEF Referenced, Queued, Elems
    <3>3. Distinct(queue[b])
      BY OnePlaceSplit
    <3>4. Distinct(n) /\ Elems(n) \subseteq Elems(queue[b]) \cup {r}
      BY <3>1, <3>2, <3>3, EnqueueFacts, EnqueueDistinct
    <3> HIDE DEF n
    <3>5. /\ hand' = hand
          /\ queue'[b] = n
          /\ \A x \in Buckets : x # b => queue'[x] = queue[x]
      BY <2>0 DEF Enqueue, TypeOK, n
    <3> QED BY <3>2, <3>4, <3>5, OnePlaceSplit
  <2>1. ASSUME NEW r \in Requests, NEW c \in Chats, WaitKnown(r, c)
        PROVE  OnePlace'
    BY <2>0, <2>1 DEF WaitKnown, TypeOK
  <2>2. ASSUME NEW r \in Requests, NEW c \in Chats, WaitNew(r, c)
        PROVE  OnePlace'
    BY <2>0, <2>2 DEF WaitNew
  <2>3. ASSUME NEW b \in Buckets, Pop(b) PROVE OnePlace'
    <3> DEFINE q == queue[b]
               h == Head(q)
               t == Tail(q)
    <3>1. q \in Seq(Requests) /\ q # << >>
      BY <2>3 DEF Pop, TypeOK
    <3>2. Distinct(q)
      BY OnePlaceSplit
    <3>3. /\ h \in Elems(q) /\ Elems(t) \subseteq Elems(q)
          /\ h \notin Elems(t) /\ Distinct(t)
      BY <3>1, <3>2, PopFacts
    <3>4. /\ queue'[b] = t
          /\ \A x \in Buckets : x # b => queue'[x] = queue[x]
      BY <2>3 DEF Pop, TypeOK
    <3>5. CASE hand' = hand
      <4> HIDE DEF q, h, t
      <4>1. Elems(queue[b]) = Elems(q)
        BY DEF q
      <4> QED BY <3>3, <3>4, <3>5, <4>1, OnePlaceSplit
    <3>6. CASE hand' = [hand EXCEPT ![b] = h]
      <4>1. hand'[b] = h /\ \A x \in Buckets : x # b => hand'[x] = hand[x]
        BY <3>6 DEF TypeOK
      <4>2. \A x \in Buckets : hand[x] # h
        <5>1. h # NoRequest
          BY <3>1, HeadTailProperties, NoRequestAssumption
        <5> QED BY <3>3, <5>1, OnePlaceSplit
      <4>3. Elems(queue[b]) = Elems(q)
        OBVIOUS
      <4> HIDE DEF q, h, t
      <4>4. \A x \in Buckets : Elems(queue'[x]) \subseteq Elems(queue[x])
        BY <3>3, <3>4, <4>3
      <4>5. \A x \in Buckets : h \notin Elems(queue'[x])
        BY <3>3, <3>4, <4>3, OnePlaceSplit
      <4>6. \A x, y \in Buckets : hand'[x] # NoRequest =>
              hand'[x] \notin Elems(queue'[y]) /\ (hand'[x] = hand'[y] => x = y)
        BY <4>1, <4>2, <4>4, <4>5, OnePlaceSplit
      <4>7. \A x, y \in Buckets : x # y => Elems(queue'[x]) \cap Elems(queue'[y]) = {}
        BY <4>4, OnePlaceSplit
      <4>8. \A x \in Buckets : Distinct(queue'[x])
        BY <3>3, <3>4, OnePlaceSplit
      <4> QED BY <4>6, <4>7, <4>8, OnePlaceSplit
    <3> QED BY <2>3, <3>5, <3>6 DEF Pop
  <2>4. ASSUME NEW b \in Buckets,
               PopEmpty(b) \/ WakeUp(b) \/ IdleExpire(b) \/ Stopped(b)
                 \/ SlotElapsed(b) \/ Grant(b) \/ DeleteBucket(b)
        PROVE  OnePlace'
    <3>1. \A x \in Buckets : queue'[x] = queue[x] \/ queue'[x] = << >>
      BY <2>4 DEF PopEmpty, WakeUp, IdleExpire, Stopped, SlotElapsed, Grant,
                  DeleteBucket, TypeOK
    <3>2. \A x \in Buckets : hand'[x] = hand[x] \/ hand'[x] = NoRequest
      BY <2>4 DEF PopEmpty, WakeUp, IdleExpire, Stopped, SlotElapsed, Grant,
                  DeleteBucket, TypeOK
    <3> QED BY <3>1, <3>2, OnePlaceShrinks
  <2>5. CASE \/ \E r \in Requests : Return(r) \/ CtxDone(r)
             \/ SweepIdle \/ ReaperStop \/ Close \/ Tick \/ UNCHANGED vars
    <3>1. /\ hand' = hand
          /\ \A x \in Buckets : queue'[x] = queue[x] \/ queue'[x] = << >>
      BY <2>5 DEF Return, CtxDone, SweepIdle, ReaperStop, Close, Tick, vars, bucketVars
    <3> QED BY <3>1, OnePlaceShrinks
  <2> QED BY <2>1, <2>2, <2>3, <2>4, <2>5
          DEF Next, WorkerStep, IdleStop, SlotStop
<1> QED BY <1>1, <1>2, TypeCorrect, PTL DEF Spec

-----------------------------------------------------------------------------
(* Outcomes.                                                               *)

\* A delivered request that the limiter still referred to afterwards would
\* be answered twice: no step does that (ratelimit.go:236-280, 299-312,
\* 398-406).
THEOREM PendingCorrect == Spec => []PendingUnanswered
<1>1. Init => PendingUnanswered
  BY DEF Init, PendingUnanswered
<1>2. TypeOK /\ OnePlace /\ PendingUnanswered /\ [Next]_vars => PendingUnanswered'
  <2> SUFFICES ASSUME TypeOK, OnePlace, PendingUnanswered, [Next]_vars,
                      NEW x \in Requests, Referenced(x)'
               PROVE  ready'[x] = "empty"
    BY DEF PendingUnanswered
  <2>a. Referenced(x)' <=> \E b \in Buckets : x \in Elems(queue'[b]) \/ hand'[b] = x
    BY DEF Referenced, Queued, Elems
  <2>b. Referenced(x) <=> \E b \in Buckets : x \in Elems(queue[b]) \/ hand[b] = x
    BY DEF Referenced, Queued, Elems
  <2>c. Referenced(x) => ready[x] = "empty"
    BY DEF PendingUnanswered
  <2>d. x # NoRequest
    BY NoRequestAssumption
  <2>0. ASSUME NEW r \in Requests, NEW b \in Buckets, NEW reset \in BOOLEAN,
               ~Referenced(r), Enqueue(r, b, reset)
        PROVE  ready'[x] = "empty"
    <3> DEFINE q == queue[b]
               n == Append(Kept(q), r)
    <3>1. CASE x = r
      BY <2>0, <3>1 DEF Enqueue, Deliver
    <3>2. CASE x # r
      <4>1. q \in Seq(Requests) /\ Len(q) <= QueueCap
        BY DEF TypeOK
      <4>2. r \notin Elems(q) /\ Distinct(q)
        BY <2>0, OnePlaceSplit DEF Referenced, Queued, Elems
      <4>3. /\ Elems(n) \subseteq Elems(q) \cup {r}
            /\ Evicted(q) \subseteq Elems(q)
            /\ Evicted(q) \cap Elems(n) = {}
        BY <4>1, <4>2, EnqueueFacts, EnqueueDistinct
      <4>4. /\ hand' = hand /\ queue'[b] = n
            /\ \A y \in Buckets : y # b => queue'[y] = queue[y]
            /\ ready'[x] = Deliver(Evicted(q), "full")[x]
        BY <2>0, <3>2 DEF Enqueue, TypeOK, Deliver
      <4> HIDE DEF n
      <4>5. Referenced(x)
        BY <2>a, <2>b, <3>2, <4>3, <4>4
      <4>6. x \notin Evicted(q)
        BY <2>a, <2>d, <4>3, <4>4, OnePlaceSplit
      <4> QED BY <2>c, <4>4, <4>5, <4>6 DEF Deliver
    <3> QED BY <3>1, <3>2
  <2>1. ASSUME NEW r \in Requests, NEW c \in Chats, WaitKnown(r, c)
        PROVE  ready'[x] = "empty"
    BY <2>0, <2>1 DEF WaitKnown, TypeOK
  <2>2. ASSUME NEW r \in Requests, NEW c \in Chats, WaitNew(r, c)
        PROVE  ready'[x] = "empty"
    BY <2>0, <2>2 DEF WaitNew
  <2>3. ASSUME NEW r \in Requests, Return(r) PROVE ready'[x] = "empty"
    <3>1. Referenced(x)
      BY <2>3, <2>a, <2>b DEF Return, bucketVars
    <3> QED BY <2>3, <2>c, <3>1 DEF Return, TypeOK
  <2>4. ASSUME NEW b \in Buckets, Pop(b) PROVE ready'[x] = "empty"
    <3>1. /\ Head(queue[b]) \in Elems(queue[b])
          /\ Elems(Tail(queue[b])) \subseteq Elems(queue[b])
      BY <2>4, PopFacts DEF Pop, TypeOK
    <3>2. /\ \A y \in Buckets : hand'[y] = hand[y] \/ (y = b /\ hand'[y] = Head(queue[b]))
          /\ \A y \in Buckets : queue'[y] = queue[y] \/ (y = b /\ queue'[y] = Tail(queue[b]))
      BY <2>4 DEF Pop, TypeOK
    <3>3. Referenced(x)
      BY <2>a, <2>b, <3>1, <3>2
    <3> QED BY <2>4, <2>c, <3>3 DEF Pop, callVars
  <2>5. ASSUME NEW b \in Buckets, Stopped(b) PROVE ready'[x] = "empty"
    <3>1. /\ hand'[b] = NoRequest /\ queue'[b] = << >>
          /\ \A y \in Buckets : y # b => hand'[y] = hand[y] /\ queue'[y] = queue[y]
      BY <2>5 DEF Stopped, TypeOK
    <3>2. Elems(<< >>) = {}
      BY DEF Elems
    <3>3. PICK y \in Buckets : y # b /\ (x \in Elems(queue[y]) \/ hand[y] = x)
      BY <2>a, <2>d, <3>1, <3>2
    <3>4. x \notin Elems(queue[b]) /\ hand[b] # x
      BY <2>d, <3>3, OnePlaceSplit
    <3>5. Referenced(x)
      BY <2>b, <3>3
    <3>6. ready' = Deliver(Queued(b) \cup {hand[b]}, "closed") /\ Queued(b) = Elems(queue[b])
      BY <2>5 DEF Stopped, Queued, Elems
    <3> QED BY <2>c, <3>4, <3>5, <3>6 DEF Deliver
  <2>6. ASSUME NEW b \in Buckets, Grant(b) PROVE ready'[x] = "empty"
    <3>1. /\ hand'[b] = NoRequest /\ queue' = queue
          /\ \A y \in Buckets : y # b => hand'[y] = hand[y]
      BY <2>6 DEF Grant, TypeOK
    <3>2. hand[b] # x
      BY <2>a, <2>d, <3>1, OnePlaceSplit
    <3>3. Referenced(x)
      BY <2>a, <2>b, <2>d, <3>1
    <3> QED BY <2>6, <2>c, <3>2, <3>3 DEF Grant, Deliver
  <2>7. ASSUME NEW b \in Buckets,
               PopEmpty(b) \/ WakeUp(b) \/ IdleExpire(b) \/ SlotElapsed(b)
                 \/ DeleteBucket(b)
        PROVE  ready'[x] = "empty"
    <3>1. /\ queue' = queue /\ ready' = ready
          /\ \A y \in Buckets : hand'[y] = hand[y] \/ hand'[y] = NoRequest
      BY <2>7 DEF PopEmpty, WakeUp, IdleExpire, SlotElapsed, DeleteBucket,
                  callVars, TypeOK
    <3> QED BY <2>a, <2>b, <2>c, <2>d, <3>1
  <2>8. CASE Close
    <3> DEFINE mapped == {bucketOf[c] : c \in Chats} \ {NoBucket}
    <3>1. /\ hand' = hand
          /\ queue' = [b \in Buckets |-> IF b \in mapped THEN << >> ELSE queue[b]]
          /\ ready' = Deliver(UNION {Queued(b) : b \in mapped}, "closed")
          /\ mapped \subseteq Buckets
      BY <2>8 DEF Close, TypeOK
    <3> HIDE DEF mapped
    <3>2. Elems(<< >>) = {}
      BY DEF Elems
    <3>3. PICK y \in Buckets : (x \in Elems(queue[y]) /\ y \notin mapped) \/ hand[y] = x
      BY <2>a, <3>1, <3>2
    <3>4. \A b \in mapped : x \notin Queued(b)
      <4>1. \A b \in mapped : x \notin Elems(queue[b])
        BY <2>d, <3>1, <3>3, OnePlaceSplit
      <4> QED BY <4>1 DEF Queued, Elems
    <3>5. Referenced(x)
      BY <2>b, <3>3
    <3> QED BY <2>c, <3>1, <3>4, <3>5 DEF Deliver
  <2>9. CASE \/ \E r \in Requests : CtxDone(r)
             \/ SweepIdle \/ ReaperStop \/ Tick \/ UNCHANGED vars
    <3>1. hand' = hand /\ queue' = queue /\ ready' = ready
      BY <2>9 DEF CtxDone, SweepIdle, ReaperStop, Tick, vars, bucketVars, callVars
    <3> QED BY <2>a, <2>b, <2>c, <3>1
  <2> QED BY <2>1, <2>2, <2>3, <2>4, <2>5, <2>6, <2>7, <2>8, <2>9
          DEF Next, WorkerStep, IdleStop, SlotStop
<1> QED BY <1>1, <1>2, TypeCorrect, OnePlaceCorrect, PTL DEF Spec

\* A request in a queue or in a hand is there once and has no outcome yet
\* (ratelimit.go:236-241, 387-396): no answer is dropped or given twice.
THEOREM HeldOnceCorrect == Spec => []HeldOnce
BY OnePlaceCorrect, PendingCorrect, PTL DEF HeldOnce

\* The caller of a canceled request has left Wait (ratelimit.go:125-133).
CanceledGone == canceled \cap waiting = {}

THEOREM CanceledGoneCorrect == Spec => []CanceledGone
<1>1. Init => CanceledGone
  BY DEF Init, CanceledGone
<1>2. CanceledGone /\ [Next]_vars => CanceledGone'
  <2> SUFFICES ASSUME CanceledGone, [Next]_vars PROVE CanceledGone'
    OBVIOUS
  <2>1. ASSUME NEW r, NEW b, NEW reset, Enqueue(r, b, reset) PROVE CanceledGone'
    BY <2>1 DEF Enqueue, CanceledGone
  <2>2. ASSUME NEW r \in Requests, NEW c \in Chats, WaitKnown(r, c) \/ WaitNew(r, c)
        PROVE  CanceledGone'
    BY <2>1, <2>2 DEF WaitKnown, WaitNew
  <2>3. ASSUME NEW r \in Requests, Return(r) \/ CtxDone(r) PROVE CanceledGone'
    BY <2>3 DEF Return, CtxDone, CanceledGone
  <2>4. CASE \/ \E b \in Buckets : WorkerStep(b) \/ DeleteBucket(b)
             \/ SweepIdle \/ ReaperStop \/ Close \/ Tick \/ UNCHANGED vars
    <3>1. waiting' = waiting /\ canceled' = canceled
      BY <2>4 DEF WorkerStep, Pop, PopEmpty, WakeUp, IdleExpire, IdleStop, SlotStop,
                  Stopped, SlotElapsed, Grant, DeleteBucket, SweepIdle, ReaperStop,
                  Close, Tick, vars, callVars
    <3> QED BY <3>1 DEF CanceledGone
  <2> QED BY <2>2, <2>3, <2>4 DEF Next
<1> QED BY <1>1, <1>2, PTL DEF Spec

\* No waiting caller without an outcome is ever dropped: not by the eviction,
\* the worker's exit, the reaper, deleteBucket or Close.
THEOREM NoLostRequestCorrect == Spec => []NoLostRequest
<1>1. Init => NoLostRequest
  BY DEF Init, NoLostRequest
<1>2. TypeOK /\ WorkerShape /\ CanceledGone /\ NoLostRequest /\ [Next]_vars
        => NoLostRequest'
  <2> SUFFICES ASSUME TypeOK, WorkerShape, CanceledGone, NoLostRequest, [Next]_vars,
                      NEW x \in Requests, x \in waiting', ready'[x] = "empty"
               PROVE  \E b \in Buckets :
                        worker'[b] # "none" /\ (x \in Elems(queue'[b]) \/ hand'[b] = x)
    BY DEF NoLostRequest, Queued, Elems
  <2> DEFINE Goal == \E b \in Buckets :
               worker'[b] # "none" /\ (x \in Elems(queue'[b]) \/ hand'[b] = x)
  <2>a. ASSUME x \in waiting, ready[x] = "empty"
        PROVE  \E b \in Buckets :
                 worker[b] # "none" /\ (x \in Elems(queue[b]) \/ hand[b] = x)
    BY <2>a DEF NoLostRequest, Queued, Elems
  <2>b. x # NoRequest
    BY NoRequestAssumption
  <2>c. \A rs, o : o \in Outcomes /\ ready' = Deliver(rs, o)
          => x \notin rs /\ ready[x] = "empty"
    <3> SUFFICES ASSUME NEW rs, NEW o, o \in Outcomes, ready' = Deliver(rs, o)
                 PROVE  x \notin rs /\ ready[x] = "empty"
      OBVIOUS
    <3> QED BY DEF Deliver, Outcomes
  <2>0. ASSUME NEW r \in Requests, NEW b \in Buckets, NEW reset \in BOOLEAN,
               Enqueue(r, b, reset)
        PROVE  Goal
    <3> DEFINE q == queue[b]
               n == Append(Kept(q), r)
    <3>1. q \in Seq(Requests) /\ Len(q) <= QueueCap
      BY DEF TypeOK
    <3>2. r \in Elems(n) /\ Elems(q) \subseteq Elems(n) \cup Evicted(q)
      BY <3>1, EnqueueFacts
    <3>3. /\ hand' = hand /\ queue'[b] = n
          /\ \A y \in Buckets : y # b => queue'[y] = queue[y]
          /\ worker'[b] # "none"
          /\ \A y \in Buckets : y # b => worker'[y] = worker[y]
      BY <2>0 DEF Enqueue, TypeOK
    <3> HIDE DEF n
    <3>4. CASE x = r
      BY <3>2, <3>3, <3>4
    <3>5. CASE x # r
      <4>1. x \in waiting /\ ready'[x] = Deliver(Evicted(q), "full")[x]
        BY <2>0, <3>5 DEF Enqueue, Deliver
      <4>2. ready[x] = "empty" /\ x \notin Evicted(q)
        BY <4>1 DEF Deliver
      <4>3. PICK y \in Buckets :
              worker[y] # "none" /\ (x \in Elems(queue[y]) \/ hand[y] = x)
        BY <2>a, <4>1, <4>2
      <4>4. worker'[y] # "none" /\ (x \in Elems(queue'[y]) \/ hand'[y] = x)
        BY <3>2, <3>3, <4>2, <4>3
      <4> QED BY <4>4
    <3> QED BY <3>4, <3>5
  <2>1. ASSUME NEW r \in Requests, NEW c \in Chats, WaitKnown(r, c)
        PROVE  Goal
    BY <2>0, <2>1 DEF WaitKnown, TypeOK
  <2>2. ASSUME NEW r \in Requests, NEW c \in Chats, WaitNew(r, c)
        PROVE  Goal
    BY <2>0, <2>2 DEF WaitNew
  <2>3. ASSUME NEW r \in Requests, Return(r) \/ CtxDone(r) PROVE Goal
    <3>1. x \in waiting /\ ready[x] = "empty"
      BY <2>3 DEF Return, CtxDone, TypeOK
    <3>2. worker' = worker /\ queue' = queue /\ hand' = hand
      BY <2>3 DEF Return, CtxDone, bucketVars
    <3> QED BY <2>a, <3>1, <3>2
  <2>4. ASSUME NEW b \in Buckets, Pop(b) PROVE Goal
    <3> DEFINE h == Head(queue[b])
    <3>1. x \in waiting /\ ready[x] = "empty"
      BY <2>4 DEF Pop, callVars
    <3>2. PICK y \in Buckets :
            worker[y] # "none" /\ (x \in Elems(queue[y]) \/ hand[y] = x)
      BY <2>a, <3>1
    <3>3. Elems(queue[b]) \subseteq Elems(Tail(queue[b])) \cup {h}
      BY <2>4, PopFacts DEF Pop, TypeOK
    <3>4. /\ queue'[b] = Tail(queue[b]) /\ worker'[b] # "none"
          /\ h \in canceled \/ hand'[b] = h
          /\ hand[b] = NoRequest
          /\ \A z \in Buckets : z # b =>
               queue'[z] = queue[z] /\ worker'[z] = worker[z] /\ hand'[z] = hand[z]
      BY <2>4 DEF Pop, TypeOK, WorkerShape
    <3>5. x \notin canceled
      BY <3>1 DEF CanceledGone
    <3> HIDE DEF h
    <3>6. worker'[y] # "none" /\ (x \in Elems(queue'[y]) \/ hand'[y] = x)
      BY <2>b, <3>2, <3>3, <3>4, <3>5
    <3> QED BY <3>6
  <2>5. ASSUME NEW b \in Buckets,
               PopEmpty(b) \/ WakeUp(b) \/ IdleExpire(b) \/ DeleteBucket(b)
        PROVE  Goal
    <3>1. /\ waiting' = waiting /\ ready' = ready /\ queue' = queue /\ hand' = hand
          /\ \A z \in Buckets :
               worker[z] # "none" =>
                 \/ worker'[z] # "none"
                 \/ (queue[z] = << >> /\ hand[z] = NoRequest)
      BY <2>5 DEF PopEmpty, WakeUp, IdleExpire, DeleteBucket, callVars, TypeOK,
                  WorkerShape
    <3>2. Elems(<< >>) = {}
      BY DEF Elems
    <3> QED BY <2>a, <2>b, <3>1, <3>2
  <2>6. ASSUME NEW b \in Buckets, Stopped(b) PROVE Goal
    <3>1. /\ ready' = Deliver(Queued(b) \cup {hand[b]}, "closed")
          /\ waiting' = waiting
          /\ \A z \in Buckets : z # b =>
               queue'[z] = queue[z] /\ worker'[z] = worker[z] /\ hand'[z] = hand[z]
      BY <2>6 DEF Stopped, TypeOK
    <3>2. x \notin Queued(b) /\ x # hand[b] /\ ready[x] = "empty"
      BY <2>c, <3>1 DEF Outcomes
    <3>3. x \notin Elems(queue[b])
      BY <3>2 DEF Queued, Elems
    <3> QED BY <2>a, <3>1, <3>2, <3>3
  <2>7. ASSUME NEW b \in Buckets, SlotElapsed(b) PROVE Goal
    <3>1. /\ waiting' = waiting /\ ready' = ready /\ queue' = queue
          /\ worker'[b] # "none"
          /\ hand'[b] = hand[b] \/ hand[b] \in canceled
          /\ \A z \in Buckets : z # b => worker'[z] = worker[z] /\ hand'[z] = hand[z]
      BY <2>7 DEF SlotElapsed, callVars, TypeOK
    <3>2. x \notin canceled
      BY <3>1 DEF CanceledGone
    <3> QED BY <2>a, <3>1, <3>2
  <2>8. ASSUME NEW b \in Buckets, Grant(b) PROVE Goal
    <3>1. /\ waiting' = waiting /\ ready' = Deliver({hand[b]}, "ok") /\ queue' = queue
          /\ worker'[b] # "none"
          /\ \A z \in Buckets : z # b => worker'[z] = worker[z] /\ hand'[z] = hand[z]
      BY <2>8 DEF Grant, TypeOK
    <3>2. x # hand[b] /\ ready[x] = "empty"
      BY <2>c, <3>1 DEF Outcomes
    <3> QED BY <2>a, <3>1, <3>2
  <2>9. CASE Close
    <3> DEFINE mapped == {bucketOf[c] : c \in Chats} \ {NoBucket}
    <3>1. /\ hand' = hand /\ worker' = worker /\ waiting' = waiting
          /\ queue' = [b \in Buckets |-> IF b \in mapped THEN << >> ELSE queue[b]]
          /\ ready' = Deliver(UNION {Queued(b) : b \in mapped}, "closed")
      BY <2>9 DEF Close
    <3> HIDE DEF mapped
    <3>2. ready[x] = "empty" /\ x \notin UNION {Queued(b) : b \in mapped}
      BY <2>c, <3>1 DEF Outcomes
    <3>3. \A b \in mapped : x \notin Elems(queue[b])
      BY <3>2 DEF Queued, Elems
    <3> QED BY <2>a, <3>1, <3>2, <3>3
  <2>10. CASE SweepIdle \/ ReaperStop \/ Tick \/ UNCHANGED vars
    <3>1. /\ waiting' = waiting /\ ready' = ready
          /\ worker' = worker /\ queue' = queue /\ hand' = hand
      BY <2>10 DEF SweepIdle, ReaperStop, Tick, vars, bucketVars, callVars
    <3> QED BY <2>a, <3>1
  <2> QED BY <2>1, <2>2, <2>3, <2>4, <2>5, <2>6, <2>7, <2>8, <2>9, <2>10
          DEF Next, WorkerStep, IdleStop, SlotStop
<1> QED BY <1>1, <1>2, TypeCorrect, ShapeCorrect, CanceledGoneCorrect, PTL DEF Spec

-----------------------------------------------------------------------------
(* The pause of a chat.                                                    *)

\* A worker that waits for work has waited out its pause when its timer fires;
\* who has left has no pause to remember; and the pause of a chat is counted
\* down by a worker that is there.
IdlePause == \A b \in Buckets : worker[b] = "idle" => hold[b] = 0 \/ hold[b] + idleFor[b] <= Rate
GonePause == ~closed => \A b \in Buckets : worker[b] = "none" => hold[b] = 0
LivePause ==
  ~closed => \A c \in Chats : sinceGrant[c] < Rate =>
    \E b \in Buckets : chatOf[b] = c /\ worker[b] # "none" /\ hold[b] = Rate - sinceGrant[c]

PauseInv == IdlePause /\ GonePause /\ LivePause

\* A step that takes no time, grants nothing and ends no worker.
LEMMA PauseKept ==
  ASSUME TypeOK, PauseInv, UNCHANGED sinceGrant, closed' = closed \/ closed',
         \A b \in Buckets :
           \/ /\ chatOf'[b] = chatOf[b] /\ hold'[b] = hold[b]
              /\ worker[b] # "none" => worker'[b] # "none"
              /\ worker'[b] = "idle" => worker[b] = "idle" /\ idleFor'[b] = idleFor[b]
           \/ worker[b] = "none" /\ worker'[b] # "idle" /\ hold'[b] = 0
  PROVE  PauseInv'
<1> USE DEF PauseInv
<1> Rate \in Nat \ {0}
  BY RateAssumption
<1>1. IdlePause'
  BY DEF IdlePause
<1>2. GonePause'
  BY DEF GonePause
<1>3. LivePause'
  <2> SUFFICES ASSUME ~closed', NEW c \in Chats, sinceGrant[c] < Rate
               PROVE  \E b \in Buckets : /\ chatOf'[b] = c /\ worker'[b] # "none"
                                         /\ hold'[b] = Rate - sinceGrant[c]
    BY DEF LivePause
  <2>1. PICK b \in Buckets : chatOf[b] = c /\ worker[b] # "none" /\ hold[b] = Rate - sinceGrant[c]
    BY DEF LivePause
  <2> QED BY <2>1
<1> QED BY <1>1, <1>2, <1>3

\* One step, when the timer of an idle worker is no shorter than the pause.
LEMMA StepPause ==
  ASSUME TypeOK, PauseInv, Next, IdleTimeout >= Rate
  PROVE  PauseInv'
<1> USE DEF PauseInv
<1>0. /\ Rate \in Nat \ {0} /\ IdleTimeout \in Nat \ {0}
      /\ \A b \in Buckets : hold[b] \in 0..Rate /\ idleFor[b] \in 0..IdleTimeout
      /\ \A c \in Chats : sinceGrant[c] \in 0..Rate
  BY RateAssumption, IdleTimeoutAssumption DEF TypeOK
<1>1. ASSUME NEW r \in Requests, NEW c \in Chats, WaitKnown(r, c) \/ WaitNew(r, c)
      PROVE  PauseInv'
  <2>1. CASE WaitKnown(r, c)
    <3>1. \A b \in Buckets : /\ worker'[b] \in {worker[b], "pop"}
                             /\ worker[b] # "none" => worker'[b] = worker[b]
      BY <2>1 DEF WaitKnown, Enqueue, TypeOK
    <3> QED BY <2>1, <3>1, PauseKept DEF WaitKnown, Enqueue
  <2>2. CASE WaitNew(r, c)
    <3>1. PICK b \in Buckets : /\ Unused(b)
                               /\ chatOf' = [chatOf EXCEPT ![b] = c]
                               /\ Enqueue(r, b, TRUE)
      BY <2>2 DEF WaitNew
    <3>2. /\ worker[b] = "none" /\ worker'[b] = "pop" /\ hold'[b] = 0
          /\ \A a \in Buckets : a # b => /\ worker'[a] = worker[a] /\ hold'[a] = hold[a]
                                         /\ chatOf'[a] = chatOf[a]
      BY <3>1 DEF Unused, Enqueue, TypeOK
    <3> QED BY <3>1, <3>2, PauseKept DEF Enqueue
  <2> QED BY <1>1, <2>1, <2>2
<1>2. ASSUME NEW r \in Requests, Return(r) \/ CtxDone(r) PROVE PauseInv'
  BY <1>2, PauseKept DEF Return, CtxDone, limVars, bucketVars, timeVars
<1>3. ASSUME NEW b \in Buckets, Pop(b) \/ WakeUp(b) \/ SlotElapsed(b) \/ DeleteBucket(b)
      PROVE  PauseInv'
  <2>1. /\ \A a \in Buckets : /\ a # b => worker'[a] = worker[a] /\ idleFor'[a] = idleFor[a]
                              /\ worker[b] # "none" => worker'[b] # "none"
                              /\ worker'[b] = "idle" => worker[b] = "idle" /\ idleFor'[b] = idleFor[b]
        /\ UNCHANGED <<closed, chatOf, hold, sinceGrant>>
    BY <1>3 DEF Pop, WakeUp, SlotElapsed, DeleteBucket, limVars, timeVars, TypeOK
  <2> QED BY <2>1, PauseKept
<1>4. ASSUME NEW b \in Buckets, PopEmpty(b) PROVE PauseInv'
  <2>1. /\ worker[b] = "pop" /\ worker'[b] = "idle" /\ idleFor'[b] = 0
        /\ \A a \in Buckets : a # b => worker'[a] = worker[a] /\ idleFor'[a] = idleFor[a]
        /\ UNCHANGED <<closed, chatOf, hold, sinceGrant>>
    BY <1>4 DEF PopEmpty, limVars, TypeOK
  <2>2. IdlePause'
    BY <1>0, <2>1 DEF IdlePause
  <2>3. GonePause' /\ LivePause'
    BY <2>1 DEF GonePause, LivePause
  <2> QED BY <2>2, <2>3
<1>5. ASSUME NEW b \in Buckets, IdleExpire(b) PROVE PauseInv'
  <2>1. /\ worker[b] = "idle" /\ idleFor[b] = IdleTimeout /\ worker'[b] # "idle"
        /\ \A a \in Buckets : a # b => worker'[a] = worker[a] /\ idleFor'[a] = idleFor[a]
        /\ UNCHANGED <<closed, chatOf, hold, sinceGrant>>
    BY <1>5 DEF IdleExpire, limVars, TypeOK
  <2>2. hold[b] = 0
    BY <1>0, <2>1 DEF IdlePause
  <2>3. IdlePause' /\ GonePause'
    BY <2>1, <2>2 DEF IdlePause, GonePause
  <2>4. LivePause'
    <3> SUFFICES ASSUME ~closed, NEW c \in Chats, sinceGrant[c] < Rate
                 PROVE  \E a \in Buckets : /\ chatOf[a] = c /\ worker'[a] # "none"
                                           /\ hold[a] = Rate - sinceGrant[c]
      BY <2>1 DEF LivePause
    <3>1. PICK a \in Buckets : chatOf[a] = c /\ worker[a] # "none" /\ hold[a] = Rate - sinceGrant[c]
      BY DEF LivePause
    <3>2. a # b
      BY <1>0, <2>2, <3>1
    <3> QED BY <2>1, <3>1, <3>2
  <2> QED BY <2>3, <2>4
<1>6. ASSUME NEW b \in Buckets, IdleStop(b) \/ SlotStop(b) PROVE PauseInv'
  <2>1. /\ closed /\ closed' /\ worker'[b] = "none"
        /\ \A a \in Buckets : a # b => worker'[a] = worker[a] /\ idleFor'[a] = idleFor[a]
        /\ UNCHANGED hold
    BY <1>6 DEF IdleStop, SlotStop, Stopped, limVars, TypeOK
  <2> QED BY <2>1 DEF IdlePause, GonePause, LivePause
<1>7. ASSUME NEW b \in Buckets, Grant(b) PROVE PauseInv'
  <2>1. /\ worker[b] = "grant" /\ worker'[b] = "pop" /\ hold'[b] = Rate
        /\ chatOf[b] \in Chats /\ sinceGrant'[chatOf[b]] = 0
        /\ \A a \in Buckets : a # b => worker'[a] = worker[a] /\ hold'[a] = hold[a]
        /\ \A c \in Chats : c # chatOf[b] => sinceGrant'[c] = sinceGrant[c]
        /\ UNCHANGED <<closed, chatOf, idleFor>>
    BY <1>7 DEF Grant, limVars, TypeOK
  <2>2. IdlePause' /\ GonePause'
    BY <2>1 DEF IdlePause, GonePause
  <2>3. LivePause'
    <3> SUFFICES ASSUME ~closed, NEW c \in Chats, sinceGrant'[c] < Rate
                 PROVE  \E a \in Buckets : /\ chatOf[a] = c /\ worker'[a] # "none"
                                           /\ hold'[a] = Rate - sinceGrant'[c]
      BY <2>1 DEF LivePause
    <3>1. CASE c = chatOf[b]
      BY <1>0, <2>1, <3>1
    <3>2. CASE c # chatOf[b]
      <4>1. PICK a \in Buckets : chatOf[a] = c /\ worker[a] # "none" /\ hold[a] = Rate - sinceGrant[c]
        BY <2>1, <3>2 DEF LivePause
      <4> QED BY <2>1, <3>2, <4>1
    <3> QED BY <3>1, <3>2
  <2> QED BY <2>2, <2>3
<1>8. CASE SweepIdle \/ ReaperStop \/ Close
  BY <1>8, PauseKept DEF SweepIdle, ReaperStop, Close, bucketVars, timeVars
<1>9. CASE Tick
  <2>1. /\ UNCHANGED <<closed, chatOf, worker>>
        /\ \A b \in Buckets : /\ hold'[b] = IF hold[b] > 0 THEN hold[b] - 1 ELSE 0
                              /\ idleFor'[b] \in {idleFor[b], idleFor[b] + 1}
        /\ \A c \in Chats : sinceGrant'[c] = IF sinceGrant[c] < Rate THEN sinceGrant[c] + 1
                                             ELSE sinceGrant[c]
    BY <1>9 DEF Tick, limVars, bucketVars
  <2>2. IdlePause' /\ GonePause'
    BY <1>0, <2>1 DEF IdlePause, GonePause
  <2>3. LivePause'
    <3> SUFFICES ASSUME ~closed, NEW c \in Chats, sinceGrant'[c] < Rate
                 PROVE  \E b \in Buckets : /\ chatOf[b] = c /\ worker[b] # "none"
                                           /\ hold'[b] = Rate - sinceGrant'[c]
      BY <2>1 DEF LivePause
    <3>1. sinceGrant[c] < Rate /\ sinceGrant'[c] = sinceGrant[c] + 1
      BY <1>0, <2>1
    <3>2. PICK b \in Buckets : chatOf[b] = c /\ worker[b] # "none" /\ hold[b] = Rate - sinceGrant[c]
      BY <3>1 DEF LivePause
    <3> QED BY <1>0, <2>1, <3>1, <3>2
  <2> QED BY <2>2, <2>3
<1> QED BY <1>1, <1>2, <1>3, <1>4, <1>5, <1>6, <1>7, <1>8, <1>9 DEF Next, WorkerStep

\* Within Rate of a grant the bucket that granted has a worker which counts the
\* pause down, if idle workers wait no shorter than the pause lasts, as they do
\* with the values main uses (5 min and 4 s).
THEOREM PauseRememberedCorrect ==
  ASSUME IdleTimeout >= Rate
  PROVE  Spec => []PauseRemembered
<1>1. Init => PauseInv
  BY RateAssumption DEF Init, PauseInv, IdlePause, GonePause, LivePause
<1>2. TypeOK /\ PauseInv /\ [Next]_vars => PauseInv'
  <2> SUFFICES ASSUME TypeOK, PauseInv, [Next]_vars PROVE PauseInv'
    OBVIOUS
  <2>1. CASE UNCHANGED vars
    BY <2>1, PauseKept DEF vars, limVars, bucketVars, timeVars
  <2> QED BY <2>1, StepPause
<1>3. PauseInv => PauseRemembered
  BY DEF PauseInv, LivePause, PauseRemembered
<1> QED BY <1>1, <1>2, <1>3, TypeCorrect, PTL DEF Spec
=============================================================================
