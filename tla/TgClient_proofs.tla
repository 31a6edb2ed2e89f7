-------------------------- MODULE TgClient_proofs --------------------------
(***************************************************************************)
(* Proofs about calls of Telegram for any number of calls and chats, any   *)
(* budgets and any number of redirects.                                    *)
(***************************************************************************)
EXTENDS TgClient, TLAPS

USE BudgetAssumption, RoundsAssumption, NoChatAssumption, ServerBudgetAssumption

Places == {"idle", "slot", "attempt", "wire", "backoff", "redirect", "done"}

Records == [server : Nat, transport : Nat, throttled : BOOLEAN]

\* A call that is under way has a chat, and one that is not follows nothing.
Addressed(c) == /\ pc[c] \notin {"idle", "done"} => chat[c] \in Chats
                /\ pc[c] \in {"idle", "done"} => rounds[c] = 0

\* Only an attempt on the wire has an answer; a success was carried out, and who
\* is redirected has a chat that moved.
AnswerFits(c) == /\ reply[c] # "none" => pc[c] = "wire"
                 /\ reply[c] = "ok" => shown[c] > 0
                 /\ pc[c] = "redirect" \/ reply[c] = "redirect" => moved[chat[c]] # NoChat

\* What a round may cost in attempts, and all of them before this one.
RoundTries(c) == ServerBudget + TransportBudget[c]
TriesBefore(c) == rounds[c] * RoundTries(c)

\* The ladder counts the attempts of the round.
TriesCounted(c) ==
  /\ pc[c] \in {"idle", "done"} => tries[c] = 0
  /\ pc[c] = "slot" => tries[c] <= TriesBefore(c)
  /\ pc[c] \in {"idle", "slot", "redirect"} => ladder[c] = FreshLadder
  /\ pc[c] \in {"attempt", "backoff"} => tries[c] + 1 <= TriesBefore(c) + Attempts(ladder[c])
  /\ pc[c] = "wire" => tries[c] <= TriesBefore(c) + Attempts(ladder[c])
  /\ pc[c] = "redirect" => tries[c] <= TriesBefore(c) + RoundTries(c)

\* A copy is seen for a transport failure that was retried, or for the answer
\* on the wire.
RoundCopies(c) == TransportBudget[c] - 1
CopiesBefore(c) == rounds[c] * RoundCopies(c)

CopiesCounted(c) ==
  /\ pc[c] = "idle" => shown[c] = 0
  /\ pc[c] = "slot" => shown[c] <= CopiesBefore(c)
  /\ pc[c] \in {"attempt", "backoff"} \/ (pc[c] = "wire" /\ reply[c] # "ok") =>
       shown[c] + 1 <= CopiesBefore(c) + ladder[c].transport
  /\ pc[c] = "wire" => shown[c] <= CopiesBefore(c) + ladder[c].transport
  /\ pc[c] = "redirect" => shown[c] <= CopiesBefore(c) + RoundCopies(c)
  /\ pc[c] = "done" => shown[c] <= MaxRounds * RoundCopies(c) + 1

CallFits(c) == Addressed(c) /\ AnswerFits(c) /\ TriesCounted(c) /\ CopiesCounted(c)

\* A chat is moved to from one other chat only.
MovedOnce ==
  /\ \A d \in Chats : moved[d] # d
  /\ \A d, e \in Chats : moved[d] # NoChat /\ moved[d] = moved[e] => d = e

ClientInv == /\ TypeOK /\ ladder \in [Calls -> Records]
             /\ \A c \in Calls : CallFits(c)
             /\ MovedOnce
             /\ SentWhole /\ ReplayAfterRewrite

----------------------------------------------------------------------------
LEMMA Times == \A r, k \in Nat : r * k \in Nat /\ (r + 1) * k = r * k + k
OBVIOUS

LEMMA Most == ASSUME NEW r \in Nat, NEW m \in Nat, NEW k \in Nat, r + 1 <= m
              PROVE  r * k + k <= m * k
<1>1. PICK j \in Nat : m = (r + 1) + j
  <2> WITNESS m - (r + 1) \in Nat
  <2> QED OBVIOUS
<1>2. m * k = (r + 1) * k + j * k
  BY <1>1
<1>3. j * k \in Nat /\ (r + 1) * k = r * k + k /\ r * k \in Nat
  BY Times
<1> QED BY <1>2, <1>3

\* The ladder stays within its budgets, and counts what it retries.
LEMMA AdvanceFacts ==
  ASSUME NEW b \in Nat \ {0}, NEW l \in Ladders(b), NEW kind \in FailureKinds,
         Retries(l, kind, b)
  PROVE  /\ Advance(l, kind) \in Ladders(b)
         /\ Attempts(Advance(l, kind)) = Attempts(l) + 1
         /\ Advance(l, kind).transport = l.transport + (IF kind = "transport" THEN 1 ELSE 0)
<1>1. CASE kind = "throttled"
  <2>1. Advance(l, kind) = [l EXCEPT !.throttled = TRUE] /\ ~l.throttled
    BY <1>1 DEF Retries, Advance
  <2>2. /\ Advance(l, kind) \in Ladders(b)
        /\ Advance(l, kind).server = l.server /\ Advance(l, kind).transport = l.transport
        /\ Advance(l, kind).throttled
    BY <2>1 DEF Ladders
  <2>3. l.server \in Nat /\ l.transport \in Nat
    BY DEF Ladders
  <2> QED BY <1>1, <2>1, <2>2, <2>3 DEF Attempts
<1>2. CASE kind = "server"
  BY <1>2 DEF Ladders, Retries, Advance, Attempts
<1>3. CASE kind = "transport"
  BY <1>3 DEF Ladders, Retries, Advance, Attempts
<1> QED BY <1>1, <1>2, <1>3 DEF FailureKinds, Retries

LEMMA AttemptsBound ==
  ASSUME NEW b \in Nat \ {0}, NEW l \in Ladders(b)
  PROVE  /\ Attempts(l) \in Nat /\ 1 <= Attempts(l) /\ Attempts(l) <= ServerBudget + b
         /\ l.transport \in Nat /\ l.transport <= b
BY DEF Ladders, Attempts

LEMMA FreshFacts ==
  ASSUME NEW b \in Nat \ {0}
  PROVE  FreshLadder \in Ladders(b) /\ Attempts(FreshLadder) = 1 /\ FreshLadder.transport = 1
BY DEF Ladders, FreshLadder, Attempts

LEMMA LaddersAre == ASSUME NEW b \in Nat \ {0} PROVE Ladders(b) \subseteq Records
BY DEF Ladders, Records

----------------------------------------------------------------------------
(* Types.                                                                  *)

\* Where a call ends all it had is reset.
LEMMA FinishType ==
  ASSUME TypeOK, ladder \in [Calls -> Records], NEW c \in Calls, NEW r \in Results, Finish(c, r)
  PROVE  /\ pc' \in [Calls -> Places]
         /\ chat' \in [Calls -> Chats \cup {NoChat}]
         /\ rounds' \in [Calls -> 0..(MaxRounds - 1)]
         /\ \A b \in Calls : ladder'[b] \in Ladders(TransportBudget[b])
         /\ ladder' \in [Calls -> Records]
         /\ result' \in [Calls -> Results]
         /\ expired' \in SUBSET Calls /\ uploaded' \in SUBSET Calls
         /\ tries' \in [Calls -> Nat]
<1>1. FreshLadder \in Ladders(TransportBudget[c]) /\ FreshLadder \in Records
  BY FreshFacts, LaddersAre
<1>2. \A b \in Calls : ladder'[b] \in Ladders(TransportBudget[b])
  BY <1>1 DEF Finish, TypeOK
<1>3. ladder' \in [Calls -> Records]
  BY <1>1 DEF Finish
<1> QED BY <1>2, <1>3 DEF Finish, TypeOK, Places

LEMMA FailedType ==
  ASSUME TypeOK, ladder \in [Calls -> Records], NEW c \in Calls, NEW kind \in FailureKinds,
         Failed(c, kind)
  PROVE  /\ pc' \in [Calls -> Places]
         /\ chat' \in [Calls -> Chats \cup {NoChat}]
         /\ rounds' \in [Calls -> 0..(MaxRounds - 1)]
         /\ \A b \in Calls : ladder'[b] \in Ladders(TransportBudget[b])
         /\ ladder' \in [Calls -> Records]
         /\ result' \in [Calls -> Results]
         /\ expired' \in SUBSET Calls /\ uploaded' \in SUBSET Calls
         /\ tries' \in [Calls -> Nat]
<1>1. CASE Finish(c, kind)
  BY <1>1, FinishType DEF Results
<1>2. CASE Retry(c, kind) /\ Retries(ladder[c], kind, TransportBudget[c])
  <2>1. ladder[c] \in Ladders(TransportBudget[c]) /\ TransportBudget[c] \in Nat \ {0}
    BY DEF TypeOK
  <2>2. Advance(ladder[c], kind) \in Ladders(TransportBudget[c])
    BY <1>2, <2>1, AdvanceFacts
  <2>3. Advance(ladder[c], kind) \in Records
    BY <2>1, <2>2, LaddersAre
  <2>4. ladder' = [ladder EXCEPT ![c] = Advance(ladder[c], kind)]
    BY <1>2 DEF Retry
  <2>5. \A b \in Calls : ladder'[b] \in Ladders(TransportBudget[b])
    BY <2>2, <2>4 DEF TypeOK
  <2>6. ladder' \in [Calls -> Records]
    BY <2>3, <2>4
  <2>7. /\ pc' \in [Calls -> Places] /\ uploaded' \in SUBSET Calls
        /\ UNCHANGED <<chat, rounds, tries, result, expired>>
    BY <1>2 DEF Retry, Goes, TypeOK, Places
  <2> QED BY <2>5, <2>6, <2>7 DEF TypeOK
<1> QED BY <1>1, <1>2 DEF Failed

LEMMA TypeStep ==
  ASSUME TypeOK, ladder \in [Calls -> Records], \A c \in Calls : CallFits(c), [Next]_vars
  PROVE  TypeOK' /\ ladder' \in [Calls -> Records]
<1> USE DEF Places
<1>1. ASSUME NEW c \in Calls, Start(c) \/ Slot(c) \/ Attempt(c) \/ Expire(c) \/ Process(c)
      PROVE  TypeOK' /\ ladder' \in [Calls -> Records]
  <2>1. CASE Start(c)
    BY <2>1 DEF Start, Goes, TypeOK, wireVars, dbVars
  <2>2. CASE Slot(c)
    BY <2>2 DEF Slot, Goes, TypeOK, wireVars, dbVars
  <2>3. CASE Attempt(c)
    BY <2>3 DEF Attempt, Goes, TypeOK, dbVars
  <2>4. CASE Expire(c)
    BY <2>4 DEF Expire, TypeOK, wireVars, dbVars
  <2>5. CASE Process(c)
    BY <2>5 DEF Process, TypeOK, dbVars
  <2> QED BY <1>1, <2>1, <2>2, <2>3, <2>4, <2>5
<1>2. ASSUME NEW c \in Calls, NoSlot(c) \/ Abort(c) \/ RedirectFails(c)
      PROVE  TypeOK' /\ ladder' \in [Calls -> Records]
  <2>1. Finish(c, "aborted") /\ UNCHANGED <<reply, shown, moved, dbVars>>
    BY <1>2 DEF NoSlot, Abort, RedirectFails
  <2> QED BY <2>1, FinishType DEF TypeOK, dbVars, Results
<1>3. ASSUME NEW c \in Calls, Answer(c)
      PROVE  TypeOK' /\ ladder' \in [Calls -> Records]
  <2>0. reply' \in [Calls -> Replies] /\ UNCHANGED <<shown, moved, dbVars>>
    BY <1>3 DEF Answer, TypeOK, Replies
  <2>1. CASE Finish(c, "ok")
    BY <2>0, <2>1, FinishType DEF TypeOK, dbVars, Results
  <2>2. CASE Redirected(c)
    <3>1. FreshLadder \in Ladders(TransportBudget[c]) /\ FreshLadder \in Records
      BY FreshFacts, LaddersAre
    <3>2. \A b \in Calls : ladder'[b] \in Ladders(TransportBudget[b])
      BY <2>2, <3>1 DEF Redirected, TypeOK
    <3>3. ladder' \in [Calls -> Records]
      BY <2>2, <3>1 DEF Redirected
    <3> QED BY <2>0, <2>2, <3>2, <3>3 DEF Redirected, Goes, TypeOK, dbVars
  <2>3. CASE reply[c] \in FailureKinds /\ Failed(c, reply[c])
    BY <2>0, <2>3, FailedType DEF TypeOK, dbVars
  <2> QED BY <1>3, <2>1, <2>2, <2>3 DEF Answer, TypeOK, Replies
<1>4. ASSUME NEW c \in Calls, Fault(c) \/ Canceled(c)
      PROVE  TypeOK' /\ ladder' \in [Calls -> Records]
  <2>0. /\ reply' \in [Calls -> Replies] /\ shown' \in [Calls -> Nat]
        /\ UNCHANGED <<moved, dbVars>>
    BY <1>4 DEF Fault, Canceled, Unanswered, TypeOK, Replies
  <2>1. CASE Failed(c, "transport")
    BY <2>0, <2>1, FailedType DEF TypeOK, dbVars, FailureKinds
  <2>2. CASE Finish(c, "aborted")
    BY <2>0, <2>2, FinishType DEF TypeOK, dbVars, Results
  <2> QED BY <1>4, <2>1, <2>2 DEF Fault, Canceled
<1>5. ASSUME NEW c \in Calls, WakeUp(c)
      PROVE  TypeOK' /\ ladder' \in [Calls -> Records]
  <2>1. CASE Finish(c, "aborted")
    BY <1>5, <2>1, FinishType DEF WakeUp, TypeOK, dbVars, Results
  <2>2. CASE Goes(c, "attempt") /\ UNCHANGED <<chat, rounds, ladder, uploaded, tries>>
    BY <1>5, <2>2 DEF WakeUp, Goes, TypeOK, dbVars
  <2> QED BY <1>5, <2>1, <2>2 DEF WakeUp
<1>6. ASSUME NEW c \in Calls, Redirect(c)
      PROVE  TypeOK' /\ ladder' \in [Calls -> Records]
  <2>0. chat[c] \in Chats /\ moved[chat[c]] \in Chats
    BY <1>6 DEF Redirect, CallFits, Addressed, AnswerFits, TypeOK
  <2>1. /\ reply' = reply /\ shown' = shown /\ moved' = moved /\ handling' = handling
        /\ records' \in SUBSET Chats /\ admins' \in SUBSET Chats /\ late' \in SUBSET Chats
    BY <1>6, <2>0 DEF Redirect, NextRound, Rewritten, TypeOK
  <2>2. CASE Finish(c, "aborted")
    BY <2>1, <2>2, FinishType DEF TypeOK, Results
  <2>3. CASE /\ rounds[c] + 1 < MaxRounds
             /\ Goes(c, "slot")
             /\ chat' = [chat EXCEPT ![c] = moved[chat[c]]]
             /\ rounds' = [rounds EXCEPT ![c] = @ + 1]
             /\ UNCHANGED <<ladder, uploaded, tries>>
    <3>1. rounds' \in [Calls -> 0..(MaxRounds - 1)]
      BY <2>3 DEF TypeOK
    <3> QED BY <2>0, <2>1, <2>3, <3>1 DEF Goes, TypeOK
  <2> QED BY <1>6, <2>2, <2>3 DEF Redirect, NextRound
<1>7. ASSUME NEW d \in Chats, (\E e \in Chats : Move(d, e)) \/ Receive(d) \/ Handle(d)
      PROVE  TypeOK' /\ ladder' \in [Calls -> Records]
  BY <1>7 DEF Move, Receive, Handle, TypeOK, callVars, wireVars, dbVars
<1>8. CASE UNCHANGED vars
  BY <1>8 DEF vars, callVars, wireVars, dbVars, TypeOK
<1> QED BY <1>1, <1>2, <1>3, <1>4, <1>5, <1>6, <1>7, <1>8 DEF Next, CallStep

----------------------------------------------------------------------------
(* The invariant.                                                          *)

\* Nothing of a call changes.
Untouched(b) ==
  /\ pc'[b] = pc[b] /\ chat'[b] = chat[b] /\ rounds'[b] = rounds[b] /\ ladder'[b] = ladder[b]
  /\ result'[b] = result[b] /\ reply'[b] = reply[b] /\ shown'[b] = shown[b] /\ tries'[b] = tries[b]
  /\ b \in uploaded' <=> b \in uploaded

ByCall(c) == Start(c) \/ CallStep(c) \/ Expire(c) \/ Process(c)

LEMMA OthersUntouched ==
  ASSUME TypeOK, ladder \in [Calls -> Records],
         NEW c \in Calls, ByCall(c), NEW b \in Calls, b # c
  PROVE  Untouched(b)
<1> USE DEF TypeOK, Untouched
<1>f. ASSUME NEW r, Finish(c, r)
      PROVE  /\ pc'[b] = pc[b] /\ chat'[b] = chat[b] /\ rounds'[b] = rounds[b]
             /\ ladder'[b] = ladder[b] /\ result'[b] = result[b] /\ tries'[b] = tries[b]
             /\ b \in uploaded' <=> b \in uploaded
  BY <1>f DEF Finish
<1>g. ASSUME NEW kind, Failed(c, kind)
      PROVE  /\ pc'[b] = pc[b] /\ chat'[b] = chat[b] /\ rounds'[b] = rounds[b]
             /\ ladder'[b] = ladder[b] /\ result'[b] = result[b] /\ tries'[b] = tries[b]
             /\ b \in uploaded' <=> b \in uploaded
  BY <1>f, <1>g DEF Failed, Retry, Goes
<1>1. CASE Start(c)
  BY <1>1 DEF Start, Goes, wireVars
<1>2. CASE Slot(c)
  BY <1>2 DEF Slot, Goes, wireVars
<1>3. CASE NoSlot(c)
  BY <1>3, <1>f DEF NoSlot
<1>4. CASE Attempt(c)
  BY <1>4 DEF Attempt, Goes
<1>5. CASE Abort(c)
  BY <1>5, <1>f DEF Abort
<1>6. CASE Answer(c)
  BY <1>6, <1>f, <1>g DEF Answer, Redirected, Goes
<1>7. CASE Fault(c)
  BY <1>7, <1>g DEF Fault, Unanswered
<1>8. CASE Canceled(c)
  BY <1>8, <1>f DEF Canceled, Unanswered
<1>9. CASE WakeUp(c)
  BY <1>9, <1>f DEF WakeUp, Goes
<1>10. CASE Redirect(c)
  BY <1>10, <1>f DEF Redirect, NextRound, Goes
<1>11. CASE RedirectFails(c)
  BY <1>11, <1>f DEF RedirectFails
<1>12. CASE Expire(c)
  BY <1>12 DEF Expire, wireVars
<1>13. CASE Process(c)
  BY <1>13 DEF Process
<1> QED BY <1>1, <1>2, <1>3, <1>4, <1>5, <1>6, <1>7, <1>8, <1>9, <1>10, <1>11, <1>12, <1>13
        DEF ByCall, CallStep

\* A chat that moved stays moved.
LEMMA MovedStays ==
  ASSUME TypeOK, [Next]_vars, NEW d \in Chats, moved[d] # NoChat
  PROVE  moved'[d] = moved[d]
<1>1. ASSUME NEW c \in Calls, ByCall(c) PROVE moved' = moved
  BY <1>1 DEF ByCall, CallStep, Start, Slot, NoSlot, Attempt, Abort, Answer, Fault, Canceled, WakeUp,
              Redirect, RedirectFails, NextRound, Unanswered, Expire, Process
<1>2. ASSUME NEW a \in Chats, NEW e \in Chats, Move(a, e) PROVE moved'[d] = moved[d]
  BY <1>2 DEF Move, TypeOK
<1>3. ASSUME NEW a \in Chats, Receive(a) \/ Handle(a) PROVE moved' = moved
  BY <1>3 DEF Receive, Handle
<1>4. CASE UNCHANGED vars
  BY <1>4 DEF vars
<1> QED BY <1>1, <1>2, <1>3, <1>4 DEF Next, ByCall

LEMMA UntouchedFits ==
  ASSUME TypeOK, [Next]_vars, NEW b \in Calls, Untouched(b), CallFits(b)
  PROVE  CallFits(b)'
<1>1. Addressed(b)'
  BY DEF CallFits, Addressed, Untouched
<1>2. AnswerFits(b)'
  BY MovedStays DEF CallFits, AnswerFits, Addressed, Untouched
<1>3. TriesCounted(b)'
  BY DEF CallFits, TriesCounted, Untouched, TriesBefore, RoundTries
<1>4. CopiesCounted(b)'
  BY DEF CallFits, CopiesCounted, Untouched, CopiesBefore, RoundCopies
<1> QED BY <1>1, <1>2, <1>3, <1>4 DEF CallFits

\* What a call has spent is within what its rounds allow.
LEMMA Bounds ==
  ASSUME TypeOK, NEW c \in Calls
  PROVE  /\ ladder[c] \in Ladders(TransportBudget[c]) /\ TransportBudget[c] \in Nat \ {0}
         /\ Attempts(ladder[c]) \in 1..RoundTries(c)
         /\ ladder[c].transport \in 1..(RoundCopies(c) + 1)
         /\ RoundTries(c) \in Nat /\ RoundCopies(c) \in Nat
         /\ TriesBefore(c) \in Nat /\ CopiesBefore(c) \in Nat
         /\ MaxRounds * RoundCopies(c) \in Nat
         /\ CopiesBefore(c) + RoundCopies(c) <= MaxRounds * RoundCopies(c)
<1>1. ladder[c] \in Ladders(TransportBudget[c]) /\ TransportBudget[c] \in Nat \ {0}
  BY DEF TypeOK
<1>2. RoundTries(c) \in Nat /\ RoundCopies(c) \in Nat
  BY <1>1 DEF RoundTries, RoundCopies
<1>3. /\ Attempts(ladder[c]) \in 1..RoundTries(c)
      /\ ladder[c].transport \in 1..(RoundCopies(c) + 1)
  BY <1>1, AttemptsBound DEF RoundTries, RoundCopies, Ladders
<1>4. rounds[c] \in Nat /\ MaxRounds \in Nat /\ rounds[c] + 1 <= MaxRounds
  BY DEF TypeOK
<1>5. TriesBefore(c) \in Nat /\ CopiesBefore(c) \in Nat /\ MaxRounds * RoundCopies(c) \in Nat
  BY <1>2, <1>4, Times DEF TriesBefore, CopiesBefore
<1>6. rounds[c] * RoundCopies(c) + RoundCopies(c) <= MaxRounds * RoundCopies(c)
  BY <1>2, <1>4, Most
<1> QED BY <1>1, <1>2, <1>3, <1>5, <1>6 DEF CopiesBefore

\* Another round begins behind those before it.
LEMMA RoundGoesOn ==
  ASSUME TypeOK, NEW c \in Calls
  PROVE  /\ rounds'[c] = rounds[c] => /\ TriesBefore(c)' = TriesBefore(c)
                                      /\ CopiesBefore(c)' = CopiesBefore(c)
         /\ rounds'[c] = rounds[c] + 1 =>
              /\ TriesBefore(c)' = TriesBefore(c) + RoundTries(c)
              /\ CopiesBefore(c)' = CopiesBefore(c) + RoundCopies(c)
<1>1. rounds[c] \in Nat /\ RoundTries(c) \in Nat /\ RoundCopies(c) \in Nat
  BY Bounds DEF TypeOK
<1>2. /\ (rounds[c] + 1) * RoundTries(c) = rounds[c] * RoundTries(c) + RoundTries(c)
      /\ (rounds[c] + 1) * RoundCopies(c) = rounds[c] * RoundCopies(c) + RoundCopies(c)
  BY <1>1, Times
<1> QED BY <1>2 DEF TriesBefore, CopiesBefore, RoundTries, RoundCopies

LEMMA FinishFits ==
  ASSUME TypeOK, NEW c \in Calls, CallFits(c), NEW r, Finish(c, r),
         reply'[c] = "none", shown'[c] \in Nat, shown'[c] <= MaxRounds * RoundCopies(c) + 1
  PROVE  CallFits(c)'
<1>1. pc'[c] = "done" /\ rounds'[c] = 0 /\ tries'[c] = 0
  BY DEF Finish, TypeOK
<1>2. Addressed(c)' /\ AnswerFits(c)'
  BY <1>1 DEF Addressed, AnswerFits
<1>3. TriesCounted(c)'
  BY <1>1 DEF TriesCounted
<1>4. CopiesCounted(c)'
  BY <1>1 DEF CopiesCounted, RoundCopies
<1> QED BY <1>2, <1>3, <1>4 DEF CallFits

LEMMA FailedFits ==
  ASSUME TypeOK, ladder \in [Calls -> Records], NEW c \in Calls, CallFits(c), pc[c] = "wire",
         NEW kind \in FailureKinds, Failed(c, kind), reply'[c] = "none", shown'[c] \in Nat,
         shown'[c] + 1 <= CopiesBefore(c) + ladder[c].transport
                                          + (IF kind = "transport" THEN 1 ELSE 0)
  PROVE  CallFits(c)'
<1>b. /\ CopiesBefore(c) \in Nat /\ RoundCopies(c) \in Nat /\ TriesBefore(c) \in Nat
      /\ ladder[c].transport \in 1..(RoundCopies(c) + 1)
      /\ CopiesBefore(c) + RoundCopies(c) <= MaxRounds * RoundCopies(c)
      /\ MaxRounds * RoundCopies(c) \in Nat
      /\ Attempts(ladder[c]) \in Nat
  BY Bounds
<1>1. CASE Finish(c, kind)
  <2>1. shown'[c] <= MaxRounds * RoundCopies(c) + 1
    BY <1>b
  <2> QED BY <1>1, <2>1, FinishFits
<1>2. CASE Retry(c, kind) /\ Retries(ladder[c], kind, TransportBudget[c])
  <2>1. /\ Attempts(Advance(ladder[c], kind)) = Attempts(ladder[c]) + 1
        /\ Advance(ladder[c], kind).transport =
             ladder[c].transport + (IF kind = "transport" THEN 1 ELSE 0)
    BY <1>2, Bounds, AdvanceFacts
  <2>2. /\ pc'[c] = "backoff" /\ chat' = chat /\ rounds' = rounds /\ tries' = tries
        /\ ladder'[c] = Advance(ladder[c], kind)
    BY <1>2 DEF Retry, Goes, TypeOK
  <2>3. TriesBefore(c)' = TriesBefore(c) /\ CopiesBefore(c)' = CopiesBefore(c)
    BY <2>2, RoundGoesOn
  <2>4. tries[c] \in Nat /\ tries[c] <= TriesBefore(c) + Attempts(ladder[c])
    BY DEF CallFits, TriesCounted, TypeOK
  <2>5. Addressed(c)' /\ AnswerFits(c)'
    BY <2>2 DEF CallFits, Addressed, AnswerFits
  <2>6. TriesCounted(c)'
    BY <1>b, <2>1, <2>2, <2>3, <2>4 DEF TriesCounted
  <2>7. CopiesCounted(c)'
    BY <1>b, <2>1, <2>2, <2>3 DEF CopiesCounted
  <2> QED BY <2>5, <2>6, <2>7 DEF CallFits
<1> QED BY <1>1, <1>2 DEF Failed

\* A step of a call keeps what the call has counted.
LEMMA CallKeeps ==
  ASSUME TypeOK, ladder \in [Calls -> Records], [Next]_vars,
         NEW c \in Calls, CallFits(c), ByCall(c)
  PROVE  CallFits(c)'
<1>b. /\ CopiesBefore(c) \in Nat /\ RoundCopies(c) \in Nat
      /\ TriesBefore(c) \in Nat /\ RoundTries(c) \in Nat
      /\ ladder[c].transport \in 1..(RoundCopies(c) + 1)
      /\ Attempts(ladder[c]) \in 1..RoundTries(c)
      /\ CopiesBefore(c) + RoundCopies(c) <= MaxRounds * RoundCopies(c)
      /\ MaxRounds * RoundCopies(c) \in Nat
      /\ shown[c] \in Nat /\ tries[c] \in Nat
  BY Bounds DEF TypeOK
<1>s. rounds'[c] = rounds[c] => /\ TriesBefore(c)' = TriesBefore(c)
                                /\ CopiesBefore(c)' = CopiesBefore(c)
  BY RoundGoesOn
<1>f. FreshLadder.transport = 1 /\ Attempts(FreshLadder) = 1
  BY Bounds, FreshFacts
<1>e. ASSUME NEW r, Finish(c, r), reply'[c] = "none", shown'[c] \in Nat, pc[c] # "done",
             shown'[c] <= shown[c] \/ (pc[c] = "wire" /\ reply[c] = "none" /\ shown'[c] = shown[c] + 1)
      PROVE  CallFits(c)'
  <2>1. pc[c] # "idle" => shown[c] <= CopiesBefore(c) + RoundCopies(c) + 1
    BY <1>b, <1>e DEF CallFits, CopiesCounted, TypeOK
  <2>2. shown'[c] <= MaxRounds * RoundCopies(c) + 1
    BY <1>b, <1>e, <2>1 DEF CallFits, CopiesCounted, TypeOK
  <2> QED BY <1>e, <2>2, FinishFits
<1>1. CASE Start(c)
  <2>1. /\ pc[c] = "idle" /\ pc'[c] = "slot" /\ chat'[c] \in Chats
        /\ rounds' = rounds /\ ladder' = ladder /\ reply' = reply /\ shown' = shown /\ tries' = tries
    BY <1>1 DEF Start, Goes, TypeOK, wireVars
  <2> QED BY <1>b, <1>s, <2>1 DEF CallFits, Addressed, AnswerFits, TriesCounted, CopiesCounted
<1>2. CASE Slot(c)
  <2>1. /\ pc[c] = "slot" /\ pc'[c] = "attempt" /\ chat' = chat
        /\ rounds' = rounds /\ ladder' = ladder /\ reply' = reply /\ shown' = shown /\ tries' = tries
    BY <1>2 DEF Slot, Goes, TypeOK, wireVars
  <2> QED BY <1>b, <1>s, <1>f, <2>1 DEF CallFits, Addressed, AnswerFits, TriesCounted, CopiesCounted
<1>3. CASE NoSlot(c) \/ Abort(c) \/ RedirectFails(c)
  <2>1. Finish(c, "aborted") /\ reply' = reply /\ shown' = shown
        /\ pc[c] \in {"slot", "attempt", "redirect"}
    BY <1>3 DEF NoSlot, Abort, RedirectFails
  <2> QED BY <1>b, <1>e, <2>1 DEF CallFits, AnswerFits
<1>4. CASE Attempt(c)
  <2>1. /\ pc[c] = "attempt" /\ pc'[c] = "wire" /\ chat' = chat /\ tries'[c] = tries[c] + 1
        /\ rounds' = rounds /\ ladder' = ladder /\ reply' = reply /\ shown' = shown
    BY <1>4 DEF Attempt, Goes, TypeOK
  <2> QED BY <1>b, <1>s, <2>1 DEF CallFits, Addressed, AnswerFits, TriesCounted, CopiesCounted
<1>5. CASE Answer(c)
  <2>1. pc[c] = "wire" /\ reply[c] # "none" /\ reply'[c] = "none" /\ shown' = shown
    BY <1>5 DEF Answer, TypeOK
  <2>2. CASE reply[c] = "ok" /\ Finish(c, "ok")
    BY <1>b, <1>e, <2>1, <2>2
  <2>3. CASE reply[c] = "redirect" /\ Redirected(c)
    <3>1. /\ pc'[c] = "redirect" /\ ladder'[c] = FreshLadder
          /\ chat' = chat /\ rounds' = rounds /\ tries' = tries
      BY <2>3 DEF Redirected, Goes, TypeOK
    <3>2. moved'[chat[c]] # NoChat
      BY <2>1, <2>3, MovedStays DEF CallFits, AnswerFits, Addressed
    <3> QED BY <1>b, <1>s, <2>1, <2>3, <3>1, <3>2
            DEF CallFits, Addressed, AnswerFits, TriesCounted, CopiesCounted
  <2>4. CASE reply[c] \in FailureKinds \ {"transport"} /\ Failed(c, reply[c])
    <3>1. shown'[c] + 1 <= CopiesBefore(c) + ladder[c].transport
      BY <2>1, <2>4 DEF CallFits, CopiesCounted, FailureKinds
    <3> HIDE DEF FailureKinds
    <3> QED BY <1>b, <2>1, <2>4, <3>1, FailedFits
  <2> QED BY <1>5, <2>1, <2>2, <2>3, <2>4 DEF Answer, TypeOK, Replies
<1>6. CASE Fault(c) \/ Canceled(c)
  <2>1. /\ pc[c] = "wire" /\ reply'[c] = "none" /\ shown'[c] \in Nat
        /\ shown'[c] = shown[c] \/ (reply[c] = "none" /\ shown'[c] = shown[c] + 1)
    BY <1>6 DEF Fault, Canceled, Unanswered, TypeOK
  <2>2. CASE Failed(c, "transport")
    <3>1. shown'[c] + 1 <= CopiesBefore(c) + ladder[c].transport + 1
      BY <1>b, <2>1 DEF CallFits, CopiesCounted
    <3>2. "transport" \in FailureKinds
      BY DEF FailureKinds
    <3> QED BY <2>1, <2>2, <3>1, <3>2, FailedFits
  <2>3. CASE Finish(c, "aborted")
    BY <1>b, <1>e, <2>1, <2>3
  <2> QED BY <1>6, <2>2, <2>3 DEF Fault, Canceled
<1>7. CASE WakeUp(c)
  <2>1. pc[c] = "backoff" /\ reply' = reply /\ shown' = shown
    BY <1>7 DEF WakeUp
  <2>2. CASE Finish(c, "aborted")
    BY <1>b, <1>e, <2>1, <2>2 DEF CallFits, AnswerFits
  <2>3. CASE Goes(c, "attempt") /\ UNCHANGED <<chat, rounds, ladder, uploaded, tries>>
    <3>1. pc'[c] = "attempt"
      BY <2>3 DEF Goes, TypeOK
    <3> QED BY <1>b, <1>s, <2>1, <2>3, <3>1
            DEF CallFits, Addressed, AnswerFits, TriesCounted, CopiesCounted
  <2> QED BY <1>7, <2>2, <2>3 DEF WakeUp
<1>8. CASE Redirect(c)
  <2>1. /\ pc[c] = "redirect" /\ reply' = reply /\ shown' = shown
        /\ chat[c] \in Chats /\ moved[chat[c]] \in Chats
    BY <1>8 DEF Redirect, NextRound, CallFits, Addressed, AnswerFits, TypeOK
  <2>2. CASE Finish(c, "aborted")
    BY <1>b, <1>e, <2>1, <2>2 DEF CallFits, AnswerFits
  <2>3. CASE /\ Goes(c, "slot")
             /\ chat' = [chat EXCEPT ![c] = moved[chat[c]]]
             /\ rounds' = [rounds EXCEPT ![c] = @ + 1]
             /\ UNCHANGED <<ladder, uploaded, tries>>
    <3>1. pc'[c] = "slot" /\ chat'[c] \in Chats /\ rounds'[c] = rounds[c] + 1
      BY <2>1, <2>3 DEF Goes, TypeOK
    <3>2. /\ TriesBefore(c)' = TriesBefore(c) + RoundTries(c)
          /\ CopiesBefore(c)' = CopiesBefore(c) + RoundCopies(c)
      BY <3>1, RoundGoesOn
    <3> QED BY <1>b, <2>1, <2>3, <3>1, <3>2
            DEF CallFits, Addressed, AnswerFits, TriesCounted, CopiesCounted
  <2> QED BY <1>8, <2>2, <2>3 DEF Redirect, NextRound
<1>9. CASE Expire(c)
  BY <1>9, UntouchedFits DEF Expire, Untouched, wireVars
<1>10. CASE Process(c)
  <2>1. /\ pc[c] = "wire" /\ pc' = pc /\ chat' = chat /\ rounds' = rounds /\ ladder' = ladder
        /\ tries' = tries /\ moved' = moved
        /\ reply[c] = "none" /\ reply'[c] # "none"
        /\ reply'[c] = "redirect" => moved[chat[c]] # NoChat
        /\ shown'[c] = IF reply'[c] = "ok" THEN shown[c] + 1 ELSE shown[c]
    BY <1>10 DEF Process, TypeOK, Replies
  <2> QED BY <1>b, <1>s, <2>1 DEF CallFits, Addressed, AnswerFits, TriesCounted, CopiesCounted
<1> QED BY <1>1, <1>2, <1>3, <1>4, <1>5, <1>6, <1>7, <1>8, <1>9, <1>10 DEF ByCall, CallStep

LEMMA CallsFit ==
  ASSUME TypeOK, ladder \in [Calls -> Records], [Next]_vars, \A c \in Calls : CallFits(c)
  PROVE  \A c \in Calls : CallFits(c)'
<1>1. ASSUME NEW b \in Calls, NEW c \in Calls, ByCall(c) PROVE CallFits(b)'
  BY <1>1, CallKeeps, OthersUntouched, UntouchedFits
<1>2. ASSUME NEW b \in Calls,
             (\E d, e \in Chats : Move(d, e)) \/ (\E d \in Chats : Receive(d) \/ Handle(d))
               \/ UNCHANGED vars
      PROVE  CallFits(b)'
  BY <1>2, UntouchedFits DEF Untouched, Move, Receive, Handle, vars, callVars, wireVars
<1> QED BY <1>1, <1>2 DEF Next, ByCall

\* A chat id Telegram gives to a moved chat was nobody's before.
LEMMA MovedOnceKept ==
  ASSUME TypeOK, MovedOnce, [Next]_vars
  PROVE  MovedOnce'
<1>1. CASE moved' = moved
  BY <1>1 DEF MovedOnce
<1>2. ASSUME NEW d \in Chats, NEW e \in Chats, Move(d, e) PROVE MovedOnce'
  BY <1>2 DEF Move, MovedOnce, TypeOK
<1>3. ASSUME NEW c \in Calls, ByCall(c) PROVE moved' = moved
  BY <1>3 DEF ByCall, CallStep, Start, Slot, NoSlot, Attempt, Abort, Answer, Fault, Canceled, WakeUp,
              Redirect, RedirectFails, NextRound, Unanswered, Expire, Process
<1>4. ASSUME NEW a \in Chats, Receive(a) \/ Handle(a) PROVE moved' = moved
  BY <1>4 DEF Receive, Handle
<1> QED BY <1>1, <1>2, <1>3, <1>4 DEF Next, ByCall, vars

\* A body at its end is rewound before it goes on the wire.
LEMMA WholeKept ==
  ASSUME TypeOK, ladder \in [Calls -> Records], SentWhole, \A c \in Calls : CallFits(c),
         [Next]_vars
  PROVE  SentWhole'
<1>1. ASSUME NEW b \in Calls, Untouched(b)
      PROVE  /\ result'[b] = "ok" => shown'[b] > 0
             /\ pc'[b] = "wire" /\ reply'[b] = "none" => b \notin uploaded'
  BY <1>1 DEF Untouched, SentWhole, SuccessShown, WholeBody
<1>2. ASSUME NEW c \in Calls, ByCall(c)
      PROVE  /\ result'[c] = "ok" => shown'[c] > 0
             /\ pc'[c] = "wire" /\ reply'[c] = "none" => c \notin uploaded'
  <2> USE DEF TypeOK
  <2>0. /\ result[c] = "ok" => shown[c] > 0
        /\ reply[c] = "ok" => shown[c] > 0
        /\ pc[c] = "wire" /\ reply[c] = "none" => c \notin uploaded
    BY DEF SentWhole, SuccessShown, WholeBody, CallFits, AnswerFits
  <2>1. CASE Start(c) \/ Slot(c) \/ Attempt(c) \/ Expire(c)
    BY <2>0, <2>1 DEF Start, Slot, Attempt, Expire, Goes, wireVars
  <2>2. CASE NoSlot(c) \/ Abort(c) \/ RedirectFails(c) \/ WakeUp(c)
    BY <2>0, <2>2 DEF NoSlot, Abort, RedirectFails, WakeUp, Finish, Goes
  <2>3. CASE Answer(c)
    <3>1. shown' = shown
      BY <2>3 DEF Answer
    <3>2. CASE Finish(c, "ok") /\ reply[c] = "ok"
      BY <2>0, <3>1, <3>2 DEF Finish
    <3>3. CASE Redirected(c)
      BY <2>0, <3>1, <3>3 DEF Redirected, Goes
    <3>4. CASE reply[c] # "ok" /\ Failed(c, reply[c])
      BY <2>0, <3>1, <3>4 DEF Failed, Finish, Retry, Goes
    <3> QED BY <2>3, <3>2, <3>3, <3>4 DEF Answer
  <2>4. CASE Fault(c) \/ Canceled(c)
    <3>1. shown'[c] >= shown[c] /\ shown[c] \in Nat /\ shown'[c] \in Nat
      BY <2>4 DEF Fault, Canceled, Unanswered
    <3> QED BY <2>0, <2>4, <3>1 DEF Fault, Canceled, Failed, Finish, Retry, Goes
  <2>5. CASE Redirect(c)
    BY <2>0, <2>5 DEF Redirect, NextRound, Finish, Goes
  <2>6. CASE Process(c)
    <3>1. shown'[c] >= shown[c] /\ shown[c] \in Nat /\ shown'[c] \in Nat
      BY <2>6 DEF Process
    <3> QED BY <2>0, <2>6, <3>1 DEF Process
  <2> QED BY <1>2, <2>1, <2>2, <2>3, <2>4, <2>5, <2>6 DEF ByCall, CallStep
<1>3. CASE \/ \E d, e \in Chats : Move(d, e)
           \/ \E d \in Chats : Receive(d) \/ Handle(d)
           \/ UNCHANGED vars
  BY <1>1, <1>3 DEF Untouched, Move, Receive, Handle, vars, callVars, wireVars,
                    SentWhole, SuccessShown, WholeBody
<1>4. ASSUME NEW c \in Calls, ByCall(c) PROVE SentWhole'
  BY <1>1, <1>2, <1>4, OthersUntouched DEF SentWhole, SuccessShown, WholeBody
<1> QED BY <1>3, <1>4 DEF Next, ByCall

\* What a call finds at its new chat: the old one is left, unless it was given
\* records after its move.
LEMMA ReplayKept ==
  ASSUME TypeOK, ladder \in [Calls -> Records], \A c \in Calls : CallFits(c), MovedOnce,
         ReplayAfterRewrite, [Next]_vars
  PROVE  ReplayAfterRewrite'
<1>1. ASSUME UNCHANGED <<moved, records, admins, late>>,
             \A b \in Calls : rounds'[b] = 0 \/ (rounds'[b] = rounds[b] /\ chat'[b] = chat[b])
      PROVE  ReplayAfterRewrite'
  BY <1>1 DEF ReplayAfterRewrite
<1>2. ASSUME NEW c \in Calls, ByCall(c), ~Redirect(c) PROVE ReplayAfterRewrite'
  <2>1. UNCHANGED <<moved, records, admins, late>>
    BY <1>2 DEF ByCall, CallStep, Start, Slot, NoSlot, Attempt, Abort, Answer, Fault, Canceled,
                WakeUp, RedirectFails, Unanswered, Expire, Process, dbVars
  <2>2. rounds'[c] = 0 \/ (rounds'[c] = rounds[c] /\ chat'[c] = chat[c])
    <3> USE DEF TypeOK
    <3>1. CASE Start(c)
      BY <3>1 DEF Start, CallFits, Addressed
    <3>2. CASE Slot(c) \/ Attempt(c) \/ Expire(c) \/ Process(c)
      BY <3>2 DEF Slot, Attempt, Expire, Process
    <3>3. CASE NoSlot(c) \/ Abort(c) \/ RedirectFails(c) \/ WakeUp(c)
      BY <3>3 DEF NoSlot, Abort, RedirectFails, WakeUp, Finish
    <3>4. CASE Answer(c) \/ Fault(c) \/ Canceled(c)
      BY <3>4 DEF Answer, Fault, Canceled, Failed, Retry, Redirected, Finish
    <3> QED BY <1>2, <3>1, <3>2, <3>3, <3>4 DEF ByCall, CallStep
  <2>3. \A b \in Calls : b # c => rounds'[b] = rounds[b] /\ chat'[b] = chat[b]
    BY <1>2, OthersUntouched DEF Untouched
  <2> QED BY <1>1, <2>1, <2>2, <2>3
<1>3. ASSUME NEW c \in Calls, Redirect(c) PROVE ReplayAfterRewrite'
  <2> DEFINE old == chat[c]
             new == moved[chat[c]]
  <2>1. old \in Chats /\ new \in Chats /\ old # new
    BY <1>3 DEF Redirect, CallFits, Addressed, AnswerFits, MovedOnce, TypeOK
  <2>2. /\ moved' = moved /\ admins' = admins \ {old}
        /\ records' \subseteq (records \ {old}) \cup {new}
        /\ old \notin records => records' = records
        /\ late' = (late \ {old}) \cup {d \in {new} : old \in records /\ moved[d] # NoChat}
    BY <1>3 DEF Redirect, NextRound, Rewritten
  <2>3. rounds'[c] = 0 \/ chat'[c] = new
    BY <1>3 DEF Redirect, NextRound, Finish, TypeOK
  <2>4. \A b \in Calls : b # c => rounds'[b] = rounds[b] /\ chat'[b] = chat[b]
    BY <1>3, OthersUntouched DEF Untouched, ByCall, CallStep
  <2>5. old \notin records' \cup admins'
    BY <2>1, <2>2
  <2> SUFFICES ASSUME NEW b \in Calls, NEW d \in Chats,
                      rounds'[b] > 0, moved[d] = chat'[b], d \notin late'
               PROVE  d \notin records' \cup admins'
    BY <2>2 DEF ReplayAfterRewrite
  <2>6. CASE b = c
    <3>1. moved[d] = moved[old] /\ moved[old] # NoChat
      BY <2>1, <2>3, <2>6
    <3>2. d = old
      BY <2>1, <3>1 DEF MovedOnce
    <3> QED BY <2>5, <3>2
  <2>7. CASE b # c /\ d # old
    <3>1. d \notin late /\ d \notin records \cup admins
      BY <2>2, <2>4, <2>7 DEF ReplayAfterRewrite
    <3>2. moved[d] # NoChat
      BY <2>4, <2>7 DEF CallFits, Addressed, TypeOK
    <3>3. d = new => old \notin records
      BY <2>2, <3>2
    <3> QED BY <2>2, <3>1, <3>3
  <2> QED BY <2>5, <2>6, <2>7
<1>4. ASSUME NEW d \in Chats, NEW e \in Chats, Move(d, e) PROVE ReplayAfterRewrite'
  <2>1. /\ moved' = [moved EXCEPT ![d] = e]
        /\ \A c \in Calls : chat[c] # e
        /\ UNCHANGED <<chat, rounds, records, admins, late>>
    BY <1>4 DEF Move, callVars, dbVars
  <2>2. \A x \in Chats : moved'[x] = moved[x] \/ moved'[x] = e
    BY <2>1 DEF TypeOK
  <2> QED BY <2>1, <2>2 DEF ReplayAfterRewrite
<1>5. ASSUME NEW d \in Chats, Receive(d) PROVE ReplayAfterRewrite'
  BY <1>1, <1>5 DEF Receive, callVars
<1>6. ASSUME NEW d \in Chats, Handle(d) PROVE ReplayAfterRewrite'
  <2>1. /\ UNCHANGED <<chat, rounds, moved>>
        /\ records' = records \cup {d} /\ admins' = admins \cup {d}
        /\ late' = IF moved[d] = NoChat THEN late ELSE late \cup {d}
    BY <1>6 DEF Handle, callVars
  <2>2. \A b \in Calls : rounds[b] > 0 => chat[b] # NoChat
    BY DEF CallFits, Addressed, TypeOK
  <2> QED BY <2>1, <2>2 DEF ReplayAfterRewrite
<1>7. CASE UNCHANGED vars
  BY <1>1, <1>7 DEF vars, callVars, dbVars
<1> QED BY <1>2, <1>3, <1>4, <1>5, <1>6, <1>7 DEF Next, ByCall, CallStep

----------------------------------------------------------------------------
LEMMA InvInit == Init => ClientInv
<1> SUFFICES ASSUME Init PROVE ClientInv
  OBVIOUS
<1>1. \A c \in Calls : FreshLadder \in Ladders(TransportBudget[c])
  BY FreshFacts
<1>2. FreshLadder \in Records
  BY DEF FreshLadder, Records
<1>3. TypeOK /\ ladder \in [Calls -> Records]
  BY <1>1, <1>2 DEF Init, TypeOK, Replies, Results
<1>4. ASSUME NEW c \in Calls PROVE CallFits(c)
  BY <1>3 DEF Init, CallFits, Addressed, AnswerFits, TriesCounted, CopiesCounted
<1>5. MovedOnce /\ SentWhole /\ ReplayAfterRewrite
  BY DEF Init, MovedOnce, SentWhole, SuccessShown, WholeBody, ReplayAfterRewrite
<1> QED BY <1>3, <1>4, <1>5 DEF ClientInv

\* Calls, answers, budgets and chats fit together at all times.
THEOREM ClientInvCorrect == Spec => []ClientInv
<1>1. ClientInv /\ [Next]_vars => ClientInv'
  <2> SUFFICES ASSUME ClientInv, [Next]_vars PROVE ClientInv'
    OBVIOUS
  <2> USE DEF ClientInv
  <2>1. TypeOK' /\ ladder' \in [Calls -> Records]
    BY TypeStep
  <2>2. \A c \in Calls : CallFits(c)'
    BY CallsFit
  <2>3. MovedOnce' /\ SentWhole' /\ ReplayAfterRewrite'
    BY MovedOnceKept, WholeKept, ReplayKept
  <2> QED BY <2>1, <2>2, <2>3
<1> QED BY <1>1, InvInit, PTL DEF Spec

\* Types of the calls, for any budgets.
THEOREM ClientTypesCorrect == Spec => []TypeOK
BY ClientInvCorrect, PTL DEF ClientInv

\* What a call reports as sent was carried out, and every attempt begins with the
\* body at its start.
THEOREM SentWholeCorrect == Spec => []SentWhole
BY ClientInvCorrect, PTL DEF ClientInv

\* A round costs at most the sum of the two budgets, and shows a copy for each
\* transport failure it retries; for any budgets and rounds.
THEOREM BudgetKeptCorrect == Spec => []BudgetKept
<1>1. ClientInv => BudgetKept
  <2> SUFFICES ASSUME ClientInv, NEW c \in Calls
               PROVE  /\ shown[c] <= MaxRounds * (TransportBudget[c] - 1) + 1
                      /\ tries[c] <= (rounds[c] + 1) * (ServerBudget + TransportBudget[c])
    BY DEF BudgetKept, CopiesBounded, TriesBounded
  <2>1. TypeOK /\ CallFits(c)
    BY DEF ClientInv
  <2>2. /\ CopiesBefore(c) \in Nat /\ RoundCopies(c) \in Nat
        /\ TriesBefore(c) \in Nat /\ RoundTries(c) \in Nat
        /\ ladder[c].transport \in 1..(RoundCopies(c) + 1)
        /\ Attempts(ladder[c]) \in 1..RoundTries(c)
        /\ CopiesBefore(c) + RoundCopies(c) <= MaxRounds * RoundCopies(c)
        /\ MaxRounds * RoundCopies(c) \in Nat
        /\ shown[c] \in Nat /\ tries[c] \in Nat /\ rounds[c] \in Nat
    BY <2>1, Bounds DEF TypeOK
  <2>3. shown[c] <= MaxRounds * RoundCopies(c) + 1
    BY <2>1, <2>2 DEF CallFits, CopiesCounted, TypeOK
  <2>4. tries[c] <= TriesBefore(c) + RoundTries(c)
    BY <2>1, <2>2 DEF CallFits, TriesCounted, TypeOK
  <2>5. (rounds[c] + 1) * RoundTries(c) = TriesBefore(c) + RoundTries(c)
    BY <2>2, Times DEF TriesBefore
  <2> QED BY <2>3, <2>4, <2>5 DEF RoundCopies, RoundTries
<1> QED BY <1>1, ClientInvCorrect, PTL

\* A replay finds the database and the admin cache rewritten, for any number of
\* chats that move any number of times and calls that follow them in any order.
THEOREM ReplayAfterRewriteCorrect == Spec => []ReplayAfterRewrite
BY ClientInvCorrect, PTL DEF ClientInv
=============================================================================
