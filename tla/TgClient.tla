------------------------------ MODULE TgClient ------------------------------
(***************************************************************************)
(* Outgoing Bot API writes, src/internal/shared/tgclient: every call goes  *)
(* through the rate limiter, the retry ladder and, when Telegram redirects *)
(* a group that became a supergroup, through the rewrite of the database   *)
(* and a replay against the new chat.                                      *)
(*                                                                         *)
(* Several goroutines are inside runWritePolicy at once.  Telegram is      *)
(* modelled from what the client has to cope with: it may refuse, throttle *)
(* or fail a request, move a chat at any moment, and process a request     *)
(* whose answer is lost, also after the attempt has timed out.             *)
(*                                                                         *)
(* The limiter appears as its promise to a caller (module RateLimiter):    *)
(* Wait returns, with a slot or an error.                                  *)
(***************************************************************************)
EXTENDS Retry

CONSTANTS
  Calls,            \* one element per write in flight
  Chats,            \* absolute chat ids
  NoChat,           \* no chat: the chat has not been moved
  TransportBudget,  \* call -> transport attempts: 3 for control calls, 2 for
                    \* media uploads
  MaxRounds         \* maxMigrations in runWritePolicy

ASSUME BudgetAssumption == TransportBudget \in [Calls -> Nat \ {0}]
ASSUME RoundsAssumption == MaxRounds \in Nat \ {0}
ASSUME NoChatAssumption == NoChat \notin Chats

VARIABLES
  pc,        \* where the call is
  chat,      \* the chat its request is addressed to; NoChat before and after
  rounds,    \* redirects it has followed
  ladder,    \* counters of the current retry.Do
  result,    \* what its caller gets
  expired,   \* calls whose context is done
  uploaded,  \* calls whose file body is at its end
  reply,     \* Telegram's answer to the attempt on the wire
  shown,     \* times Telegram carried the call out
  tries,     \* history: attempts started
  moved,     \* Telegram: the chat a chat was migrated to
  handling,  \* chats one of whose updates is being handled
  records,   \* database: chats that own records
  admins,    \* chats the admin cache has an entry for
  late       \* history: chats that got records after they moved and
             \* have not been rewritten since

callVars == <<pc, chat, rounds, ladder, result, expired, uploaded>>
wireVars == <<reply, shown, tries>>
dbVars   == <<handling, records, admins, late>>
vars == <<callVars, wireVars, moved, dbVars>>

Replies == {"none", "ok", "redirect"} \cup (FailureKinds \ {"transport"})

\* Nothing tells the errors of the limiter, of the caller's context, of the
\* database and of an endless redirect apart: "aborted".
Results == {"none", "ok", "aborted"} \cup FailureKinds

TypeOK ==
  /\ pc \in [Calls -> {"idle", "slot", "attempt", "wire", "backoff", "redirect", "done"}]
  /\ chat \in [Calls -> Chats \cup {NoChat}]
  /\ rounds \in [Calls -> 0..(MaxRounds - 1)]
  /\ \A c \in Calls : ladder[c] \in Ladders(TransportBudget[c])
  /\ result \in [Calls -> Results]
  /\ expired \in SUBSET Calls
  /\ uploaded \in SUBSET Calls
  /\ reply \in [Calls -> Replies]
  /\ shown \in [Calls -> Nat]
  /\ tries \in [Calls -> Nat]
  /\ moved \in [Chats -> Chats \cup {NoChat}]
  /\ handling \in SUBSET Chats
  /\ records \in SUBSET Chats
  /\ admins \in SUBSET Chats
  /\ late \in SUBSET Chats

Init ==
  /\ pc = [c \in Calls |-> "idle"]
  /\ chat = [c \in Calls |-> NoChat]
  /\ rounds = [c \in Calls |-> 0]
  /\ ladder = [c \in Calls |-> FreshLadder]
  /\ result = [c \in Calls |-> "none"]
  /\ expired = {}
  /\ uploaded = {}
  /\ reply = [c \in Calls |-> "none"]
  /\ shown = [c \in Calls |-> 0]
  /\ tries = [c \in Calls |-> 0]
  /\ moved = [d \in Chats |-> NoChat]
  /\ handling = {}
  /\ records = {}
  /\ admins = {}
  /\ late = {}

-----------------------------------------------------------------------------
(* The call: runWritePolicy and, inside it, retry.Do.                      *)

\* The call goes on at p.
Goes(c, p) ==
  /\ pc' = [pc EXCEPT ![c] = p]
  /\ UNCHANGED <<result, expired>>

\* The call returns r to its caller; request, counters and context are gone.
Finish(c, r) ==
  /\ pc' = [pc EXCEPT ![c] = "done"]
  /\ result' = [result EXCEPT ![c] = r]
  /\ chat' = [chat EXCEPT ![c] = NoChat]
  /\ rounds' = [rounds EXCEPT ![c] = 0]
  /\ ladder' = [ladder EXCEPT ![c] = FreshLadder]
  /\ expired' = expired \ {c}
  /\ uploaded' = uploaded \ {c}
  /\ tries' = [tries EXCEPT ![c] = 0]

\* A wrapper (SendMessage, SendVideo, ...) is called.
Start(c) ==
  /\ pc[c] = "idle"
  /\ Goes(c, "slot")
  /\ \E d \in Chats : chat' = [chat EXCEPT ![c] = d]
  /\ UNCHANGED <<rounds, ladder, uploaded, wireVars, moved, dbVars>>

\* limiter.Wait granted a slot: retry.Do begins.
Slot(c) ==
  /\ pc[c] = "slot"
  /\ Goes(c, "attempt")
  /\ UNCHANGED <<chat, rounds, ladder, uploaded, wireVars, moved, dbVars>>

\* limiter.Wait failed: queue overflow, limiter closed, or context done.
NoSlot(c) ==
  /\ pc[c] = "slot"
  /\ Finish(c, "aborted")
  /\ UNCHANGED <<reply, shown, moved, dbVars>>

\* Mutation: the body is not rewound between attempts.
AttemptWithoutRewind(c) ==
  /\ pc[c] = "attempt"
  /\ c \notin expired
  /\ Goes(c, "wire")
  /\ tries' = [tries EXCEPT ![c] = @ + 1]
  /\ UNCHANGED <<chat, rounds, ladder, uploaded, reply, shown, moved, dbVars>>

\* The loop head of Do with a live context: the wrapper rewinds the body and
\* sends the request.
Attempt(c) ==
  /\ pc[c] = "attempt"
  /\ c \notin expired
  /\ Goes(c, "wire")
  /\ uploaded' = uploaded \ {c}
  /\ tries' = [tries EXCEPT ![c] = @ + 1]
  /\ UNCHANGED <<chat, rounds, ladder, reply, shown, moved, dbVars>>

\* The loop head of Do with a context that is done.
Abort(c) ==
  /\ pc[c] = "attempt"
  /\ c \in expired
  /\ Finish(c, "aborted")
  /\ UNCHANGED <<reply, shown, moved, dbVars>>

\* Do sleeps before another attempt; the body is at its end.
Retry(c, kind) ==
  /\ Goes(c, "backoff")
  /\ ladder' = [ladder EXCEPT ![c] = Advance(@, kind)]
  /\ uploaded' = uploaded \cup {c}
  /\ UNCHANGED <<chat, rounds, tries>>

\* Do has an error of this kind in hand: sleep before the next attempt or
\* give the error back.  A transport failure is not retried for a caller
\* that is gone.
Failed(c, kind) ==
  IF /\ Retries(ladder[c], kind, TransportBudget[c])
     /\ ~(kind = "transport" /\ c \in expired)
  THEN Retry(c, kind)
  ELSE Finish(c, kind)

\* Do returns the redirect at once: it is a 400.
Redirected(c) ==
  /\ Goes(c, "redirect")
  /\ ladder' = [ladder EXCEPT ![c] = FreshLadder]
  /\ UNCHANGED <<chat, rounds, uploaded, tries>>

\* Telegram's answer arrives: success, a redirect, or an API error.
Answer(c) ==
  /\ pc[c] = "wire"
  /\ reply[c] # "none"
  /\ reply' = [reply EXCEPT ![c] = "none"]
  /\ CASE reply[c] = "ok" -> Finish(c, "ok")
       [] reply[c] = "redirect" -> Redirected(c)
       [] OTHER -> Failed(c, reply[c])
  /\ UNCHANGED <<shown, moved, dbVars>>

\* The attempt ends without an answer.  A request Telegram has not processed
\* may be lost or on its way still; one that will be carried out later is
\* counted at once, the client cannot tell the difference.
Unanswered(c) ==
  /\ pc[c] = "wire"
  /\ reply' = [reply EXCEPT ![c] = "none"]
  /\ \/ UNCHANGED shown
     \/ reply[c] = "none" /\ shown' = [shown EXCEPT ![c] = @ + 1]
  /\ UNCHANGED <<moved, dbVars>>

\* Connection fault, the attempt's own deadline, or the caller's deadline.
Fault(c) == Unanswered(c) /\ Failed(c, "transport")

\* The caller canceled its context: context.Canceled is not retried.
Canceled(c) == c \in expired /\ Unanswered(c) /\ Finish(c, "aborted")

\* The sleep between two attempts is over, or the context ended it.
WakeUp(c) ==
  /\ pc[c] = "backoff"
  /\ \/ Goes(c, "attempt") /\ UNCHANGED <<chat, rounds, ladder, uploaded, tries>>
     \/ c \in expired /\ Finish(c, "aborted")
  /\ UNCHANGED <<reply, shown, moved, dbVars>>

\* The records of chat old under their new id.
Rewritten(old, new) ==
  IF old \in records THEN (records \ {old}) \cup {new} ELSE records

\* The loop of runWritePolicy goes around, or ends after MaxRounds.
NextRound(c) ==
  /\ IF rounds[c] + 1 < MaxRounds
     THEN /\ Goes(c, "slot")
          /\ chat' = [chat EXCEPT ![c] = moved[chat[c]]]
          /\ rounds' = [rounds EXCEPT ![c] = @ + 1]
          /\ UNCHANGED <<ladder, uploaded, tries>>
     ELSE Finish(c, "aborted")
  /\ late' = (late \ {chat[c]}) \cup
             {d \in {moved[chat[c]]} : chat[c] \in records /\ moved[d] # NoChat}
  /\ UNCHANGED <<reply, shown, moved, handling>>

\* Mutation: the admin cache of the old id is kept.
RedirectKeepsAdmins(c) ==
  /\ pc[c] = "redirect"
  /\ records' = Rewritten(chat[c], moved[chat[c]])
  /\ UNCHANGED admins
  /\ NextRound(c)

\* The redirect is followed: MigrateChatID moves the chat's records in one
\* transaction (what becomes of each is the concern of Rekey), the admin cache
\* of the old id is dropped, the request is re-addressed and the call waits for
\* a slot of the new chat.
Redirect(c) ==
  /\ pc[c] = "redirect"
  /\ records' = Rewritten(chat[c], moved[chat[c]])
  /\ admins' = admins \ {chat[c]}
  /\ NextRound(c)

\* MigrateChatID failed; its transaction is rolled back.
RedirectFails(c) ==
  /\ pc[c] = "redirect"
  /\ Finish(c, "aborted")
  /\ UNCHANGED <<reply, shown, moved, dbVars>>

-----------------------------------------------------------------------------
(* The callers' contexts, Telegram, and the handlers that write records.   *)

Expire(c) ==
  /\ pc[c] \notin {"idle", "done"}
  /\ c \notin expired
  /\ expired' = expired \cup {c}
  /\ UNCHANGED <<pc, chat, rounds, ladder, result, uploaded, wireVars, moved, dbVars>>

\* Telegram handles the request on the wire.  An upload whose body was not
\* rewound is empty and refused.
Process(c) ==
  /\ pc[c] = "wire"
  /\ reply[c] = "none"
  /\ uploaded' = uploaded \cup {c}
  /\ \E r \in Replies \ {"none"} :
       /\ r = "redirect" <=> moved[chat[c]] # NoChat
       /\ r = "ok" => c \notin uploaded
       /\ reply' = [reply EXCEPT ![c] = r]
       /\ shown' = [shown EXCEPT ![c] = IF r = "ok" THEN @ + 1 ELSE @]
  /\ UNCHANGED <<pc, chat, rounds, ladder, result, expired, tries,
                 moved, dbVars>>

\* A group becomes a supergroup with an id that was not in use.
Move(d, e) ==
  /\ moved[d] = NoChat /\ moved[e] = NoChat /\ d # e
  /\ \A x \in Chats : moved[x] # e
  /\ e \notin records \cup admins \cup handling
  /\ \A c \in Calls : chat[c] # e
  /\ moved' = [moved EXCEPT ![d] = e]
  /\ UNCHANGED <<callVars, wireVars, dbVars>>

\* Telegram sends an update under the chat's current id; the handler that
\* got it writes records and fills the admin cache some time later.
Receive(d) ==
  /\ moved[d] = NoChat
  /\ d \notin handling
  /\ handling' = handling \cup {d}
  /\ UNCHANGED <<callVars, wireVars, moved, records, admins, late>>

Handle(d) ==
  /\ d \in handling
  /\ handling' = handling \ {d}
  /\ records' = records \cup {d}
  /\ admins' = admins \cup {d}
  /\ late' = IF moved[d] = NoChat THEN late ELSE late \cup {d}
  /\ UNCHANGED <<callVars, wireVars, moved>>

CallStep(c) ==
  \/ Slot(c) \/ NoSlot(c) \/ Attempt(c) \/ Abort(c) \/ Answer(c) \/ Fault(c)
  \/ Canceled(c) \/ WakeUp(c) \/ Redirect(c) \/ RedirectFails(c)

Next ==
  \/ \E c \in Calls : Start(c) \/ CallStep(c) \/ Expire(c) \/ Process(c)
  \/ \E d, e \in Chats : Move(d, e)
  \/ \E d \in Chats : Receive(d) \/ Handle(d)

Spec == Init /\ [][Next]_vars

-----------------------------------------------------------------------------
(* What a caller may rely on.                                              *)

\* A success has been carried out by Telegram, whatever went wrong before.
SuccessShown == \A c \in Calls : result[c] = "ok" => shown[c] > 0

\* No attempt uploads from a body an earlier attempt has read to its end
\* (client.go:207-230).
WholeBody == \A c \in Calls : pc[c] = "wire" /\ reply[c] = "none" => c \notin uploaded

\* What a call reports as sent is there, and was sent whole.
SentWhole == SuccessShown /\ WholeBody

\* However attempts fail, time out or are redirected, nobody sees more
\* copies of one message than the transport budget of every round allows.
CopiesBounded ==
  \A c \in Calls :
    shown[c] <= MaxRounds * (TransportBudget[c] - 1) + 1

\* The kinds of failure share one ladder without multiplying: a round costs
\* at most the sum of the two budgets, not "max four attempts" (retry.go:10)
\* and not their product.
TriesBounded ==
  \A c \in Calls : tries[c] <= (rounds[c] + 1) * (ServerBudget + TransportBudget[c])

\* What a call may cost at the worst: requests made, and messages that others
\* see.
BudgetKept == CopiesBounded /\ TriesBounded

\* A replay against the new chat finds the transaction done and the admin cache
\* without the old id, unless the old id was given records after its move: by a
\* handler of an earlier update, or by a call that followed an older move of
\* the same chat later (client.go:188-201).
ReplayAfterRewrite ==
  \A c \in Calls, d \in Chats :
    /\ rounds[c] > 0
    /\ moved[d] = chat[c] /\ d \notin late
    => d \notin records \cup admins

\* "A transport fault never reached Telegram" (repost_common.go:224): a call
\* that failed with one has shown nothing, so the caller may replay it.
TransportFaultUnsent ==
  \A c \in Calls : result[c] = "transport" => shown[c] = 0
=============================================================================
