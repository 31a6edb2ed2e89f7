----------------------------- MODULE AdminCache -----------------------------
(***************************************************************************)
(* The cache of who administers a chat (shared/admin.go), which commands,  *)
(* dialogues and reactions ask.  One lock guards the entries of all chats, *)
(* and is held through the request to Telegram.  A chat's list matters by  *)
(* the number of changes it has in it; what an answer says of one person   *)
(* follows from it.                                                        *)
(***************************************************************************)
EXTENDS Naturals

CONSTANTS
  AdminChats,
  Callers,    \* goroutines that ask
  NoOne,      \* no caller, and no chat
  AdminTTL,   \* ttl
  MaxChanges  \* bound on changes of a chat's list

ASSUME AdminCacheAssumption ==
  NoOne \notin Callers \cup AdminChats /\ AdminTTL \in Nat /\ MaxChanges \in Nat

VARIABLES
  changes,  \* Telegram: the changes of each chat's administrators so far
  toHandle, \* chat_member updates whose handler has not invalidated yet
  cached,   \* the list of each chat and its age; an age of AdminTTL is too old
  writer,   \* who holds the lock to write
  caller,   \* where a caller is
  about,    \* the chat it asks about
  list,     \* the list it has from Telegram, or was answered from
  handled,  \* history: the latest change whose update had been handled
  since     \* history: that, when a caller asked

adminVars == <<changes, toHandle, cached, writer, caller, about, list, handled, since>>

Lists   == 0..MaxChanges
NoEntry == [list |-> 0, age |-> AdminTTL]

AdminCacheTypeOK ==
  /\ changes \in [AdminChats -> Lists] /\ toHandle \in [AdminChats -> SUBSET Lists]
  /\ cached \in [AdminChats -> [list : Lists, age : 0..AdminTTL]]
  /\ writer \in Callers \cup {NoOne}
  /\ caller \in [Callers -> {"idle", "missed", "fetch", "store", "answered"}]
  /\ about \in [Callers -> AdminChats \cup {NoOne}]
  /\ \A p \in Callers : caller[p] # "idle" => about[p] # NoOne
  /\ list \in [Callers -> Lists] /\ since \in [Callers -> Lists]
  /\ handled \in [AdminChats -> Lists]

AdminCacheInit ==
  /\ changes = [c \in AdminChats |-> 0] /\ handled = changes
  /\ toHandle = [c \in AdminChats |-> {}]
  /\ cached = [c \in AdminChats |-> NoEntry]
  /\ writer = NoOne
  /\ caller = [p \in Callers |-> "idle"]
  /\ about = [p \in Callers |-> NoOne]
  /\ list = [p \in Callers |-> 0] /\ since = list

----------------------------------------------------------------------------
\* Telegram: somebody is promoted, demoted, leaves or joins.
Change(c) ==
  /\ changes[c] < MaxChanges
  /\ changes' = [changes EXCEPT ![c] = @ + 1]
  /\ toHandle' = [toHandle EXCEPT ![c] = @ \cup {changes'[c]}]
  /\ UNCHANGED <<cached, writer, caller, about, list, handled, since>>

\* Invalidate, by the handler of an update.
Invalidate(c, n) ==
  /\ writer = NoOne /\ n \in toHandle[c]
  /\ cached' = [cached EXCEPT ![c] = NoEntry]
  /\ toHandle' = [toHandle EXCEPT ![c] = @ \ {n}]
  /\ handled' = [handled EXCEPT ![c] = IF n > @ THEN n ELSE @]
  /\ UNCHANGED <<changes, writer, caller, about, list, since>>

\* Invalidate, for a chat that has moved or where the bot itself was promoted.
DropEntry(c) ==
  /\ writer = NoOne
  /\ cached' = [cached EXCEPT ![c] = NoEntry]
  /\ UNCHANGED <<changes, toHandle, writer, caller, about, list, handled, since>>

AgePasses ==
  /\ cached' = [c \in AdminChats |-> [cached[c] EXCEPT !.age = IF @ < AdminTTL THEN @ + 1 ELSE @]]
  /\ UNCHANGED <<changes, toHandle, writer, caller, about, list, handled, since>>

FreshEntry(c) == cached[c].age < AdminTTL

\* Caller p has its answer, from the list of the entry.
AnswerFrom(p, c) ==
  /\ FreshEntry(c)
  /\ caller' = [caller EXCEPT ![p] = "answered"]
  /\ list' = [list EXCEPT ![p] = cached[c].list]
  /\ UNCHANGED writer

\* IsAdmin, up to the first unlock.
IsAdmin(p, c) ==
  /\ caller[p] \in {"idle", "answered"} /\ writer = NoOne
  /\ about' = [about EXCEPT ![p] = c]
  /\ since' = [since EXCEPT ![p] = handled[c]]
  /\ \/ AnswerFrom(p, c)
     \/ /\ ~FreshEntry(c)
        /\ caller' = [caller EXCEPT ![p] = "missed"]
        /\ UNCHANGED <<list, writer>>
  /\ UNCHANGED <<changes, toHandle, cached, handled>>

\* The look again under the other lock, which is kept for the request.
LookAgain(p) ==
  /\ caller[p] = "missed" /\ writer = NoOne
  /\ \/ AnswerFrom(p, about[p])
     \/ /\ ~FreshEntry(about[p])
        /\ caller' = [caller EXCEPT ![p] = "fetch"]
        /\ writer' = p
        /\ UNCHANGED list
  /\ UNCHANGED <<changes, toHandle, cached, about, handled, since>>

\* Telegram serves the request; it may be sent again, and served again.
ServeList(p) ==
  /\ caller[p] \in {"fetch", "store"}
  /\ caller' = [caller EXCEPT ![p] = "store"]
  /\ list' = [list EXCEPT ![p] = changes[about[p]]]
  /\ UNCHANGED <<changes, toHandle, cached, writer, about, handled, since>>

StoreList(p) ==
  /\ caller[p] = "store"
  /\ cached' = [cached EXCEPT ![about[p]] = [list |-> list[p], age |-> 0]]
  /\ caller' = [caller EXCEPT ![p] = "answered"]
  /\ writer' = NoOne
  /\ UNCHANGED <<changes, toHandle, about, list, handled, since>>

\* An error answers nobody and is not kept.
FetchFails(p) ==
  /\ caller[p] \in {"fetch", "store"}
  /\ caller' = [caller EXCEPT ![p] = "idle"]
  /\ writer' = NoOne
  /\ UNCHANGED <<changes, toHandle, cached, about, list, handled, since>>

AdminCacheRestart ==
  /\ cached' = [c \in AdminChats |-> NoEntry]
  /\ caller' = [p \in Callers |-> "idle"]
  /\ writer' = NoOne
  /\ \E lost \in SUBSET AdminChats : toHandle' = [c \in AdminChats |-> IF c \in lost THEN {} ELSE toHandle[c]]
  /\ UNCHANGED <<changes, about, list, handled, since>>

AdminCacheNext ==
  \/ \E c \in AdminChats : \/ Change(c) \/ DropEntry(c) \/ \E n \in toHandle[c] : Invalidate(c, n)
                           \/ \E p \in Callers : IsAdmin(p, c)
  \/ \E p \in Callers : LookAgain(p) \/ ServeList(p) \/ StoreList(p) \/ FetchFails(p)
  \/ AgePasses \/ AdminCacheRestart

AdminCacheSpec == AdminCacheInit /\ [][AdminCacheNext]_adminVars

----------------------------------------------------------------------------
\* RightsCurrent.  Whoever asks is answered from a list that has every change
\* in it whose update had been handled by then: with the update of a demotion
\* behind it, no command of that person passes, whatever requests were on the
\* way when it came.
RightsCurrent == \A p \in Callers : caller[p] = "answered" => list[p] >= since[p]
=============================================================================
