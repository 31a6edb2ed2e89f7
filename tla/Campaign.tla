------------------------------ MODULE Campaign ------------------------------
(***************************************************************************)
(* The grace-kick campaign of one chat: Seed, Cancel and RunDaily of       *)
(* src/internal/domain/gracekick/gracekick.go, the kicks it has            *)
(* domain/cleanup do, and the scheduler runDailyCleanup of bot/app.go,     *)
(* over the membership records (module Members) that the handlers of other *)
(* updates write at the same time.                                         *)
(*                                                                         *)
(* A step ends at every Bot API call, at every bbolt transaction another   *)
(* goroutine can get in front of, and where RunDaily gives up the chat     *)
(* lock.  What RunDaily does to several tickets under the lock is one step *)
(* where nobody could tell the order.  The members an announcement names   *)
(* are any of those who qualify: which of them come first in the bucket,   *)
(* and how many names fit one message, is left open.                       *)
(***************************************************************************)
EXTENDS Members

CONSTANTS
  Users,
  NoTicket,
  Grace,      \* time between the warning and the kick
  Batch,      \* how many members one announcement may name
  Day,        \* time between two daily runs
  Threshold,  \* silence that makes a candidate
  MaxTime,    \* bound on the clock
  MaxInputs   \* bound on the acts of members, campaigns begun and faults

ASSUME TimesAssumption == /\ Grace \in Nat \ {0}
                          /\ Day \in Nat \ {0}
                          /\ Threshold \in Nat

VARIABLES
  now,      \* the clock
  chat,     \* Telegram: the status of every user in the chat
  inbox,    \* updates a handler has not recorded yet
  memb,     \* bucket members
  tickets,  \* bucket gracekick
  preview,  \* the candidates the admin was shown
  at,       \* where RunDaily is
  nextRun,  \* when the scheduler's timer fires
  runAt,    \* the time the run was given
  doomed,   \* members phase A decided to kick
  due,      \* those of them ExecuteCleanup has not come to
  target,   \* the member kickOne works on, in a set
  batch,    \* members of the announcement that are not marked tagged yet
  down,     \* the application's context is cancelled
  heard,    \* history: the latest recorded act of a user
  heardAt,  \* history: the same when phase A decided
  warned,   \* history: the run that last named a user in public, 0 for none
  stopped,  \* history: users whose ticket a Cancel removed, not seeded since
  inputs    \* history: how many acts, campaigns and faults there were

runVars     == <<at, nextRun, runAt, doomed, due, target, batch>>
historyVars == <<heard, heardAt, warned, stopped>>
vars == <<now, chat, inbox, memb, tickets, preview, runVars, down, historyVars, inputs>>

Queued(t) == [state |-> "queued", seeded |-> t, tagged |-> 0, deadline |-> 0]
Tagged(ticket, t) ==
  [state |-> "tagged", seeded |-> ticket.seeded, tagged |-> t, deadline |-> t + Grace]
TicketRecords == [state : {"queued", "tagged"}, seeded : Nat, tagged : Nat, deadline : Nat]
Events == [user : Users, kind : Statuses \cup {"message", "reaction"}, at : Nat]
Places == {"idle", "sweep", "kick", "ban", "unban", "clear", "promote", "announce", "tag"}

\* No stored ticket has the form of the absent one.
ASSUME NoTicketAssumption == NoTicket \notin TicketRecords

TypeOK ==
  /\ now \in Nat \ {0}
  /\ chat \in [Users -> Statuses]
  /\ inbox \subseteq Events
  /\ memb \in [Users -> MemberRecords \cup {NoMember}]
  /\ tickets \in [Users -> TicketRecords \cup {NoTicket}]
  /\ preview \subseteq Users
  /\ at \in Places /\ nextRun \in Nat /\ runAt \in 0..now
  /\ doomed \subseteq Users /\ due \subseteq doomed /\ target \subseteq doomed
  /\ batch \subseteq Users
  /\ down \in BOOLEAN
  /\ heard \in [Users -> Nat] /\ heardAt \in [Users -> Nat]
  /\ warned \in [Users -> 0..now]
  /\ stopped \subseteq Users
  /\ inputs \in Nat

\* The first daily slot that is strictly after time t.
NextDailyRun(t) == (t \div Day + 1) * Day

\* An admin has just been shown the candidates.
Init ==
  /\ now = 1
  /\ chat = [u \in Users |-> "member"]
  /\ inbox = {}
  /\ memb \in [Users -> {NoMember, [msg |-> 1, react |-> 0, status |-> "member"]}]
  /\ tickets = [u \in Users |-> NoTicket]
  /\ preview = {u \in Users : IsCandidate(memb[u], now - Threshold)}
  /\ at = "idle" /\ nextRun = NextDailyRun(1) /\ runAt = 0
  /\ doomed = {} /\ due = {} /\ target = {} /\ batch = {}
  /\ down = FALSE
  /\ heard = [u \in Users |-> IF memb[u] = NoMember THEN 0 ELSE memb[u].msg]
  /\ heardAt = [u \in Users |-> 0]
  /\ warned = [u \in Users |-> 0]
  /\ stopped = {}
  /\ inputs = 0

\* The transactions or reads that fail are F: a fault, unless there are none.
Failing(F) == /\ F # {} => inputs < MaxInputs
              /\ inputs' = IF F = {} THEN inputs ELSE inputs + 1

IsQueued(u) == tickets[u] # NoTicket /\ tickets[u].state = "queued"
IsTagged(u) == tickets[u] # NoTicket /\ tickets[u].state = "tagged"

Without(ts, S) == [u \in Users |-> IF u \in S THEN NoTicket ELSE ts[u]]

----------------------------------------------------------------------------
(* The members, and the handlers that record what they do.                 *)

Happens(u, kind) == inbox' = inbox \cup {[user |-> u, kind |-> kind, at |-> now]}

\* A member writes or reacts.
Act(u, kind) ==
  /\ chat[u] \in {"member", "administrator"}
  /\ inputs < MaxInputs /\ inputs' = inputs + 1
  /\ Happens(u, kind)
  /\ UNCHANGED <<now, chat, memb, tickets, preview, runVars, down, historyVars>>

\* Somebody leaves, comes back, is promoted or demoted.
ChangeStatus(u, s) ==
  /\ chat[u] # s
  /\ \/ s = "left" /\ chat[u] = "member"
     \/ s = "member" /\ chat[u] \in {"left", "administrator"}
     \/ s = "administrator" /\ chat[u] = "member"
  /\ inputs < MaxInputs /\ inputs' = inputs + 1
  /\ chat' = [chat EXCEPT ![u] = s]
  /\ Happens(u, s)
  /\ UNCHANGED <<now, memb, tickets, preview, runVars, down, historyVars>>

\* Handlers run side by side: events are recorded in any order.
Record(e) ==
  /\ e \in inbox
  /\ inbox' = inbox \ {e}
  /\ memb' = [memb EXCEPT ![e.user] = UpsertMember(@, e)]
  /\ heard' = [heard EXCEPT ![e.user] =
                 IF e.kind \in {"message", "reaction"} THEN LaterOf(@, e.at) ELSE @]
  /\ UNCHANGED <<now, chat, tickets, preview, runVars, down, heardAt, warned, stopped, inputs>>

\* The upsert fails, and the handler only logs it.
RecordFails(e) ==
  /\ e \in inbox
  /\ Failing({e})
  /\ inbox' = inbox \ {e}
  /\ UNCHANGED <<now, chat, memb, tickets, preview, runVars, down, historyVars>>

Tick ==
  /\ now < MaxTime
  /\ now' = now + 1
  /\ UNCHANGED <<chat, inbox, memb, tickets, preview, runVars, down, historyVars, inputs>>

----------------------------------------------------------------------------
(* The admin's side.                                                       *)

\* Mutation: no chat lock.
NoLock == TRUE

\* RunDaily holds the chat lock across the announcement and the marking.
LockFree == at \notin {"announce", "tag"}

PreviewInactive ==
  /\ preview = {} /\ inputs < MaxInputs
  /\ inputs' = inputs + 1
  /\ preview' = {u \in Users : IsCandidate(memb[u], now - Threshold)}
  /\ UNCHANGED <<now, chat, inbox, memb, tickets, runVars, down, historyVars>>

\* The first Put that fails ends it; what was put before stays.
Seed ==
  /\ LockFree
  /\ preview # {}
  /\ LET fresh == {u \in preview : tickets[u] = NoTicket}
     IN \E F \in SUBSET fresh :
          /\ Failing(F)
          /\ tickets' = [u \in Users |-> IF u \in fresh \ F THEN Queued(now) ELSE tickets[u]]
          /\ stopped' = stopped \ (fresh \ F)
  /\ preview' = {}
  /\ UNCHANGED <<now, chat, inbox, memb, runVars, down, heard, heardAt, warned>>

\* A Delete that fails is passed over.
Cancel ==
  /\ LockFree
  /\ LET all == {u \in Users : tickets[u] # NoTicket}
     IN \E F \in SUBSET all :
          /\ Failing(F)
          /\ tickets' = Without(tickets, all \ F)
          /\ stopped' = stopped \cup (all \ F)
  /\ UNCHANGED <<now, chat, inbox, memb, preview, runVars, down, heard, heardAt, warned>>

----------------------------------------------------------------------------
(* RunDaily.                                                               *)

\* The timer fires; the time of the run is taken before any chat's turn.
TimerFires ==
  /\ at = "idle" /\ ~down
  /\ now >= nextRun
  /\ at' = "sweep"
  /\ runAt' = now
  /\ UNCHANGED <<now, chat, inbox, memb, tickets, preview, nextRun, doomed, due, target, batch,
                 down, historyVars, inputs>>

\* The scheduler goes on with the next chat, or back to its timer.
Finish(place) == IF place = "idle" THEN nextRun' = NextDailyRun(now) /\ runAt' = 0
                                   ELSE UNCHANGED <<nextRun, runAt>>

\* Mutation: whoever is tagged is due.
NoGrace(u) == IsTagged(u)

GraceOver(u) == IsTagged(u) /\ runAt >= tickets[u].deadline

\* Phase A: who was warned and is silent still.  Records that cannot be read
\* defer the kick; a Delete that fails leaves the ticket for the next run.
Sweep ==
  /\ at = "sweep"
  /\ \E unread, F \in SUBSET Users :
       LET known  == {u \in Users \ unread : GraceOver(u) /\ memb[u] # NoMember}
           active == {u \in known : ActiveSince(memb[u], tickets[u].tagged)}
           place  == IF \A u \in Users : tickets[u] = NoTicket THEN "idle"
                     ELSE IF known \ active # {} THEN "kick" ELSE "promote"
       IN /\ unread \subseteq {u \in Users : GraceOver(u)} /\ F \subseteq active
          /\ Failing(unread \cup F)
          /\ tickets' = Without(tickets, active \ F)
          /\ doomed' = known \ active
          /\ due' = known \ active
          /\ at' = place
          /\ Finish(place)
          /\ heardAt' = [u \in Users |-> IF u \in known \ active THEN heard[u] ELSE 0]
  /\ UNCHANGED <<now, chat, inbox, memb, preview, target, batch, down,
                 heard, warned, stopped>>

\* Phase B, outside the lock.  The status is asked for again; a failed call,
\* an administrator and somebody who is gone are passed over.
KickCheck(u) ==
  /\ at = "kick"
  /\ u \in due
  /\ due' = due \ {u}
  /\ \/ /\ chat[u] \notin Protected
        /\ target' = {u} /\ at' = "ban"
     \/ at' = (IF due' = {} THEN "clear" ELSE "kick") /\ UNCHANGED target
  /\ UNCHANGED <<now, chat, inbox, memb, tickets, preview, nextRun, runAt, doomed, batch, down,
                 historyVars, inputs>>

NextKick == IF due = {} THEN "clear" ELSE "kick"

\* Telegram does not let a bot ban an administrator.
Ban(u) ==
  /\ at = "ban" /\ u \in target
  /\ chat[u] # "administrator"
  /\ chat' = [chat EXCEPT ![u] = "kicked"]
  /\ Happens(u, "kicked")
  /\ at' = "unban"
  /\ UNCHANGED <<now, memb, tickets, preview, nextRun, runAt, doomed, due, target, batch, down,
                 historyVars, inputs>>

\* Mutation: a ban that failed leaves its target in hand.
BanFailsHalfway ==
  /\ at = "ban"
  /\ at' = NextKick
  /\ UNCHANGED <<now, chat, inbox, memb, tickets, preview, nextRun, runAt, doomed, due, target,
                 batch, down, historyVars, inputs>>

BanFails ==
  /\ at = "ban"
  /\ target' = {}
  /\ at' = NextKick
  /\ UNCHANGED <<now, chat, inbox, memb, tickets, preview, nextRun, runAt, doomed, due, batch,
                 down, historyVars, inputs>>

\* A failed unban still counts as a kick.
Unban(u) ==
  /\ at = "unban" /\ u \in target
  /\ \/ /\ chat' = [chat EXCEPT ![u] = IF @ = "kicked" THEN "left" ELSE @]
        /\ Happens(u, "left")
        /\ Failing({})
     \/ Failing({u}) /\ UNCHANGED <<chat, inbox>>
  /\ target' = {}
  /\ at' = NextKick
  /\ UNCHANGED <<now, memb, tickets, preview, nextRun, runAt, doomed, due, batch, down,
                 historyVars>>

\* The context ends between two kicks: those that are left are not kicked.
BreakOff ==
  /\ at = "kick" /\ down
  /\ due # doomed
  /\ due' = {}
  /\ at' = "clear"
  /\ UNCHANGED <<now, chat, inbox, memb, tickets, preview, nextRun, runAt, doomed, target, batch,
                 down, historyVars, inputs>>

\* The tickets of all who were to be kicked go, whatever became of each.
ClearDoomed ==
  /\ at = "clear"
  /\ \E F \in SUBSET {u \in doomed : tickets[u] # NoTicket} :
       /\ Failing(F)
       /\ tickets' = Without(tickets, doomed \ F)
  /\ doomed' = {}
  /\ heardAt' = [u \in Users |-> 0]
  /\ at' = (IF down THEN "idle" ELSE "promote")
  /\ Finish(at')
  /\ UNCHANGED <<now, chat, inbox, memb, preview, due, target, batch, down, heard, warned,
                 stopped>>

\* Phase C: the tickets are listed again, and the lock is kept from here.
\* Looking ends with the ticket that fills the batch.
Promoting(looked, unread, F) ==
  LET known    == {u \in looked \ unread : memb[u] # NoMember}
      returned == {u \in known : ActiveSince(memb[u], tickets[u].seeded)}
      unfit    == {u \in known \ returned : memb[u].status \in Protected}
      fit      == known \ (returned \cup unfit)
  IN /\ Failing(unread \cup F)
     /\ F \subseteq returned \cup unfit
     /\ Cardinality(fit) <= Batch
     /\ Cardinality(fit) = Batch \/ looked = {u \in Users : IsQueued(u)}
     /\ tickets' = Without(tickets, (returned \cup unfit) \ F)
     /\ \/ /\ fit = {} /\ batch' = {} /\ at' = "idle"
        \/ /\ fit # {} /\ at' = "announce"
           /\ batch' \in (SUBSET fit) \ {{}}

Promote ==
  /\ at = "promote"
  /\ \E looked \in SUBSET {u \in Users : IsQueued(u)} :
       \E unread, F \in SUBSET looked : Promoting(looked, unread, F)
  /\ Finish(at')
  /\ UNCHANGED <<now, chat, inbox, memb, preview, doomed, due, target, down, historyVars>>

Announce ==
  /\ at = "announce"
  /\ warned' = [u \in Users |-> IF u \in batch THEN runAt ELSE warned[u]]
  /\ at' = "tag"
  /\ UNCHANGED <<now, chat, inbox, memb, tickets, preview, nextRun, runAt, doomed, due, target,
                 batch, down, heard, heardAt, stopped, inputs>>

\* Everybody stays queued.
AnnounceFails ==
  /\ at = "announce"
  /\ batch' = {} /\ at' = "idle" /\ Finish("idle")
  /\ UNCHANGED <<now, chat, inbox, memb, tickets, preview, doomed, due, target, down,
                 historyVars, inputs>>

\* A Put that fails leaves the ticket queued.
Tag(u) ==
  /\ at = "tag" /\ u \in batch
  /\ \E F \in SUBSET {u} :
       /\ Failing(F)
       /\ tickets' = IF F = {}
                     THEN [tickets EXCEPT ![u] = Tagged(@, runAt)] ELSE tickets
  /\ batch' = batch \ {u}
  /\ at' = (IF batch' = {} THEN "idle" ELSE "tag")
  /\ Finish(at')
  /\ UNCHANGED <<now, chat, inbox, memb, preview, doomed, due, target, down, historyVars>>

----------------------------------------------------------------------------
\* Of interest during a run only: between two runs the scheduler just returns.
ContextEnds ==
  /\ ~down /\ at # "idle"
  /\ Failing({"stop"})
  /\ down' = TRUE
  /\ UNCHANGED <<now, chat, inbox, memb, tickets, preview, runVars, historyVars>>

\* The process dies, in the middle of anything, and starts again.  Updates
\* that were being handled are gone.
Restart ==
  /\ Failing(IF down THEN {} ELSE {"crash"})
  /\ at' = "idle" /\ Finish("idle")
  /\ doomed' = {} /\ due' = {} /\ target' = {} /\ batch' = {} /\ preview' = {} /\ inbox' = {}
  /\ down' = FALSE
  /\ UNCHANGED <<now, chat, memb, tickets, historyVars>>

Next ==
  \/ \E u \in Users, kind \in {"message", "reaction"} : Act(u, kind)
  \/ \E u \in Users, s \in Statuses : ChangeStatus(u, s)
  \/ \E e \in inbox : Record(e) \/ RecordFails(e)
  \/ Tick \/ PreviewInactive \/ Seed \/ Cancel
  \/ TimerFires \/ Sweep
  \/ \E u \in Users : KickCheck(u) \/ Ban(u) \/ Unban(u) \/ Tag(u)
  \/ BanFails \/ BreakOff \/ ClearDoomed \/ Promote \/ Announce \/ AnnounceFails
  \/ ContextEnds \/ Restart

Spec == Init /\ [][Next]_vars

----------------------------------------------------------------------------
(* Properties.                                                             *)

Kicked(u) == chat[u] # "kicked" /\ chat'[u] = "kicked"

\* Nobody is kicked who was not named in a public warning, and no sooner than
\* the whole grace period after the run that posted it, whatever crashed,
\* failed, was cancelled or seeded again in between.
KickedAfterGrace ==
  [][\A u \in Users : Kicked(u) => warned[u] > 0 /\ warned[u] + Grace <= now]_vars

\* Nobody is kicked of whom a message or reaction from the second of the
\* warning on had been recorded when the run decided, however late and in
\* whatever order the handlers recorded it.
KickedWereSilent ==
  [][\A u \in Users : Kicked(u) => heardAt[u] < warned[u]]_vars

\* A stopped campaign stays stopped: a ticket that Cancel removed does not
\* come back unless the member is seeded again, though a daily run was under
\* way with lists it made before.
StopHonoured == \A u \in stopped : tickets[u] = NoTicket /\ u \notin batch
=============================================================================
