----------------------------- MODULE Admission ------------------------------
(***************************************************************************)
(* The bot in one supergroup: only its owner may add it (bot/membership.go,*)
(* storage/admission_attempt_repo.go), and the owner lists and leaves the  *)
(* chats it is in (bot/owner_chats.go) by the record kept of each          *)
(* (RecordMyChatMember and MarkBotLeft of domain/membership/service.go).   *)
(*                                                                         *)
(* A change of the bot's own status is an update, and every update has a   *)
(* goroutine of its own.  Of the record only the status is modelled.       *)
(***************************************************************************)
EXTENDS Naturals

CONSTANTS
  Strangers,     \* people other than the owner
  BotOwner,
  Desks,         \* commands and taps of the owner handled at once
  NoticeLimit,   \* unauthorizedAdmissionNoticeLimit
  NoRecord,
  MaxNews        \* bound on the changes of status people make

ASSUME AdmissionAssumption == {NoticeLimit, MaxNews} \subseteq Nat

VARIABLES
  botStatus,   \* Telegram: the bot in the chat
  adder,       \* and who added it last
  entered,     \* and the status it came with
  news,        \* updates about that, each with what its handler is at
  moves,       \* changes so far, the number of the latest update
  botRecord,   \* bucket chats: BotStatus
  attempts,    \* bucket admission_attempts
  notices,     \* messages to the owner about each stranger
  buttons,     \* what the owner can tap in the messages of /chats
  desk,        \* where a handler of the owner's is
  applied,     \* history: the latest update recorded
  disordered,  \* history: the record was written out of order
  mishap       \* history: an update was lost, or not carried out

updateVars == <<botStatus, adder, entered, news, moves>>
admissionVars == <<updateVars, botRecord, attempts, notices, buttons, desk,
                   applied, disordered, mishap>>

\* "left" stands for a ban as well.  A bot is nobody's creator.
BotStatuses == {"left", "restricted", "member", "administrator"}
Adders == Strangers \cup {BotOwner}
News == [no : Nat, by : Adders, old : BotStatuses, new : BotStatuses,
         at : {"count", "leave", "notice", "record"}, allowed : BOOLEAN]

AdmissionTypeOK ==
  /\ botStatus \in BotStatuses /\ adder \in Adders /\ entered \in BotStatuses
  /\ news \subseteq News /\ moves \in Nat
  /\ botRecord \in BotStatuses \cup {NoRecord}
  /\ attempts \in [Strangers -> Nat] /\ notices \in [Strangers -> Nat]
  /\ buttons \subseteq {"ask", "leave"}
  /\ desk \in [Desks -> {"idle", "verify", "leave", "mark"}]
  /\ applied \in 0..moves /\ disordered \in BOOLEAN /\ mishap \in BOOLEAN

AdmissionInit ==
  /\ botStatus = "left" /\ adder = BotOwner /\ entered = "member" /\ news = {} /\ moves = 0
  /\ botRecord = NoRecord
  /\ attempts = [s \in Strangers |-> 0] /\ notices = attempts
  /\ buttons = {} /\ desk = [d \in Desks |-> "idle"]
  /\ applied = 0 /\ disordered = FALSE /\ mishap = FALSE

----------------------------------------------------------------------------
\* Coming from outside as a member or an administrator is being added; a stranger
\* may not do that.  Coming as "restricted" is no addition to the handler.
Rejected(by, old, new) == /\ old = "left" /\ new \in {"member", "administrator"}
                          /\ by # BotOwner

\* A change of status, and the update about it.
StatusIs(by, new) ==
  /\ botStatus' = new /\ moves' = moves + 1
  /\ IF botStatus = "left" THEN adder' = by /\ entered' = new ELSE UNCHANGED <<adder, entered>>

Update(by, new) ==
  [no |-> moves + 1, by |-> by, old |-> botStatus, new |-> new, allowed |-> FALSE,
   at |-> IF Rejected(by, botStatus, new) THEN "count" ELSE "record"]

\* Somebody adds, promotes, demotes or removes the bot.
ChangeStatus(by, new) ==
  /\ moves < MaxNews /\ new # botStatus
  /\ StatusIs(by, new) /\ news' = news \cup {Update(by, new)}
  /\ UNCHANGED <<botRecord, attempts, notices, buttons, desk, applied, disordered, mishap>>

Becomes(u, v) == news' = (news \ {u}) \cup {v}
Done(u) == news' = news \ {u}

\* Mutation: a failure to count it lets the notice through.
CountFailsOpen(u) ==
  /\ u.at = "count"
  /\ \/ /\ attempts' = [attempts EXCEPT ![u.by] = @ + 1]
        /\ Becomes(u, [u EXCEPT !.at = "leave", !.allowed = attempts'[u.by] <= NoticeLimit])
     \/ /\ Becomes(u, [u EXCEPT !.at = "leave", !.allowed = TRUE])
        /\ UNCHANGED attempts
  /\ UNCHANGED <<botStatus, adder, entered, moves, botRecord, notices, buttons, desk, applied, disordered,
                 mishap>>

\* The attempt is counted, and bounds what the owner hears of this stranger;
\* when counting fails the owner hears nothing.
CountAttempt(u) ==
  /\ u.at = "count"
  /\ \/ /\ attempts' = [attempts EXCEPT ![u.by] = @ + 1]
        /\ Becomes(u, [u EXCEPT !.at = "leave", !.allowed = attempts'[u.by] <= NoticeLimit])
     \/ /\ Becomes(u, [u EXCEPT !.at = "leave"])
        /\ UNCHANGED attempts
  /\ UNCHANGED <<botStatus, adder, entered, moves, botRecord, notices, buttons, desk, applied, disordered,
                 mishap>>

\* The bot leaves, by whomever it was added meanwhile.  Only when its call is
\* known to have succeeded is the owner told.
LeaveChat(u) ==
  /\ u.at = "leave"
  /\ \/ /\ botStatus # "left"
        /\ StatusIs(u.by, "left")
        /\ \E notice \in SUBSET {v \in {[u EXCEPT !.at = "notice"]} : u.allowed} :
             news' = (news \ {u}) \cup {Update(u.by, "left")} \cup notice
        /\ UNCHANGED mishap
     \/ /\ Done(u)
        /\ mishap' = (mishap \/ botStatus # "left")
        /\ UNCHANGED <<botStatus, adder, entered, moves>>
  /\ UNCHANGED <<botRecord, attempts, notices, buttons, desk, applied, disordered>>

Notify(u) ==
  /\ u.at = "notice"
  /\ notices' \in {notices, [notices EXCEPT ![u.by] = @ + 1]}
  /\ Done(u)
  /\ UNCHANGED <<botStatus, adder, entered, moves, botRecord, attempts, buttons, desk, applied, disordered,
                 mishap>>

\* The record takes the status of the update, however late that is.
RecordMyChatMember(u) ==
  /\ u.at = "record"
  /\ Done(u)
  /\ \/ /\ botRecord' = u.new
        /\ disordered' = (disordered \/ u.no < applied)
        /\ applied' = IF u.no < applied THEN applied ELSE u.no
        /\ UNCHANGED mishap
     \/ mishap' = TRUE /\ UNCHANGED <<botRecord, disordered, applied>>
  /\ UNCHANGED <<botStatus, adder, entered, moves, attempts, notices, buttons, desk>>

----------------------------------------------------------------------------
Sits(d, s) == desk' = [desk EXCEPT ![d] = s]
StillIn(s) == s \in {"restricted", "member", "administrator"}

\* "/chats": the chats the records call current.
ListChats(d) ==
  /\ desk[d] = "idle" /\ StillIn(botRecord)
  /\ Sits(d, "verify")
  /\ UNCHANGED <<updateVars, botRecord, attempts, notices, buttons, applied, disordered, mishap>>

\* Telegram is asked about each of them: the bot is not there, or it is, or
\* nobody can tell and the chat is shown.
VerifyChat(d) ==
  /\ desk[d] = "verify"
  /\ \/ botStatus = "left" /\ Sits(d, "mark") /\ UNCHANGED buttons
     \/ Sits(d, "idle") /\ buttons' = buttons \cup {"ask"}
  /\ UNCHANGED <<updateVars, botRecord, attempts, notices, applied, disordered, mishap>>

\* The first button asks whether the owner means it.
AskLeave(d) ==
  /\ desk[d] = "idle" /\ "ask" \in buttons /\ StillIn(botRecord)
  /\ buttons' = buttons \cup {"leave"}
  /\ UNCHANGED <<updateVars, botRecord, attempts, notices, desk, applied, disordered, mishap>>

ConfirmLeave(d) ==
  /\ desk[d] = "idle" /\ "leave" \in buttons /\ StillIn(botRecord)
  /\ Sits(d, "leave")
  /\ UNCHANGED <<updateVars, botRecord, attempts, notices, buttons, applied, disordered, mishap>>

\* The bot leaves, or is known to be gone already; after any other answer, or
\* none, the owner may try again.
OwnerLeaves(d) ==
  /\ desk[d] = "leave"
  /\ \/ /\ botStatus # "left"
        /\ StatusIs(BotOwner, "left") /\ news' = news \cup {Update(BotOwner, "left")}
        /\ Sits(d, "mark") \/ Sits(d, "idle")
     \/ botStatus = "left" /\ Sits(d, "mark") /\ UNCHANGED updateVars
     \/ Sits(d, "idle") /\ UNCHANGED updateVars
  /\ UNCHANGED <<botRecord, attempts, notices, buttons, applied, disordered, mishap>>

\* A record there is becomes "left", whatever happened since.
MarkBotLeft(d) ==
  /\ desk[d] = "mark"
  /\ \/ /\ botRecord' = IF botRecord = NoRecord THEN NoRecord ELSE "left"
        /\ disordered' = (disordered \/ botStatus # "left")
     \/ UNCHANGED <<botRecord, disordered>>
  /\ Sits(d, "idle")
  /\ UNCHANGED <<updateVars, attempts, notices, buttons, applied, mishap>>

\* A restart: of the updates no handler has begun with some are delivered again.
AdmissionRestart ==
  /\ \E kept \in SUBSET {u \in news : u.at \in {"count", "record"}} :
       news' = kept /\ mishap' = (mishap \/ kept # news)
  /\ desk' = [d \in Desks |-> "idle"]
  /\ UNCHANGED <<botStatus, adder, entered, moves, botRecord, attempts, notices, buttons, applied, disordered>>

AdmissionNext ==
  \/ \E by \in Adders, new \in BotStatuses : ChangeStatus(by, new)
  \/ \E u \in news : CountAttempt(u) \/ LeaveChat(u) \/ Notify(u) \/ RecordMyChatMember(u)
  \/ \E d \in Desks :
       \/ ListChats(d) \/ VerifyChat(d) \/ AskLeave(d) \/ ConfirmLeave(d)
       \/ OwnerLeaves(d) \/ MarkBotLeft(d)
  \/ AdmissionRestart

AdmissionSpec == AdmissionInit /\ [][AdmissionNext]_admissionVars

----------------------------------------------------------------------------
Quiet == news = {} /\ \A d \in Desks : desk[d] = "idle"

\* The owner hears of a stranger a bounded number of times, however the attempts
\* overlap and fail.  When every update has been dealt with and none was lost,
\* the bot is only where its owner has put it or where it came as "restricted",
\* and, unless updates overtook each other or an answer about the chat was old,
\* the record says where it is.
AdmissionKept ==
  /\ \A s \in Strangers : notices[s] <= NoticeLimit
  /\ Quiet /\ ~mishap => botStatus = "left" \/ adder = BotOwner \/ entered = "restricted"
  /\ Quiet /\ ~mishap /\ ~disordered =>
       botRecord = botStatus \/ (botRecord = NoRecord /\ botStatus = "left")
=============================================================================
