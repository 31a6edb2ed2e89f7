-------------------------- MODULE Campaign_proofs --------------------------
(***************************************************************************)
(* Proofs about the grace-kick campaign for any number of members, any     *)
(* grace period, batch and daily interval, and any number of faults.       *)
(***************************************************************************)
EXTENDS Campaign, TLAPS

\* What a handler has recorded of a member's acts is in the record.
Recorded ==
  \A u \in Users : heard[u] > 0 => /\ memb[u] # NoMember
                                   /\ memb[u].msg >= heard[u] \/ memb[u].react >= heard[u]

\* A tagged member was named in public by the run the ticket tells of.
TaggedWereWarned ==
  \A u \in Users : IsTagged(u) => /\ warned[u] > 0
                                  /\ tickets[u].tagged = warned[u]
                                  /\ tickets[u].deadline = warned[u] + Grace

\* Those who are to be kicked had their grace and were silent.
DoomedWereWarned ==
  \A u \in doomed : /\ warned[u] > 0
                    /\ warned[u] + Grace <= runAt
                    /\ heardAt[u] < warned[u]

\* The lists of a run live where the run uses them.
ListsInPlace ==
  /\ doomed # {} => at \in {"kick", "ban", "unban", "clear"}
  /\ due # {} => at \in {"kick", "ban", "unban"}
  /\ target # {} => at \in {"ban", "unban"}
  /\ batch # {} => at \in {"announce", "tag"}
  /\ at # "idle" => runAt > 0
  /\ \A u \in batch : IsQueued(u)
  /\ at = "tag" => \A u \in batch : warned[u] = runAt

IndInv == /\ TypeOK
          /\ Recorded
          /\ TaggedWereWarned
          /\ DoomedWereWarned
          /\ ListsInPlace
          /\ StopHonoured

USE DEF Statuses

LEMMA CurrentType ==
  ASSUME NEW m \in MemberRecords \cup {NoMember}
  PROVE  Current(m) \in MemberRecords
BY DEF Current, MemberRecords

\* An upsert keeps a record a record, and moves its times only forward.
LEMMA UpsertKeeps ==
  ASSUME NEW m \in MemberRecords \cup {NoMember}, NEW e \in Events
  PROVE  /\ UpsertMember(m, e) \in MemberRecords
         /\ UpsertMember(m, e) # NoMember
         /\ UpsertMember(m, e).msg >= Current(m).msg
         /\ UpsertMember(m, e).react >= Current(m).react
         /\ e.kind = "message" => UpsertMember(m, e).msg >= e.at
         /\ e.kind = "reaction" => UpsertMember(m, e).react >= e.at
<1>1. Current(m) \in MemberRecords
  BY CurrentType
<1>2. /\ Current(m).msg \in Nat /\ Current(m).react \in Nat
      /\ Current(m).status \in Statuses \cup {"unknown"}
  BY <1>1 DEF MemberRecords
<1>3. e.at \in Nat /\ e.kind \in Statuses \cup {"message", "reaction"}
  BY DEF Events
<1>4. UpsertMember(m, e) \in MemberRecords
  BY <1>2, <1>3 DEF UpsertMember, MemberRecords, LaterOf
<1>5. /\ UpsertMember(m, e).msg >= Current(m).msg
      /\ UpsertMember(m, e).react >= Current(m).react
      /\ e.kind = "message" => UpsertMember(m, e).msg >= e.at
      /\ e.kind = "reaction" => UpsertMember(m, e).react >= e.at
  BY <1>2, <1>3 DEF UpsertMember, LaterOf
<1> QED BY <1>4, <1>5, NoMemberAssumption

LEMMA NextDailyRunType == ASSUME NEW t \in Nat PROVE NextDailyRun(t) \in Nat
BY TimesAssumption DEF NextDailyRun


-----------------------------------------------------------------------------
LEMMA InitInv == Init => IndInv
<1> SUFFICES ASSUME Init PROVE IndInv
  OBVIOUS
<1>1. memb \in [Users -> MemberRecords \cup {NoMember}]
  BY DEF Init, MemberRecords
<1>2. heard \in [Users -> Nat]
  BY <1>1 DEF Init, MemberRecords
<1>3. nextRun \in Nat
  BY NextDailyRunType DEF Init
<1>4. TypeOK
  <2>1. now = 1 /\ runAt \in 0..now /\ warned \in [Users -> 0..now]
    BY DEF Init
  <2>2. /\ chat \in [Users -> Statuses] /\ heardAt \in [Users -> Nat]
        /\ tickets \in [Users -> TicketRecords \cup {NoTicket}]
    BY DEF Init
  <2>3. /\ at \in Places /\ inbox = {} /\ preview \subseteq Users
        /\ doomed = {} /\ due = {} /\ target = {} /\ batch = {} /\ stopped = {}
        /\ down \in BOOLEAN /\ inputs \in Nat
    BY DEF Init, Places
  <2> QED BY <1>1, <1>2, <1>3, <2>1, <2>2, <2>3 DEF TypeOK
<1>5. Recorded
  BY DEF Init, Recorded
<1> QED BY <1>4, <1>5 DEF Init, IndInv, TaggedWereWarned, DoomedWereWarned, ListsInPlace,
          StopHonoured, IsTagged

USE TimesAssumption

\* The events and the clock of the members' side.
LEMMA MembersStep ==
  ASSUME IndInv,
         \/ \E u \in Users, kind \in {"message", "reaction"} : Act(u, kind)
         \/ \E u \in Users, s \in Statuses : ChangeStatus(u, s)
         \/ \E e \in inbox : RecordFails(e)
         \/ Tick
         \/ PreviewInactive
         \/ UNCHANGED vars
  PROVE  IndInv' /\ \A u \in Users : ~Kicked(u)
<1> USE DEF IndInv, Recorded, TaggedWereWarned, DoomedWereWarned, ListsInPlace, StopHonoured,
            IsTagged, IsQueued, Kicked, historyVars, runVars
<1>1. ASSUME NEW u \in Users, NEW kind \in {"message", "reaction"}, Act(u, kind)
      PROVE  IndInv' /\ \A v \in Users : ~Kicked(v)
  BY <1>1 DEF Act, Happens, TypeOK, Events
<1>2. ASSUME NEW u \in Users, NEW s \in Statuses, ChangeStatus(u, s)
      PROVE  IndInv' /\ \A v \in Users : ~Kicked(v)
  BY <1>2 DEF ChangeStatus, Happens, TypeOK, Events
<1>3. ASSUME NEW e \in inbox, RecordFails(e)
      PROVE  IndInv' /\ \A v \in Users : ~Kicked(v)
  BY <1>3 DEF RecordFails, Failing, TypeOK
<1>4. ASSUME Tick PROVE IndInv' /\ \A v \in Users : ~Kicked(v)
  BY <1>4 DEF Tick, TypeOK
<1>5. ASSUME PreviewInactive PROVE IndInv' /\ \A v \in Users : ~Kicked(v)
  BY <1>5 DEF PreviewInactive, TypeOK
<1>6. ASSUME UNCHANGED vars PROVE IndInv' /\ \A v \in Users : ~Kicked(v)
  BY <1>6 DEF vars, TypeOK
<1> QED BY <1>1, <1>2, <1>3, <1>4, <1>5, <1>6

\* A handler records an event.
LEMMA RecordStep ==
  ASSUME IndInv, NEW e \in inbox, Record(e)
  PROVE  IndInv' /\ \A u \in Users : ~Kicked(u)
<1>1. e \in Events /\ memb[e.user] \in MemberRecords \cup {NoMember} /\ e.user \in Users
  BY DEF IndInv, TypeOK, Events
<1>2. memb' \in [Users -> MemberRecords \cup {NoMember}]
  BY <1>1, UpsertKeeps DEF Record, IndInv, TypeOK
<1>3. heard' \in [Users -> Nat]
  BY <1>1 DEF Record, IndInv, TypeOK, Events, LaterOf
<1>4. TypeOK'
  BY <1>2, <1>3 DEF Record, IndInv, TypeOK, historyVars, runVars
<1>5. Recorded'
  <2> SUFFICES ASSUME NEW u \in Users, heard'[u] > 0
               PROVE  /\ memb'[u] # NoMember
                      /\ memb'[u].msg >= heard'[u] \/ memb'[u].react >= heard'[u]
    BY DEF Recorded
  <2>1. CASE u # e.user
    BY <2>1 DEF Record, IndInv, TypeOK, Recorded
  <2>2. CASE u = e.user
    <3> DEFINE m == memb[u]
               n == UpsertMember(m, e)
    <3>1. memb'[u] = n /\ n \in MemberRecords /\ n # NoMember
      BY <1>1, <2>2, UpsertKeeps DEF Record, IndInv, TypeOK
    <3>2. /\ n.msg >= Current(m).msg /\ n.react >= Current(m).react
          /\ e.kind = "message" => n.msg >= e.at
          /\ e.kind = "reaction" => n.react >= e.at
      BY <1>1, <2>2, UpsertKeeps
    <3>3. Current(m) \in MemberRecords /\ heard[u] \in Nat /\ e.at \in Nat
      BY <1>1, <2>2, CurrentType DEF IndInv, TypeOK, Events
    <3>4. heard[u] > 0 => Current(m).msg >= heard[u] \/ Current(m).react >= heard[u]
      BY DEF IndInv, Recorded, Current
    <3>5. heard'[u] = heard[u] \/ (heard'[u] = e.at /\ e.kind \in {"message", "reaction"})
      BY <2>2 DEF Record, IndInv, TypeOK, LaterOf
    <3> HIDE DEF n
    <3>6. n.msg \in Nat /\ n.react \in Nat /\ Current(m).msg \in Nat /\ Current(m).react \in Nat
      BY <3>1, <3>3 DEF MemberRecords
    <3> HIDE DEF m
    <3> QED BY <3>1, <3>2, <3>3, <3>4, <3>5, <3>6
  <2> QED BY <2>1, <2>2
<1> QED BY <1>4, <1>5 DEF Record, IndInv, TaggedWereWarned, DoomedWereWarned, ListsInPlace,
          StopHonoured, IsTagged, IsQueued, Kicked, runVars, TypeOK

\* The admin's side.
LEMMA AdminStep ==
  ASSUME IndInv, Seed \/ Cancel
  PROVE  IndInv' /\ \A u \in Users : ~Kicked(u)
<1> USE DEF IndInv, Recorded, TaggedWereWarned, DoomedWereWarned, ListsInPlace, StopHonoured,
            IsTagged, IsQueued, Kicked, runVars, LockFree
<1>1. CASE Seed
  <2>1. PICK F \in SUBSET {u \in preview : tickets[u] = NoTicket} :
          /\ Failing(F)
          /\ tickets' = [u \in Users |-> IF u \in {v \in preview : tickets[v] = NoTicket} \ F
                                         THEN Queued(now) ELSE tickets[u]]
          /\ stopped' = stopped \ ({v \in preview : tickets[v] = NoTicket} \ F)
    BY <1>1 DEF Seed
  <2>2. Queued(now) \in TicketRecords /\ Queued(now).state = "queued"
    BY DEF Queued, TicketRecords, TypeOK
  <2> QED BY <1>1, <2>1, <2>2, NoTicketAssumption DEF Seed, Failing, TypeOK
<1>2. CASE Cancel
  <2>1. PICK F \in SUBSET {u \in Users : tickets[u] # NoTicket} :
          /\ Failing(F)
          /\ tickets' = Without(tickets, {u \in Users : tickets[u] # NoTicket} \ F)
          /\ stopped' = stopped \cup ({u \in Users : tickets[u] # NoTicket} \ F)
    BY <1>2 DEF Cancel
  <2> QED BY <1>2, <2>1 DEF Cancel, Without, Failing, TypeOK
<1> QED BY <1>1, <1>2

\* The steps of a run that list, decide and clear up.
LEMMA SweepStep ==
  ASSUME IndInv, Sweep
  PROVE  IndInv' /\ \A u \in Users : ~Kicked(u)
<1> PICK unread \in SUBSET Users, F \in SUBSET Users :
       LET known  == {u \in Users \ unread : GraceOver(u) /\ memb[u] # NoMember}
           active == {u \in known : ActiveSince(memb[u], tickets[u].tagged)}
           place  == IF \A u \in Users : tickets[u] = NoTicket THEN "idle"
                     ELSE IF known \ active # {} THEN "kick" ELSE "promote"
       IN /\ unread \subseteq {u \in Users : GraceOver(u)} /\ F \subseteq active
          /\ Failing(unread \cup F)
          /\ tickets' = Without(tickets, active \ F)
          /\ doomed' = known \ active
          /\ due' = known \ active
          /\ at' = place
          /\ Finish(place)
          /\ heardAt' = [u \in Users |-> IF u \in known \ active THEN heard[u] ELSE 0]
  BY DEF Sweep
<1> DEFINE known  == {u \in Users \ unread : GraceOver(u) /\ memb[u] # NoMember}
           active == {u \in known : ActiveSince(memb[u], tickets[u].tagged)}
           guilty == known \ active
<1>1. /\ at = "sweep"
      /\ tickets' = Without(tickets, active \ F)
      /\ doomed' = guilty /\ due' = guilty
      /\ at' \in {"idle", "kick", "promote"}
      /\ guilty # {} => at' = "kick"
      /\ Finish(at')
      /\ heardAt' = [u \in Users |-> IF u \in guilty THEN heard[u] ELSE 0]
      /\ inputs' \in Nat
  <2>1. at = "sweep"
    BY DEF Sweep
  <2>2. inputs' \in Nat
    BY DEF Failing, IndInv, TypeOK
  <2>3. \A u \in guilty : tickets[u] # NoTicket /\ u \in Users
    BY DEF GraceOver, IsTagged
  <2>4. /\ at' \in {"idle", "kick", "promote"}
        /\ guilty # {} => at' = "kick"
    BY <2>3
  <2> QED BY <2>1, <2>2, <2>4
<1>2. \A u \in guilty : /\ u \in Users /\ IsTagged(u) /\ runAt >= tickets[u].deadline
                        /\ memb[u] # NoMember /\ ~ActiveSince(memb[u], tickets[u].tagged)
  BY DEF GraceOver, IsTagged
<1> HIDE DEF known, active, guilty
<1>3. \A u \in guilty : warned[u] > 0 /\ warned[u] + Grace <= runAt /\ heard[u] < warned[u]
  <2> TAKE u \in guilty
  <2>1. /\ warned[u] > 0 /\ tickets[u].tagged = warned[u]
        /\ tickets[u].deadline = warned[u] + Grace
    BY <1>2 DEF IndInv, TaggedWereWarned
  <2>2. ~ActiveSince(memb[u], warned[u]) /\ memb[u] \in MemberRecords
    BY <1>2, <2>1 DEF IndInv, TypeOK
  <2>3. heard[u] > 0 => memb[u].msg >= heard[u] \/ memb[u].react >= heard[u]
    BY <1>2 DEF IndInv, Recorded
  <2>4. /\ memb[u].msg \in Nat /\ memb[u].react \in Nat /\ heard[u] \in Nat /\ warned[u] \in Nat
        /\ runAt \in Nat
    BY <1>2, <2>2 DEF MemberRecords, IndInv, TypeOK
  <2>5. heard[u] < warned[u]
    BY <2>1, <2>2, <2>3, <2>4 DEF ActiveSince, SeenAtOrAfter
  <2> QED BY <1>2, <2>1, <2>4, <2>5
<1>4. guilty \subseteq Users
  BY <1>2
<1>5. /\ nextRun' \in Nat
      /\ runAt' \in 0..now
      /\ at' = "idle" => runAt' = 0
      /\ at' # "idle" => runAt' = runAt
  BY <1>1, NextDailyRunType DEF Finish, IndInv, TypeOK
<1>6. TypeOK'
  <2>1. tickets' \in [Users -> TicketRecords \cup {NoTicket}]
    BY <1>1 DEF Without, IndInv, TypeOK
  <2>2. heardAt' \in [Users -> Nat]
    BY <1>1 DEF IndInv, TypeOK
  <2>3. doomed' \subseteq Users /\ due' \subseteq doomed' /\ target' \subseteq doomed' /\ at' \in Places
    BY <1>1, <1>4 DEF Sweep, IndInv, TypeOK, Places, ListsInPlace
  <2> QED BY <1>1, <1>5, <2>1, <2>2, <2>3 DEF Sweep, IndInv, TypeOK
<1>7. TaggedWereWarned' /\ StopHonoured' /\ Recorded'
  BY <1>1 DEF Sweep, IndInv, TypeOK, Without, TaggedWereWarned, IsTagged, StopHonoured, Recorded
<1>8. DoomedWereWarned'
  <2> SUFFICES ASSUME NEW u \in guilty
               PROVE  warned'[u] > 0 /\ warned'[u] + Grace <= runAt' /\ heardAt'[u] < warned'[u]
    BY <1>1 DEF DoomedWereWarned
  <2>1. runAt' = runAt /\ heardAt'[u] = heard[u] /\ warned' = warned
    BY <1>1, <1>4, <1>5 DEF Sweep
  <2> QED BY <1>3, <2>1
<1>9. ListsInPlace'
  <2>1. batch' = {} /\ target' = {} /\ runAt > 0
    BY DEF Sweep, IndInv, ListsInPlace
  <2> QED BY <1>1, <1>5, <2>1 DEF ListsInPlace
<1> QED BY <1>1, <1>6, <1>7, <1>8, <1>9 DEF Sweep, IndInv, Kicked, TypeOK

LEMMA ClearStep ==
  ASSUME IndInv, ClearDoomed
  PROVE  IndInv' /\ \A u \in Users : ~Kicked(u)
<1> PICK F \in SUBSET {u \in doomed : tickets[u] # NoTicket} :
       Failing(F) /\ tickets' = Without(tickets, doomed \ F)
  BY DEF ClearDoomed
<1>1. nextRun' \in Nat /\ runAt' \in 0..now /\ (at' # "idle" => runAt' = runAt)
      /\ at' \in {"idle", "promote"} /\ inputs' \in Nat
  BY NextDailyRunType DEF ClearDoomed, Finish, Failing, IndInv, TypeOK
<1>2. TypeOK'
  <2>1. tickets' \in [Users -> TicketRecords \cup {NoTicket}]
    BY DEF Without, IndInv, TypeOK
  <2>2. heardAt' \in [Users -> Nat]
    BY DEF ClearDoomed
  <2>3. due = {} /\ target = {}
    BY DEF ClearDoomed, IndInv, ListsInPlace
  <2> QED BY <1>1, <2>1, <2>2, <2>3 DEF ClearDoomed, IndInv, TypeOK, Places
<1>3. Recorded' /\ TaggedWereWarned' /\ StopHonoured'
  BY DEF ClearDoomed, IndInv, TypeOK, Without, Recorded, TaggedWereWarned, IsTagged, StopHonoured
<1>4. DoomedWereWarned' /\ ListsInPlace'
  BY <1>1 DEF ClearDoomed, IndInv, TypeOK, DoomedWereWarned, ListsInPlace
<1> QED BY <1>2, <1>3, <1>4 DEF ClearDoomed, IndInv, Kicked, TypeOK

LEMMA PromoteStep ==
  ASSUME IndInv, Promote
  PROVE  IndInv' /\ \A u \in Users : ~Kicked(u)
<1> PICK looked \in SUBSET {u \in Users : IsQueued(u)}, unread \in SUBSET Users,
         F \in SUBSET Users : Promoting(looked, unread, F)
  BY DEF Promote
<1> DEFINE known    == {u \in looked \ unread : memb[u] # NoMember}
           returned == {u \in known : ActiveSince(memb[u], tickets[u].seeded)}
           unfit    == {u \in known \ returned : memb[u].status \in Protected}
           gone     == (returned \cup unfit) \ F
<1>1. /\ tickets' = Without(tickets, gone)
      /\ batch' \subseteq {u \in Users : IsQueued(u)} /\ batch' \cap gone = {}
      /\ at' \in {"idle", "announce"} /\ (batch' # {} => at' = "announce")
      /\ inputs' \in Nat
  BY DEF Promoting, Failing, IndInv, TypeOK
<1> HIDE DEF known, returned, unfit, gone
<1>2. nextRun' \in Nat /\ runAt' \in 0..now /\ (at' # "idle" => runAt' = runAt)
  BY <1>1, NextDailyRunType DEF Promote, Finish, IndInv, TypeOK
<1>3. TypeOK'
  <2>1. tickets' \in [Users -> TicketRecords \cup {NoTicket}]
    BY <1>1 DEF Without, IndInv, TypeOK
  <2> QED BY <1>1, <1>2, <2>1 DEF Promote, IndInv, TypeOK, Places, historyVars
<1>4. Recorded' /\ TaggedWereWarned'
  BY <1>1 DEF Promote, IndInv, TypeOK, Without, historyVars, Recorded, TaggedWereWarned, IsTagged
<1>5. DoomedWereWarned'
  <2>1. doomed = {}
    BY DEF Promote, IndInv, ListsInPlace
  <2> QED BY <2>1 DEF Promote, DoomedWereWarned
<1>6. ListsInPlace'
  <2>1. doomed = {} /\ due = {} /\ target = {} /\ runAt > 0
    BY DEF Promote, IndInv, ListsInPlace
  <2>2. \A u \in batch' : tickets'[u] = tickets[u] /\ IsQueued(u)
    BY <1>1 DEF Without
  <2> QED BY <1>1, <1>2, <2>1, <2>2 DEF Promote, ListsInPlace, IsQueued
<1>7. StopHonoured'
  BY <1>1 DEF Promote, IndInv, TypeOK, Without, historyVars, StopHonoured, IsQueued
<1> QED BY <1>3, <1>4, <1>5, <1>6, <1>7 DEF Promote, IndInv, Kicked, TypeOK

\* The steps of a run that talk to Telegram, its start and its ends.
LEMMA RunStep ==
  ASSUME IndInv,
         \/ TimerFires
         \/ \E u \in Users : KickCheck(u) \/ Unban(u)
         \/ BanFails \/ BreakOff \/ AnnounceFails
         \/ ContextEnds \/ Restart
  PROVE  IndInv' /\ \A u \in Users : ~Kicked(u)
<1> USE DEF IndInv, Recorded, TaggedWereWarned, DoomedWereWarned, ListsInPlace, StopHonoured,
            IsTagged, IsQueued, Kicked, Places
<1>1. CASE TimerFires
  BY <1>1 DEF TimerFires, TypeOK, historyVars
<1>2. ASSUME NEW u \in Users, KickCheck(u)
      PROVE  IndInv' /\ \A v \in Users : ~Kicked(v)
  BY <1>2 DEF KickCheck, TypeOK, historyVars
<1>3. ASSUME NEW u \in Users, Unban(u)
      PROVE  IndInv' /\ \A v \in Users : ~Kicked(v)
  BY <1>3 DEF Unban, Happens, Failing, NextKick, Events, TypeOK, historyVars
<1>4. CASE BanFails
  BY <1>4 DEF BanFails, NextKick, TypeOK, historyVars
<1>5. CASE BreakOff
  BY <1>5 DEF BreakOff, TypeOK, historyVars
<1>6. CASE AnnounceFails
  BY <1>6, NextDailyRunType DEF AnnounceFails, Finish, TypeOK, historyVars
<1>7. CASE ContextEnds
  BY <1>7 DEF ContextEnds, Failing, runVars, TypeOK, historyVars
<1>8. CASE Restart
  <2>1. nextRun' \in Nat /\ runAt' = 0 /\ inputs' \in Nat
    BY <1>8, NextDailyRunType DEF Restart, Finish, Failing, TypeOK
  <2>2. TypeOK'
    <3>1. /\ at' = "idle" /\ inbox' = {} /\ preview' = {} /\ down' = FALSE
          /\ doomed' = {} /\ due' = {} /\ target' = {} /\ batch' = {}
          /\ now' = now /\ chat' = chat /\ memb' = memb /\ tickets' = tickets
          /\ heard' = heard /\ heardAt' = heardAt /\ warned' = warned /\ stopped' = stopped
      BY <1>8 DEF Restart, historyVars
    <3>2. now' \in Nat \ {0} /\ runAt' \in 0..now' /\ warned' \in [Users -> 0..now']
      BY <2>1, <3>1 DEF TypeOK
    <3>3. /\ chat' \in [Users -> Statuses] /\ memb' \in [Users -> MemberRecords \cup {NoMember}]
          /\ tickets' \in [Users -> TicketRecords \cup {NoTicket}]
          /\ heard' \in [Users -> Nat] /\ heardAt' \in [Users -> Nat] /\ stopped' \subseteq Users
      BY <3>1 DEF TypeOK
    <3>4. /\ inbox' \subseteq Events /\ preview' \subseteq Users /\ at' \in Places
          /\ doomed' \subseteq Users /\ due' \subseteq doomed' /\ target' \subseteq doomed'
          /\ batch' \subseteq Users /\ down' \in BOOLEAN
      BY <3>1
    <3> QED BY <2>1, <3>2, <3>3, <3>4 DEF TypeOK
  <2>3. Recorded' /\ TaggedWereWarned' /\ StopHonoured'
    BY <1>8 DEF Restart, TypeOK, historyVars
  <2>4. DoomedWereWarned' /\ ListsInPlace'
    BY <1>8, <2>1 DEF Restart
  <2> QED BY <1>8, <2>2, <2>3, <2>4 DEF Restart
<1> QED BY <1>1, <1>2, <1>3, <1>4, <1>5, <1>6, <1>7, <1>8

\* Only the ban of somebody who was to be kicked makes anybody "kicked".
LEMMA BanStep ==
  ASSUME IndInv, NEW u \in Users, Ban(u)
  PROVE  /\ IndInv'
         /\ \A v \in Users : Kicked(v) => v \in doomed
<1> USE DEF IndInv, Recorded, TaggedWereWarned, DoomedWereWarned, ListsInPlace, StopHonoured,
            IsTagged, IsQueued, Kicked, Places, Ban, historyVars
<1>1. TypeOK'
  BY DEF Happens, Events, TypeOK
<1> QED BY <1>1 DEF TypeOK

\* The warning, and the marks it leaves.
LEMMA AnnounceStep ==
  ASSUME IndInv, Announce
  PROVE  IndInv' /\ \A u \in Users : ~Kicked(u)
<1> USE DEF IndInv, ListsInPlace, Announce
<1>1. warned' \in [Users -> 0..now]
  BY DEF TypeOK
<1>2. TypeOK'
  BY <1>1 DEF TypeOK, Places
<1>3. \A u \in Users : IsTagged(u) => warned'[u] = warned[u]
  BY DEF IsTagged, IsQueued, TypeOK
<1>4. Recorded' /\ TaggedWereWarned'
  BY <1>3 DEF Recorded, TaggedWereWarned, IsTagged
<1>5. DoomedWereWarned' /\ StopHonoured'
  BY DEF DoomedWereWarned, StopHonoured
<1>6. ListsInPlace'
  BY DEF IsQueued, TypeOK
<1> QED BY <1>2, <1>4, <1>5, <1>6 DEF Kicked, TypeOK

LEMMA TagStep ==
  ASSUME IndInv, NEW u \in Users, Tag(u)
  PROVE  IndInv' /\ \A v \in Users : ~Kicked(v)
<1> USE DEF IndInv, ListsInPlace, Tag
<1>1. /\ IsQueued(u) /\ runAt > 0 /\ warned[u] = runAt /\ doomed = {}
      /\ tickets[u] \in TicketRecords /\ runAt \in Nat
  BY DEF TypeOK, IsQueued
<1>2. nextRun' \in Nat /\ runAt' \in 0..now /\ (at' # "idle" => runAt' = runAt)
      /\ at' \in {"idle", "tag"} /\ inputs' \in Nat /\ warned' = warned
      /\ (batch' # {} => at' = "tag") /\ batch' \subseteq batch \ {u}
  BY NextDailyRunType DEF Finish, Failing, TypeOK, historyVars
<1>3. \/ tickets' = tickets
      \/ tickets' = [tickets EXCEPT ![u] = Tagged(@, runAt)]
  OBVIOUS
<1>4. tickets' \in [Users -> TicketRecords \cup {NoTicket}]
  BY <1>1, <1>3 DEF TypeOK, TicketRecords, Tagged
<1>5. \A v \in Users \ {u} : tickets'[v] = tickets[v]
  BY <1>3 DEF TypeOK
<1>6. \/ tickets'[u] = tickets[u]
      \/ /\ tickets'[u] # NoTicket /\ tickets'[u].state = "tagged"
         /\ tickets'[u].tagged = runAt /\ tickets'[u].deadline = runAt + Grace
  BY <1>1, <1>3, <1>4, NoTicketAssumption DEF TypeOK, Tagged, TicketRecords
<1>7. TypeOK'
  BY <1>2, <1>4 DEF TypeOK, Places, historyVars
<1>8. TaggedWereWarned'
  BY <1>1, <1>2, <1>5, <1>6 DEF TaggedWereWarned, IsTagged
<1>9. Recorded' /\ DoomedWereWarned'
  BY <1>1 DEF Recorded, DoomedWereWarned, historyVars
<1>10. ListsInPlace'
  BY <1>1, <1>2, <1>5 DEF IsQueued
<1>11. StopHonoured'
  BY <1>1, <1>2, <1>5 DEF StopHonoured, historyVars, IsQueued, TypeOK
<1> QED BY <1>7, <1>8, <1>9, <1>10, <1>11 DEF Kicked, TypeOK

-----------------------------------------------------------------------------
\* Every step keeps the invariant, and kicks only members who are to be kicked.
LEMMA EveryStep ==
  ASSUME IndInv, [Next]_vars
  PROVE  IndInv' /\ \A u \in Users : Kicked(u) => u \in doomed
BY MembersStep, RecordStep, AdminStep, SweepStep, ClearStep, PromoteStep, RunStep, BanStep,
   AnnounceStep, TagStep DEF Next

LEMMA Inductive == Spec => []IndInv
BY InitInv, EveryStep, PTL DEF Spec

\* The members, tickets, lists and places of a campaign keep their types: in
\* particular a run never works on somebody it did not decide to kick.
THEOREM CampaignTypes == Spec => []TypeOK
BY Inductive, PTL DEF IndInv

\* A ticket Cancel removed stays removed: no daily run brings it back.
THEOREM CampaignStops == Spec => []StopHonoured
BY Inductive, PTL DEF IndInv

\* Kicks come after a public warning and the whole grace period.
THEOREM KicksAreLate == Spec => KickedAfterGrace
<1>1. ASSUME IndInv, [Next]_vars
      PROVE  [\A u \in Users : Kicked(u) => warned[u] > 0 /\ warned[u] + Grace <= now]_vars
  <2>1. \A u \in Users : Kicked(u) => u \in doomed
    BY <1>1, EveryStep
  <2> SUFFICES ASSUME NEW u \in doomed
               PROVE  warned[u] > 0 /\ warned[u] + Grace <= now
    BY <2>1
  <2>2. /\ warned[u] > 0 /\ warned[u] + Grace <= runAt /\ runAt \in 0..now
        /\ now \in Nat /\ warned[u] \in 0..now
    BY <1>1 DEF IndInv, TypeOK, DoomedWereWarned
  <2> QED BY <2>2
<1> QED BY <1>1, Inductive, PTL DEF Spec, KickedAfterGrace

\* Kicks come only to members who were silent since the warning.
THEOREM KicksAreDeserved == Spec => KickedWereSilent
<1>1. ASSUME IndInv, [Next]_vars
      PROVE  [\A u \in Users : Kicked(u) => heardAt[u] < warned[u]]_vars
  BY <1>1, EveryStep DEF IndInv, DoomedWereWarned
<1> QED BY <1>1, Inductive, PTL DEF Spec, KickedWereSilent
=============================================================================
