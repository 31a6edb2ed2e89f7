------------------------------- MODULE Rekey --------------------------------
(***************************************************************************)
(* MigrateChatID (storage/migrate.go): in one transaction the records of a *)
(* group move to the id of the supergroup it has become, where handlers    *)
(* may have written before, and under the old id of which others may still *)
(* write afterwards, so that the next redirect moves those, too.           *)
(*                                                                         *)
(* A record is put over the one that has its key already.  Of a record the *)
(* model keeps which writes it holds; what was written under one id        *)
(* between two redirects stays together and is one Share.  Tables whose    *)
(* records are put whole and not added to (members, markers, summaries)    *)
(* move in the same two ways.  A referral catalogue is merged.             *)
(***************************************************************************)
EXTENDS Naturals

CONSTANTS
  Collected,    \* tables whose keys are collected, then moved: stats
  Walked,       \* tables moved under the cursor that walks them: stats_daily
  Rows,         \* what their records are about, in the order of the keys
  Months,
  MonthOf,      \* the month of a record of stats_month, which is walked month by month
  MaxRedirects, \* bound
  Owners, ServiceNames, Addresses,
  MaxRef        \* bound on the sequences

RowTables == Collected \cup Walked \cup {"stats_month"}

ASSUME RekeyAssumption == /\ Rows \subseteq Nat /\ MonthOf \in [Rows -> Months]
                          /\ MaxRedirects \in Nat /\ MaxRef \in Nat
                          /\ Collected \cap (Walked \cup {"stats_month"}) = {}

VARIABLES
  rows,       \* the records by table and chat, {} for none
  monthIdx,   \* bucket stats_month_idx
  installed,  \* bucket chats: InstalledAt, 0 for no record
  redirects,  \* how many there were
  svcs, svcNames, refs,     \* the catalogues
  svcCount, refCount,       \* the sequences, which all chats share
  written, noted, links     \* history: shares, earliest times and links that were recorded

rekeyVars == <<rows, monthIdx, installed, redirects, svcs, svcNames, refs, svcCount, refCount,
               written, noted, links>>
rowVars == <<rows, monthIdx, installed, redirects, written, noted>>
refVars == <<svcs, svcNames, refs, svcCount, refCount, links>>

ChatIds == {"group", "supergroup"}
Shares == [under : ChatIds, after : 0..MaxRedirects]
Numbers == 0..MaxRef

RekeyTypeOK ==
  /\ rows \in [RowTables -> [ChatIds -> [Rows -> SUBSET Shares]]]
  /\ monthIdx \in [ChatIds -> SUBSET Months]
  /\ installed \in [ChatIds -> 0..2]
  /\ redirects \in 0..MaxRedirects
  /\ \A c \in ChatIds : /\ svcs[c] \subseteq [id : Numbers, name : ServiceNames]
                      /\ svcNames[c] \in [ServiceNames -> Numbers]
                      /\ refs[c] \subseteq [id : Numbers, svc : Numbers, owner : Owners, url : Addresses]
  /\ svcCount \in Numbers /\ refCount \in Numbers
  /\ written \subseteq RowTables \X Rows \X Shares
  /\ noted \in 0..2
  /\ links \subseteq Addresses

RekeyInit ==
  /\ rows = [t \in RowTables |-> [c \in ChatIds |-> [r \in Rows |-> {}]]]
  /\ monthIdx = [c \in ChatIds |-> {}]
  /\ installed = [c \in ChatIds |-> 0]
  /\ redirects = 0
  /\ svcs = [c \in ChatIds |-> {}] /\ refs = [c \in ChatIds |-> {}]
  /\ svcNames = [c \in ChatIds |-> [n \in ServiceNames |-> 0]]
  /\ svcCount = 0 /\ refCount = 0
  /\ written = {} /\ noted = 0 /\ links = {}

----------------------------------------------------------------------------
(* What else writes: a flush or a handler with an id it took earlier.      *)

\* A write adds to the record that is there.
WriteRow(t, c, r) ==
  LET share == [under |-> c, after |-> redirects]
  IN /\ rows' = [rows EXCEPT ![t][c][r] = @ \cup {share}]
     /\ monthIdx' = [monthIdx EXCEPT ![c] = IF t = "stats_month" THEN @ \cup {MonthOf[r]} ELSE @]
     /\ written' = written \cup {<<t, r, share>>}
     /\ UNCHANGED <<installed, redirects, noted, refVars>>

\* The bot notes when it came to a chat, once.
InstallChat(c) ==
  /\ installed[c] = 0
  /\ \E at \in 1..2 : /\ installed' = [installed EXCEPT ![c] = at]
                      /\ noted' = IF noted = 0 \/ at < noted THEN at ELSE noted
  /\ UNCHANGED <<rows, monthIdx, redirects, written, refVars>>

Taken(c, n) == svcNames[c][n] # 0 /\ \E s \in svcs[c] : s.id = svcNames[c][n]

\* ReferralRepo.Create.  Every chat draws its numbers from the same sequences.
CreateReferral(c, n, o, u) ==
  LET svc == IF Taken(c, n) THEN svcNames[c][n] ELSE svcCount + 1
  IN /\ refCount < MaxRef /\ svc <= MaxRef
     /\ \A r \in refs[c] : r.url # u /\ (r.svc = svc => r.owner # o)
     /\ refs' = [refs EXCEPT ![c] = @ \cup {[id |-> refCount + 1, svc |-> svc, owner |-> o, url |-> u]}]
     /\ refCount' = refCount + 1
     /\ IF Taken(c, n) THEN UNCHANGED <<svcs, svcNames, svcCount>>
        ELSE /\ svcs' = [svcs EXCEPT ![c] = @ \cup {[id |-> svc, name |-> n]}]
             /\ svcNames' = [svcNames EXCEPT ![c][n] = svc]
             /\ svcCount' = svc
     /\ links' = links \cup {u}
     /\ UNCHANGED rowVars

Listed(c) == {r.url : r \in refs[c]}

\* ReferralRepo.DeleteReferral.
RemoveReferral(c, r) ==
  LET empty == {s \in svcs[c] : s.id = r.svc /\ \A q \in refs[c] \ {r} : q.svc # s.id}
  IN /\ refs' = [refs EXCEPT ![c] = @ \ {r}]
     /\ svcs' = [svcs EXCEPT ![c] = @ \ empty]
     /\ svcNames' = [svcNames EXCEPT ![c] = [n \in ServiceNames |-> IF \E s \in empty : s.name = n THEN 0
                                                             ELSE @[n]]]
     /\ links' = links \ ({r.url} \ UNION {Listed(d) : d \in ChatIds \ {c}})
     /\ UNCHANGED <<svcCount, refCount, rowVars>>

----------------------------------------------------------------------------
(* The migration.                                                          *)

\* The records under the old id that the migration looks for: those of
\* stats_month by the months of the index.
Found(t, r) == /\ rows[t]["group"][r] # {}
               /\ t = "stats_month" => MonthOf[r] \in monthIdx["group"]

\* Where records are put and deleted under the cursor that walks them, bbolt
\* leaves open what it comes to next.  Only the first of a walk is sure to move.
MayPass(t, r) ==
  /\ t \notin Collected
  /\ \E q \in Rows : /\ q < r /\ Found(t, q)
                     /\ t = "stats_month" => MonthOf[q] = MonthOf[r]

\* Mutation: a record that is there already keeps its place.
KeepDestination ==
  rows' = [t \in RowTables |-> [c \in ChatIds |-> [r \in Rows |->
             IF ~Found(t, r) THEN rows[t][c][r]
             ELSE IF c = "group" THEN {}
             ELSE IF rows[t][c][r] # {} THEN rows[t][c][r] ELSE rows[t]["group"][r]]]]

\* A record moves with what it holds, over what the other id had there.
migrateRows ==
  \E passed \in SUBSET {x \in RowTables \X Rows : MayPass(x[1], x[2])} :
    rows' = [t \in RowTables |-> [c \in ChatIds |-> [r \in Rows |->
               IF ~Found(t, r) \/ <<t, r>> \in passed THEN rows[t][c][r]
               ELSE IF c = "group" THEN {} ELSE rows[t]["group"][r]]]]

\* The months leave the index whether or not all their records have moved.
migrateMonthIdx ==
  monthIdx' = [c \in ChatIds |-> IF c = "group" THEN {} ELSE monthIdx["group"] \cup monthIdx["supergroup"]]

\* The earlier of the two times stays.
migrateChats ==
  LET g == installed["group"]
      s == installed["supergroup"]
  IN installed' = IF g = 0 THEN installed
                  ELSE [c \in ChatIds |-> IF c = "group" THEN 0 ELSE IF s # 0 /\ s < g THEN s ELSE g]

Same(s) == {d \in svcs["supergroup"] : d.name = s.name}

\* Mutation: referrals keep their service.
RemapNothing(id) == id

\* The service a referral belongs to after the move.
Remap(id) ==
  LET there == UNION {Same(s) : s \in {s \in svcs["group"] : s.id = id}}
  IN IF there = {} THEN id ELSE (CHOOSE d \in there : TRUE).id

\* The referrals that move: not those whose link the supergroup has.
Arriving == {[r EXCEPT !.svc = Remap(@)] :
               r \in {r \in refs["group"] : r.url \notin Listed("supergroup")}}

\* A service the supergroup has by name is given up, the others keep their number.
migrateReferrals ==
  LET copied == {s \in svcs["group"] : Same(s) = {}}
  IN /\ svcs' = [c \in ChatIds |-> IF c = "group" THEN {} ELSE svcs["supergroup"] \cup copied]
     /\ svcNames' = [c \in ChatIds |->
          [n \in ServiceNames |->
             LET mine == {s \in svcs["group"] : s.name = n}
             IN IF c = "group" THEN IF mine = {} THEN svcNames[c][n] ELSE 0
                ELSE IF mine \cap copied = {} THEN svcNames[c][n]
                     ELSE (CHOOSE s \in mine \cap copied : TRUE).id]]
     /\ refs' = [c \in ChatIds |-> IF c = "group" THEN {} ELSE refs["supergroup"] \cup Arriving]

MigrateChatID ==
  /\ redirects < MaxRedirects
  /\ redirects' = redirects + 1
  /\ migrateRows /\ migrateMonthIdx /\ migrateChats /\ migrateReferrals
  /\ UNCHANGED <<svcCount, refCount, written, noted, links>>

RekeyNext ==
  \/ \E c \in ChatIds : \/ \E t \in RowTables, r \in Rows : WriteRow(t, c, r)
                      \/ InstallChat(c)
                      \/ \E n \in ServiceNames, o \in Owners, u \in Addresses : CreateReferral(c, n, o, u)
                      \/ \E r \in refs[c] : RemoveReferral(c, r)
  \/ MigrateChatID

RekeySpec == RekeyInit /\ [][RekeyNext]_rekeyVars

----------------------------------------------------------------------------
\* A catalogue whose referrals and names lead to one service each, with every
\* link once.  A service may be empty and somebody may have two referrals in it:
\* both are left by a merge.
Whole(c) ==
  /\ \A r \in refs[c] : \E s \in svcs[c] : s.id = r.svc
  /\ \A s \in svcs[c] : svcNames[c][s.name] = s.id
  /\ \A n \in ServiceNames : svcNames[c][n] # 0 => [id |-> svcNames[c][n], name |-> n] \in svcs[c]
  /\ \A r, q \in refs[c] : r.url = q.url \/ r.id = q.id => r = q

\* LinksSurvive.  However registrations, deletions and repeated redirects follow
\* each other, a link stays registered under one of the ids until it is deleted,
\* and both catalogues stay whole.
LinksSurvive ==
  /\ \A c \in ChatIds : Whole(c)
  /\ links = Listed("group") \cup Listed("supergroup")

\* A later redirect than share s found the record under the old id, too.
Replaced(t, r, s) ==
  \E q \in Shares : /\ <<t, r, q>> \in written /\ q # s /\ q.under = "group"
                   /\ s.after <= q.after /\ q.after < redirects

\* A share of a table that is collected first is under the old id if it was
\* written there since the last redirect, and under the new one unless the record
\* was found under the old id again by a later redirect: that one's record is put
\* over it, whatever it held.
CollectedMoved ==
  \A t \in Collected, r \in Rows, s \in Shares : <<t, r, s>> \in written =>
    /\ s \in rows[t]["group"][r] <=> s.under = "group" /\ s.after = redirects
    /\ s \in rows[t]["supergroup"][r] <=>
         ~(s.under = "group" /\ s.after = redirects) /\ ~Replaced(t, r, s)

\* In the other tables a share may stay behind, and is lost only to a record that
\* was written under the old id before some redirect.
WalkedMoved ==
  \A t \in RowTables, r \in Rows, s \in Shares : <<t, r, s>> \in written =>
    \/ \E c \in ChatIds : s \in rows[t][c][r]
    \/ \E q \in Shares : /\ <<t, r, q>> \in written /\ q # s
                         /\ q.under = "group" /\ q.after < redirects

\* A record that its month's index does not lead to was passed over: it is under
\* the old id, and nothing was added to it since.
OnlyPassedOverHidden ==
  \A c \in ChatIds, r \in Rows :
    rows["stats_month"][c][r] # {} /\ MonthOf[r] \notin monthIdx[c] =>
      c = "group" /\ \A s \in rows["stats_month"][c][r] : s.after < redirects

\* RowsAccounted.  What becomes of the records when flushes under either id and
\* repeated redirects follow each other: none is under both ids, none holds what
\* was not written, what was written is where the next redirect or the readers
\* of the new id find it, or else was replaced or passed over as said above; and
\* the earliest time of installation stays.
RowsAccounted ==
  /\ \A t \in RowTables, r \in Rows :
       /\ rows[t]["group"][r] \cap rows[t]["supergroup"][r] = {}
       /\ \A c \in ChatIds : \A s \in rows[t][c][r] : <<t, r, s>> \in written
  /\ CollectedMoved /\ WalkedMoved /\ OnlyPassedOverHidden
  /\ \A c \in ChatIds : installed[c] = 0 \/ installed[c] >= noted
  /\ noted # 0 => \E c \in ChatIds : installed[c] = noted
=============================================================================
