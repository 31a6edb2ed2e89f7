------------------------------ MODULE Referral ------------------------------
(***************************************************************************)
(* The referral catalogue of one chat: the three buckets of                *)
(* storage/referral_repo.go and the dialogues of bot/referral.go that fill *)
(* and prune them.  A service is known by its normalised name; effects and *)
(* pages are left out.  A step ends at every transaction: a reply lists    *)
(* the catalogue, and commits what it read then in a transaction of its    *)
(* own, while other replies and taps of the same dialogue come in.         *)
(***************************************************************************)
EXTENDS Naturals

CONSTANTS
  Actors, Names, Urls,
  Tokens,     \* a dialogue each
  Handlers,   \* goroutines between two transactions
  NoToken, NoName, NoUrl, NoReferral,
  Alike,      \* pairs of different names MatchServices takes for alike
  MaxSeq      \* bound on the sequences of the buckets

ASSUME ReferralAssumption == /\ NoToken \notin Tokens /\ NoName \notin Names /\ NoUrl \notin Urls
                             /\ MaxSeq \in Nat

VARIABLES
  services,   \* bucket referral_services
  nameIndex,  \* bucket referral_services_name_idx, 0 for no entry
  referrals,  \* bucket referrals
  svcSeq, refSeq,  \* the sequences of the first and the third
  byToken,    \* the tokens in the handler's table
  byActor,    \* byActorChat
  overdue,    \* those of them past their expiresAt
  dialog,     \* what the goroutines know of an interaction, in the table or not
  hand        \* goroutines between two transactions

catalogueVars == <<services, nameIndex, referrals, svcSeq, refSeq>>
tableVars     == <<byToken, byActor, overdue>>
referralVars  == <<catalogueVars, tableVars, dialog, hand>>

Ids == 0..MaxSeq
Services  == [id : Ids, name : Names]
Referrals == [id : Ids, svc : Ids, owner : Actors, url : Urls]
States == {"picker", "url", "new", "choice", "moderation"}
Idle   == [does |-> "nothing"]
Unused == [state |-> "unused"]

Interactions ==
  [state : States, actor : Actors, sel : Ids, name : Names \cup {NoName}, url : Urls \cup {NoUrl},
   matches : SUBSET Ids, offered : BOOLEAN, report : Referrals \cup {NoReferral}]

ReferralTypeOK ==
  /\ services \subseteq Services
  /\ nameIndex \in [Names -> Ids]
  /\ referrals \subseteq Referrals
  /\ svcSeq \in Ids /\ refSeq \in Ids
  /\ byToken \subseteq Tokens
  /\ byActor \in [Actors -> Tokens \cup {NoToken}]
  /\ overdue \subseteq byToken
  /\ dialog \in [Tokens -> Interactions \cup {Unused}]
  /\ hand \in [Handlers -> {Idle} \cup [does : {"commit", "rerun"}, token : Tokens, svc : Ids]]

\* A fresh interaction.
Fresh(a, s, r) == [state |-> s, actor |-> a, sel |-> 0, name |-> NoName, url |-> NoUrl,
                   matches |-> {}, offered |-> FALSE, report |-> r]

ReferralInit ==
  /\ services = {} /\ referrals = {}
  /\ nameIndex = [n \in Names |-> 0]
  /\ svcSeq = 0 /\ refSeq = 0
  /\ byToken = {} /\ overdue = {}
  /\ byActor = [a \in Actors |-> NoToken]
  /\ dialog = [t \in Tokens |-> Unused]
  /\ hand = [h \in Handlers |-> Idle]

\* An interaction nobody refers to any more is gone, and its token is free:
\* for the model, tokens are drawn again, since no button of an old one works.
Held(d) ==
  [t \in Tokens |-> IF t \in byToken' \/ \E h \in Handlers : hand'[h] # Idle /\ hand'[h].token = t
                    THEN d[t] ELSE Unused]

----------------------------------------------------------------------------
(* The store: each of these is one transaction.                            *)

Exists(id) == \E s \in services : s.id = id

\* rejectDuplicates.
Duplicate(svc, owner, url) ==
  \E r \in referrals : r.url = url \/ (r.svc = svc /\ r.owner = owner)

\* resolveService: id 0 asks for a new service of that name.
NameTaken(name) == name # NoName /\ nameIndex[name] # 0 /\ Exists(nameIndex[name])
Resolves(id, name) == IF id = 0 THEN name # NoName /\ ~NameTaken(name) ELSE Exists(id)
ServiceFor(id) == IF id = 0 THEN svcSeq + 1 ELSE id

\* Mutation: a sequence that is taken from what there is now.
ReusedReferralID == IF referrals = {} THEN 1
                    ELSE (CHOOSE r \in referrals : \A q \in referrals : q.id <= r.id).id + 1

\* NextSequence counts on, whatever is deleted.
NextReferralID == refSeq + 1

Store(id, name, owner, url) ==
  /\ Resolves(id, name)
  /\ ~Duplicate(ServiceFor(id), owner, url)
  /\ id = 0 => svcSeq < MaxSeq
  /\ refSeq < MaxSeq
  /\ services' = IF id = 0 THEN services \cup {[id |-> svcSeq + 1, name |-> name]} ELSE services
  /\ nameIndex' = IF id = 0 THEN [nameIndex EXCEPT ![name] = svcSeq + 1] ELSE nameIndex
  /\ svcSeq' = IF id = 0 THEN svcSeq + 1 ELSE svcSeq
  /\ refSeq' = refSeq + 1
  /\ referrals' = referrals \cup
       {[id |-> NextReferralID, svc |-> ServiceFor(id), owner |-> owner, url |-> url]}

\* Mutation: the empty service is removed, and its name stays taken.
DeleteKeepsName(r) ==
  /\ referrals' = referrals \ {r}
  /\ services' = {s \in services : s.id = r.svc => \E q \in referrals \ {r} : q.svc = s.id}
  /\ UNCHANGED <<nameIndex, svcSeq, refSeq>>

\* The last referral of a service takes the service and its name with it.
DeleteReferral(r) ==
  /\ referrals' = referrals \ {r}
  /\ LET empty == {s \in services : s.id = r.svc /\ \A q \in referrals \ {r} : q.svc # s.id}
     IN /\ services' = services \ empty
        /\ nameIndex' = [n \in Names |-> IF \E s \in empty : s.name = n THEN 0 ELSE nameIndex[n]]
  /\ UNCHANGED <<svcSeq, refSeq>>

\* MatchServices: the service of that name and those with a similar one.
MatchesOf(name) ==
  {s.id : s \in {s \in services : s.name = name \/ {s.name, name} \in Alike}}
IsExact(name) == \E s \in services : s.name = name

----------------------------------------------------------------------------
(* The table of interactions.  Its operations hold the mutex.              *)

\* pruneLocked.
Live      == byToken \ overdue
LiveActor == [a \in Actors |-> IF byActor[a] \in overdue THEN NoToken ELSE byActor[a]]
Table(tokens, actors) ==
  byToken' = tokens /\ byActor' = actors /\ overdue' = overdue \cap tokens
Prune     == Table(Live, LiveActor)

\* dropInteraction, on a table that was pruned before or was not.
DropFrom(tokens, actors, t) ==
  Table(tokens \ {t},
        [a \in Actors |-> IF t \in tokens /\ actors[a] = t THEN NoToken ELSE actors[a]])
Drop(t) == DropFrom(byToken, byActor, t)

\* findAwaiting, once it has pruned.
Awaiting(a, t, s) == t = byActor[a] /\ t \in Live /\ dialog[t].state = s

\* A tap finds its token in time, and is the actor's own.
Tapped(t) == t \in Live

----------------------------------------------------------------------------
(* The handlers.                                                           *)

\* /refreg replaces the actor's earlier registration.
HandleRegister(a, t) ==
  /\ dialog[t] = Unused
  /\ Table((Live \ {LiveActor[a]}) \cup {t}, [LiveActor EXCEPT ![a] = t])
  /\ UNCHANGED <<catalogueVars, hand>>
  /\ dialog' = Held([dialog EXCEPT ![t] = Fresh(a, "picker", NoReferral)])

\* /refreport shows an admin one referral.
HandleReport(a, t) ==
  /\ dialog[t] = Unused
  /\ Table(Live \cup {t}, LiveActor)
  /\ UNCHANGED <<catalogueVars, hand>>
  /\ \E r \in referrals :
       dialog' = Held([dialog EXCEPT ![t] = Fresh(a, "moderation", r)])

\* The index in the button counts in the catalogue of the moment.
CbSelect(t) ==
  /\ Tapped(t) /\ dialog[t].state # "moderation"
  /\ \E s \in services :
       dialog' = [dialog EXCEPT ![t] = [@ EXCEPT !.sel = s.id, !.state = "url"]]
  /\ UNCHANGED <<catalogueVars, tableVars, hand>>

CbNew(t) ==
  /\ Tapped(t) /\ dialog[t].state # "moderation"
  /\ dialog' = [dialog EXCEPT ![t] = [@ EXCEPT !.state = "new", !.sel = 0, !.name = NoName, !.url = NoUrl]]
  /\ UNCHANGED <<catalogueVars, tableVars, hand>>

Takes(h, t, svc) ==
  /\ hand[h] = Idle
  /\ hand' = [hand EXCEPT ![h] = [does |-> "commit", token |-> t, svc |-> svc]]

\* One of the services offered, or none of them.
CbMatch(h, t) ==
  /\ Tapped(t)
  /\ \E m \in dialog[t].matches : Takes(h, t, m)
  /\ UNCHANGED <<catalogueVars, tableVars, dialog>>

CbCreate(h, t) ==
  /\ Tapped(t) /\ dialog[t].offered
  /\ Takes(h, t, 0)
  /\ UNCHANGED <<catalogueVars, tableVars, dialog>>

\* A tap of somebody who is no admin any more changes nothing.
CbDelete(t) ==
  /\ Tapped(t) /\ dialog[t].state = "moderation"
  /\ \E r \in referrals : r.id = dialog[t].report.id /\ DeleteReferral(r)
  /\ Drop(t)
  /\ UNCHANGED hand
  /\ dialog' = Held(dialog)

CbCancel(t) ==
  /\ Tapped(t) /\ dialog[t].state # "picker"
  /\ Drop(t)
  /\ UNCHANGED <<catalogueVars, hand>>
  /\ dialog' = Held(dialog)

TapTooLate(t) ==
  /\ t \in overdue
  /\ Drop(t)
  /\ UNCHANGED <<catalogueVars, hand>>
  /\ dialog' = Held(dialog)

\* The reply with a link for the selected service.
HandleURLReply(a, t, u) ==
  /\ Awaiting(a, t, "url")
  /\ \/ Store(dialog[t].sel, NoName, a, u) /\ DropFrom(Live, LiveActor, t)
     \/ UNCHANGED catalogueVars /\ Prune
  /\ UNCHANGED hand
  /\ dialog' = Held(dialog)

Drafted(d, n, u) == [d EXCEPT !.name = n, !.url = u]

\* The choice is put to the actor.  A service of that very name leaves no
\* way to make another.
Asked(d, n) == [d EXCEPT !.state = "choice", !.sel = 0, !.matches = MatchesOf(n),
                         !.offered = @ \/ ~IsExact(n)]

\* The reply with a new service.  It is committed as new where the catalogue
\* has nothing like it, to the service of that name where the effects agree.
HandleNewReply(h, a, t, n, u) ==
  /\ Awaiting(a, t, "new") /\ hand[h] = Idle
  /\ Prune
  /\ UNCHANGED catalogueVars
  /\ \/ /\ \/ MatchesOf(n) = {} /\ Takes(h, t, 0)
           \/ \E s \in services : s.name = n /\ Takes(h, t, s.id)
        /\ dialog' = Held([dialog EXCEPT ![t] = Drafted(@, n, u)])
     \/ /\ MatchesOf(n) # {}
        /\ UNCHANGED hand
        /\ dialog' = Held([dialog EXCEPT ![t] = Asked(Drafted(@, n, u), n)])

\* Any other text reply: the routing looks for a dialogue of its author.
OtherReply ==
  /\ overdue # {}
  /\ Prune
  /\ UNCHANGED <<catalogueVars, hand>>
  /\ dialog' = Held(dialog)

\* The draft is read again when it is committed.  A name that was taken
\* meanwhile leads back to the choice; any other refusal ends the handler.
Commit(h) ==
  /\ hand[h] # Idle /\ hand[h].does = "commit"
  /\ LET t == hand[h].token
         d == dialog[t]
     IN \/ /\ d.url # NoUrl
           /\ Store(hand[h].svc, d.name, d.actor, d.url)
           /\ Drop(t)
           /\ hand' = [hand EXCEPT ![h] = Idle]
        \/ /\ hand[h].svc = 0 /\ d.url # NoUrl /\ NameTaken(d.name)
           /\ hand' = [hand EXCEPT ![h].does = "rerun"]
           /\ UNCHANGED <<catalogueVars, tableVars>>
        \/ /\ hand' = [hand EXCEPT ![h] = Idle]
           /\ UNCHANGED <<catalogueVars, tableVars>>
  /\ dialog' = Held(dialog)

RerunMatch(h) ==
  /\ hand[h] # Idle /\ hand[h].does = "rerun"
  /\ hand' = [hand EXCEPT ![h] = Idle]
  /\ UNCHANGED <<catalogueVars, tableVars>>
  /\ LET t == hand[h].token
         n == dialog[t].name
     IN dialog' = Held(IF MatchesOf(n) = {} THEN dialog
                       ELSE [dialog EXCEPT ![t] = Asked(@, n)])

\* The interaction's time is over.
Lapse(t) ==
  /\ t \in Live
  /\ overdue' = overdue \cup {t}
  /\ UNCHANGED <<catalogueVars, byToken, byActor, dialog, hand>>

\* The table is in memory only.
ReferralRestart ==
  /\ byToken # {}
  /\ Table({}, [a \in Actors |-> NoToken])
  /\ hand' = [h \in Handlers |-> Idle]
  /\ UNCHANGED catalogueVars
  /\ dialog' = Held(dialog)

ReferralNext ==
  \/ \E a \in Actors, t \in Tokens : \/ HandleRegister(a, t) \/ HandleReport(a, t)
                                     \/ \E u \in Urls : HandleURLReply(a, t, u)
  \/ \E t \in Tokens : CbSelect(t) \/ CbNew(t) \/ CbDelete(t) \/ CbCancel(t) \/ TapTooLate(t)
                       \/ Lapse(t)
  \/ \E h \in Handlers, t \in Tokens :
       \/ CbMatch(h, t) \/ CbCreate(h, t)
       \/ \E a \in Actors, n \in Names, u \in Urls : HandleNewReply(h, a, t, n, u)
  \/ \E h \in Handlers : Commit(h) \/ RerunMatch(h)
  \/ OtherReply \/ ReferralRestart

ReferralSpec == ReferralInit /\ [][ReferralNext]_referralVars

----------------------------------------------------------------------------
(* Properties.                                                             *)

\* However dialogues, late replies and deletions interleave, the catalogue
\* stays whole: every service has a name of its own, found by the index, and
\* a referral; every referral has its service; no link is there twice, and
\* nobody has two in one service.
CatalogueSound ==
  /\ \A n \in Names : nameIndex[n] # 0 => [id |-> nameIndex[n], name |-> n] \in services
  /\ \A s \in services : nameIndex[s.name] = s.id /\ \E r \in referrals : r.svc = s.id
  /\ \A r \in referrals : Exists(r.svc)
  /\ \A r, q \in referrals : r.url = q.url \/ (r.svc = q.svc /\ r.owner = q.owner) => r = q

\* A confirmation removes the referral it showed the admin, and never another
\* that has come to its number since.
DeletedAsShown ==
  [][\A r \in referrals \ referrals' : \E t \in byToken : dialog[t].report = r]_referralVars
=============================================================================
