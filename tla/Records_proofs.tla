---------------------------- MODULE Records_proofs ---------------------------
(***************************************************************************)
(* Proofs about the records a chat keeps, and about the features side by   *)
(* side.                                                                   *)
(*                                                                         *)
(* The referral catalogue stays whole, and a confirmed deletion is that of *)
(* the referral shown, for any actors, names, links, dialogues and         *)
(* handlers.  Every change of a reputation is on its way into the chat or  *)
(* has been told there, for any people, messages, updates and balances.    *)
(* When the chat becomes a supergroup, no record is lost, for any tables,  *)
(* rows, months and services.                                              *)
(*                                                                         *)
(* No original is deleted without its copy in the chat, and a link whose   *)
(* goroutine has ended was answered or is in the queue, for any links and  *)
(* flushers.  The cache of summaries never gives an answer made from other *)
(* messages than the window's, and a chat has one summary in the making,   *)
(* for any chats, commands, windows and limits.                            *)
(*                                                                         *)
(* Last, the composition: a behaviour of all of them together is one of    *)
(* each, so what is proved of a feature holds of the whole.                *)
(***************************************************************************)
EXTENDS Features, Once_proofs, Sums_proofs, SequenceTheorems, TLAPS

(* The catalogue.                                                          *)

\* Numbers are drawn once.
Numbered ==
  /\ \A s \in services : s.id \in 1..svcSeq
  /\ \A s, z \in services : s.id = z.id => s = z
  /\ \A r \in referrals : r.id \in 1..refSeq
  /\ \A r, q \in referrals : r.id = q.id => r = q

Stored == /\ services \subseteq Services /\ nameIndex \in [Names -> Ids]
          /\ referrals \subseteq Referrals /\ svcSeq \in Ids /\ refSeq \in Ids
          /\ CatalogueSound /\ Numbered

\* What was shown is in the catalogue still, or its number is nobody's.
Stands(r) == r \in Referrals /\ r.id \in 1..refSeq /\ \A q \in referrals : q.id = r.id => q = r

Shown(d) == \A t \in Tokens : d[t].state = "moderation" => Stands(d[t].report)

\* The tokens somebody refers to.
Known(t) == t \in byToken \/ \E h \in Handlers : hand[h] # Idle /\ hand[h].token = t

ReferralInv ==
  /\ ReferralTypeOK /\ Stored /\ Shown(dialog)
  /\ \A t \in Tokens : Known(t) => dialog[t] # Unused

USE ReferralAssumption

\* A referral that is added to the catalogue.
LEMMA NewReferral ==
  ASSUME Stored, NEW new, new \in Referrals, new.id = refSeq + 1, refSeq + 1 \in Ids,
         refSeq' = refSeq + 1, referrals' = referrals \cup {new},
         ~Duplicate(new.svc, new.owner, new.url)
  PROVE  /\ referrals' \subseteq Referrals /\ refSeq' \in Ids
         /\ \A r, q \in referrals' :
              r.url = q.url \/ (r.svc = q.svc /\ r.owner = q.owner) \/ r.id = q.id => r = q
         /\ \A r \in referrals' : r.id \in 1..refSeq'
         /\ \A r : Stands(r) => Stands(r)'
<1> USE DEF Stored
<1>1. refSeq \in Nat
  BY DEF Ids
<1>2. \A r \in referrals : r.id \in Nat /\ r.id # 0 /\ r.id <= refSeq /\ r.id # new.id
  BY <1>1 DEF Numbered
<1>3. \A r \in referrals : r.url # new.url /\ ~(r.svc = new.svc /\ r.owner = new.owner)
  BY DEF Duplicate
<1>4. ASSUME NEW r \in referrals', NEW q \in referrals',
             r.url = q.url \/ (r.svc = q.svc /\ r.owner = q.owner) \/ r.id = q.id
      PROVE  r = q
  BY <1>2, <1>3, <1>4 DEF Numbered, CatalogueSound
<1>5. ASSUME NEW r, Stands(r) PROVE Stands(r)'
  BY <1>1, <1>5 DEF Stands
<1> QED BY <1>1, <1>2, <1>4, <1>5

LEMMA StoreKeeps ==
  ASSUME Stored, NEW id \in Ids, NEW name \in Names \cup {NoName}, NEW owner \in Actors, NEW url \in Urls,
         Store(id, name, owner, url)
  PROVE  Stored' /\ \A r : Stands(r) => Stands(r)'
<1> USE DEF Stored
<1>1. PICK new, svc : /\ new = [id |-> refSeq + 1, svc |-> ServiceFor(id), owner |-> owner, url |-> url]
                      /\ svc = [id |-> svcSeq + 1, name |-> name]
  OBVIOUS
<1>2. /\ svcSeq \in Nat /\ refSeq \in Nat /\ refSeq + 1 \in Ids /\ refSeq' = refSeq + 1
      /\ referrals' = referrals \cup {new} /\ ~Duplicate(ServiceFor(id), owner, url)
  BY <1>1 DEF Store, Ids, NextReferralID
<1>3. new.id = refSeq + 1 /\ new.svc = ServiceFor(id) /\ new.owner = owner /\ new.url = url
  BY <1>1
<1>4. CASE id = 0
  <2>1. /\ ServiceFor(id) = svcSeq + 1 /\ svcSeq' = svcSeq + 1 /\ svcSeq + 1 \in Ids
        /\ name \in Names /\ services' = services \cup {svc}
        /\ nameIndex' = [nameIndex EXCEPT ![name] = svcSeq + 1]
    BY <1>1, <1>2, <1>4 DEF Store, Resolves, ServiceFor, Ids
  <2>2. svc \in Services /\ svc.id = svcSeq + 1 /\ svc.name = name
    BY <1>1, <2>1 DEF Services
  <2>3. nameIndex[name] = 0
    <3>1. ~NameTaken(name)
      BY <1>4 DEF Store, Resolves
    <3>2. ASSUME nameIndex[name] # 0 PROVE Exists(nameIndex[name])
      <4>1. PICK s \in services : s = [id |-> nameIndex[name], name |-> name]
        BY <2>1, <3>2 DEF CatalogueSound
      <4> QED BY <4>1 DEF Exists
    <3> QED BY <2>1, <3>1, <3>2 DEF NameTaken
  <2>4. \A s \in services : /\ s.name # name /\ s.id # svcSeq + 1 /\ s.name \in Names
                            /\ s.id \in Nat /\ s.id # 0 /\ s.id <= svcSeq
    BY <1>2, <2>3 DEF CatalogueSound, Numbered, Services
  <2>5. new \in Referrals
    BY <1>1, <1>2, <2>1 DEF Referrals
  <2>6. /\ referrals' \subseteq Referrals /\ refSeq' \in Ids
        /\ \A r, q \in referrals' :
             r.url = q.url \/ (r.svc = q.svc /\ r.owner = q.owner) \/ r.id = q.id => r = q
        /\ \A r \in referrals' : r.id \in 1..refSeq'
        /\ \A r : Stands(r) => Stands(r)'
    BY <1>2, <1>3, <2>5, NewReferral
  <2>7. nameIndex' \in [Names -> Ids] /\ services' \subseteq Services /\ svcSeq' \in Ids
    BY <2>1, <2>2
  <2>8. \A n \in Names : nameIndex'[n] # 0 => [id |-> nameIndex'[n], name |-> n] \in services'
    BY <1>1, <2>1 DEF CatalogueSound
  <2>9. \A s \in services' : nameIndex'[s.name] = s.id
    BY <2>1, <2>2, <2>4 DEF CatalogueSound
  <2>10. \A s \in services' : \E r \in referrals' : r.svc = s.id
    BY <1>2, <1>3, <2>1, <2>2 DEF CatalogueSound
  <2>11. ASSUME NEW r \in referrals' PROVE Exists(r.svc)'
    BY <1>2, <1>3, <2>1, <2>2 DEF CatalogueSound, Exists
  <2>12. /\ \A s \in services' : s.id \in 1..svcSeq'
         /\ \A s, z \in services' : s.id = z.id => s = z
    BY <1>2, <2>1, <2>2, <2>4 DEF Numbered
  <2>13. CatalogueSound' /\ Numbered'
    BY <2>6, <2>8, <2>9, <2>10, <2>11, <2>12 DEF CatalogueSound, Numbered
  <2> QED BY <2>6, <2>7, <2>13
<1>5. CASE id # 0
  <2>1. /\ ServiceFor(id) = id /\ Exists(id)
        /\ UNCHANGED <<services, nameIndex, svcSeq>>
    BY <1>5 DEF Store, Resolves, ServiceFor
  <2>2. new \in Referrals
    BY <1>1, <1>2, <2>1 DEF Referrals
  <2>3. /\ referrals' \subseteq Referrals /\ refSeq' \in Ids
        /\ \A r, q \in referrals' :
             r.url = q.url \/ (r.svc = q.svc /\ r.owner = q.owner) \/ r.id = q.id => r = q
        /\ \A r \in referrals' : r.id \in 1..refSeq'
        /\ \A r : Stands(r) => Stands(r)'
    BY <1>2, <1>3, <2>2, NewReferral
  <2>4. \A r \in referrals' : Exists(r.svc)'
    BY <1>2, <1>3, <2>1 DEF CatalogueSound, Exists
  <2>5. \A s \in services : \E r \in referrals' : r.svc = s.id
    BY <1>2 DEF CatalogueSound
  <2>6. CatalogueSound' /\ Numbered'
    BY <2>1, <2>3, <2>4, <2>5 DEF CatalogueSound, Numbered
  <2> QED BY <2>1, <2>3, <2>6
<1> QED BY <1>4, <1>5

LEMMA DeleteKeeps ==
  ASSUME Stored, NEW d \in referrals, DeleteReferral(d)
  PROVE  Stored' /\ \A r : Stands(r) => Stands(r)'
<1> USE DEF Stored
<1>1. PICK empty : empty = {s \in services : s.id = d.svc /\ \A q \in referrals \ {d} : q.svc # s.id}
  OBVIOUS
<1>2. /\ referrals' = referrals \ {d} /\ services' = services \ empty
      /\ nameIndex' = [n \in Names |-> IF \E s \in empty : s.name = n THEN 0 ELSE nameIndex[n]]
      /\ UNCHANGED <<svcSeq, refSeq>>
  BY <1>1 DEF DeleteReferral
<1>3. /\ nameIndex' \in [Names -> Ids] /\ services' \subseteq Services /\ referrals' \subseteq Referrals
  BY <1>2 DEF Ids
<1>4. ASSUME NEW n \in Names, nameIndex'[n] # 0
      PROVE  [id |-> nameIndex'[n], name |-> n] \in services'
  <2>1. nameIndex'[n] = nameIndex[n] /\ \A s \in empty : s.name # n
    BY <1>2, <1>4
  <2>2. PICK s \in services : s = [id |-> nameIndex[n], name |-> n]
    BY <1>4, <2>1 DEF CatalogueSound
  <2> QED BY <1>2, <2>1, <2>2
<1>5. ASSUME NEW s \in services'
      PROVE  nameIndex'[s.name] = s.id /\ \E r \in referrals' : r.svc = s.id
  <2>1. s \in services /\ s \notin empty /\ s.name \in Names /\ nameIndex[s.name] = s.id
    BY <1>2 DEF CatalogueSound, Services
  <2>2. \A z \in empty : z.name # s.name
    BY <1>1, <2>1 DEF CatalogueSound, Numbered
  <2>3. nameIndex'[s.name] = s.id
    BY <1>2, <2>1, <2>2
  <2>4. PICK r \in referrals : r.svc = s.id
    BY <2>1 DEF CatalogueSound
  <2> QED BY <1>1, <1>2, <2>1, <2>3, <2>4
<1>6. ASSUME NEW r \in referrals' PROVE Exists(r.svc)'
  BY <1>1, <1>2 DEF CatalogueSound, Exists
<1>7. CatalogueSound'
  BY <1>2, <1>4, <1>5, <1>6 DEF CatalogueSound
<1>8. Numbered'
  BY <1>2 DEF Numbered
<1>9. ASSUME NEW r, Stands(r) PROVE Stands(r)'
  BY <1>2, <1>9 DEF Stands
<1> QED BY <1>2, <1>3, <1>7, <1>8, <1>9

----------------------------------------------------------------------------
(* The dialogues.                                                          *)

Tables(tokens, actors) ==
  tokens \subseteq Tokens /\ actors \in [Actors -> Tokens \cup {NoToken}]
TableKept == Tables(byToken', byActor') /\ overdue' \subseteq byToken' /\ byToken' \subseteq byToken
Hands == [Handlers -> {Idle} \cup [does : {"commit", "rerun"}, token : Tokens, svc : Ids]]
Dialogs == [Tokens -> Interactions \cup {Unused}]

LEMMA TableTypes ==
  ASSUME Tables(byToken, byActor), NEW t \in Tokens
  PROVE  /\ Tables(Live, LiveActor) /\ Live \subseteq byToken
         /\ Prune => TableKept
         /\ Drop(t) => TableKept
         /\ DropFrom(Live, LiveActor, t) => TableKept
BY DEF Tables, TableKept, Live, LiveActor, Prune, Drop, DropFrom, Table

\* Whatever a handler makes of the dialogues, nobody refers to one that is gone,
\* and what an admin was shown stands.
LEMMA DialogsKeep ==
  ASSUME ReferralInv, Stored', \A r : Stands(r) => Stands(r)',
         Tables(byToken', byActor'), overdue' \subseteq byToken', hand' \in Hands,
         NEW d \in Dialogs, Shown(d), dialog' \in {d, Held(d)},
         \A t \in Tokens : Known(t)' => d[t] # Unused
  PROVE  ReferralInv'
<1>1. \A t \in Tokens : dialog'[t] = d[t] \/ (dialog'[t] = Unused /\ ~Known(t)')
  BY DEF Held, Known, Dialogs
<1>2. dialog' \in Dialogs
  BY <1>1 DEF Dialogs, Held
<1>3. \A t \in Tokens : Known(t)' => dialog'[t] # Unused
  BY <1>1
<1>4. Shown(dialog)'
  BY <1>1 DEF Shown, Unused
<1>5. ReferralTypeOK'
  BY <1>2 DEF ReferralTypeOK, Tables, Hands, Dialogs, Stored
<1> QED BY <1>3, <1>4, <1>5 DEF ReferralInv

\* Handlers that leave the dialogues as they are.
LEMMA DialogsLeft ==
  ASSUME ReferralInv, Stored', \A r : Stands(r) => Stands(r)', TableKept, hand' = hand,
         dialog' \in {dialog, Held(dialog)}
  PROVE  ReferralInv'
<1>1. dialog \in Dialogs /\ hand' \in Hands /\ Shown(dialog)
  BY DEF ReferralInv, ReferralTypeOK, Dialogs, Hands
<1>2. \A t \in Tokens : Known(t)' => dialog[t] # Unused
  BY DEF ReferralInv, TableKept, Known
<1> QED BY <1>1, <1>2, DialogsKeep DEF TableKept

LEMMA CatalogueLeft ==
  ASSUME Stored, UNCHANGED catalogueVars
  PROVE  Stored' /\ \A r : Stands(r) => Stands(r)'
BY DEF catalogueVars, Stored, CatalogueSound, Numbered, Exists, Stands

LEMMA AnyReferralStands == ASSUME Stored, NEW r \in referrals PROVE Stands(r)
BY DEF Stored, Numbered, Stands

\* The commands begin a dialogue.
LEMMA BeginKeeps ==
  ASSUME ReferralInv, NEW a \in Actors, NEW t \in Tokens, HandleRegister(a, t) \/ HandleReport(a, t)
  PROVE  ReferralInv'
<1>0. /\ Tables(byToken, byActor) /\ hand \in Hands /\ dialog \in Dialogs /\ Stored
      /\ Tables(Live, LiveActor) /\ Live \subseteq byToken
  BY TableTypes DEF ReferralInv, ReferralTypeOK, Tables, Hands, Dialogs
<1>1. PICK f : /\ f \in Interactions /\ (f.state = "moderation" => Stands(f.report))
               /\ dialog' = Held([dialog EXCEPT ![t] = f])
  <2>1. CASE HandleRegister(a, t)
    <3>1. Fresh(a, "picker", NoReferral) \in Interactions /\ Fresh(a, "picker", NoReferral).state = "picker"
      BY DEF Fresh, Interactions, States, Ids
    <3> QED BY <2>1, <3>1 DEF HandleRegister
  <2>2. CASE HandleReport(a, t)
    <3>1. PICK r \in referrals : dialog' = Held([dialog EXCEPT ![t] = Fresh(a, "moderation", r)])
      BY <2>2 DEF HandleReport
    <3>2. Stands(r)
      BY <1>0, AnyReferralStands
    <3>3. Fresh(a, "moderation", r) \in Interactions /\ Fresh(a, "moderation", r).report = r
      BY <1>0 DEF Fresh, Interactions, States, Ids, Stored
    <3> QED BY <3>1, <3>2, <3>3
  <2> QED BY <2>1, <2>2
<1> DEFINE d == [dialog EXCEPT ![t] = f]
<1>2. d \in Dialogs /\ Shown(d)
  BY <1>0, <1>1 DEF Dialogs, Shown, ReferralInv
<1>3. /\ Tables(byToken', byActor') /\ overdue' \subseteq byToken' /\ hand' = hand
      /\ byToken' \subseteq byToken \cup {t} /\ UNCHANGED catalogueVars
  BY <1>0 DEF HandleRegister, HandleReport, Table, Tables
<1>4. \A x \in Tokens : Known(x)' => d[x] # Unused
  BY <1>0, <1>1, <1>3 DEF Known, ReferralInv, Dialogs, Interactions, Unused
<1>5. Stored' /\ \A r : Stands(r) => Stands(r)'
  BY <1>0, <1>3, CatalogueLeft
<1> HIDE DEF d
<1>6. dialog' \in {d, Held(d)}
  BY <1>1 DEF d
<1> QED BY <1>0, <1>2, <1>3, <1>4, <1>5, <1>6, DialogsKeep

\* What the invariant says of the tables, in the words of the lemmas.
LEMMA InWords ==
  ASSUME ReferralInv
  PROVE  /\ Tables(byToken, byActor) /\ overdue \subseteq byToken /\ hand \in Hands
         /\ dialog \in Dialogs /\ Stored /\ Shown(dialog)
         /\ \A t \in Tokens : Known(t) => dialog[t] \in Interactions
         /\ \A t \in byToken : t \in Tokens /\ Known(t)
BY DEF ReferralInv, ReferralTypeOK, Tables, Hands, Dialogs, Known

\* A dialogue that goes on with a draft or a choice is not about moderation.
LEMMA TurnKeeps ==
  ASSUME ReferralInv, UNCHANGED catalogueVars, Tables(byToken', byActor'),
         overdue' \subseteq byToken', byToken' \subseteq byToken, hand' \in Hands,
         NEW t \in Tokens, Known(t), \A x \in Tokens : Known(x)' => Known(x),
         NEW f \in Interactions, f.state # "moderation",
         dialog' \in {[dialog EXCEPT ![t] = f], Held([dialog EXCEPT ![t] = f])}
  PROVE  ReferralInv'
<1>1. PICK d : d = [dialog EXCEPT ![t] = f]
  OBVIOUS
<1>2. f # Unused
  BY DEF Interactions, Unused, States
<1>3. d \in Dialogs /\ Shown(d) /\ \A x \in Tokens : Known(x)' => d[x] # Unused
  BY <1>1, <1>2, InWords DEF Dialogs, Shown, ReferralInv
<1>4. Stored' /\ \A r : Stands(r) => Stands(r)'
  BY CatalogueLeft, InWords
<1>5. dialog' \in {d, Held(d)}
  BY <1>1
<1> QED BY <1>3, <1>4, <1>5, DialogsKeep

\* Choosing a service, or a new one.
LEMMA ChooseKeeps ==
  ASSUME ReferralInv, NEW t \in Tokens, CbSelect(t) \/ CbNew(t)
  PROVE  ReferralInv'
<1>1. t \in byToken /\ Known(t) /\ dialog[t] \in Interactions
  BY InWords DEF CbSelect, CbNew, Tapped, Live
<1>2. PICK f \in Interactions : f.state # "moderation" /\ dialog' = [dialog EXCEPT ![t] = f]
  <2>1. CASE CbSelect(t)
    <3>1. PICK s \in services :
            dialog' = [dialog EXCEPT ![t] = [dialog[t] EXCEPT !.sel = s.id, !.state = "url"]]
      BY <2>1, InWords DEF CbSelect
    <3>2. s.id \in Ids
      BY InWords DEF Stored, Services
    <3>3. /\ [dialog[t] EXCEPT !.sel = s.id, !.state = "url"] \in Interactions
          /\ [dialog[t] EXCEPT !.sel = s.id, !.state = "url"].state = "url"
      BY <1>1, <3>2 DEF Interactions, States
    <3> QED BY <3>1, <3>3
  <2>2. CASE CbNew(t)
    <3>1. PICK f : f = [dialog[t] EXCEPT !.state = "new", !.sel = 0, !.name = NoName, !.url = NoUrl]
      OBVIOUS
    <3>2. f = [state |-> "new", actor |-> dialog[t].actor, sel |-> 0, name |-> NoName,
               url |-> NoUrl, matches |-> dialog[t].matches, offered |-> dialog[t].offered,
               report |-> dialog[t].report]
      BY <1>1, <3>1 DEF Interactions
    <3>3. f \in Interactions /\ f.state = "new"
      BY <1>1, <3>2 DEF Interactions, States, Ids
    <3> QED BY <2>2, <3>1, <3>3 DEF CbNew
  <2> QED BY <2>1, <2>2
<1>3. UNCHANGED <<catalogueVars, tableVars, hand>>
  BY DEF CbSelect, CbNew
<1>4. \A x \in Tokens : Known(x)' => Known(x)
  BY <1>3 DEF Known, tableVars
<1> QED BY <1>1, <1>2, <1>3, <1>4, InWords, TurnKeeps DEF tableVars, Tables, Hands

\* A handler takes a dialogue to commit it.
LEMMA TakeKeeps ==
  ASSUME ReferralInv, NEW h \in Handlers, NEW t \in Tokens, CbMatch(h, t) \/ CbCreate(h, t)
  PROVE  ReferralInv'
<1>1. t \in byToken /\ Known(t) /\ dialog[t] \in Interactions
  BY InWords DEF CbMatch, CbCreate, Tapped, Live
<1>2. PICK svc \in Ids : hand' = [hand EXCEPT ![h] = [does |-> "commit", token |-> t, svc |-> svc]]
  BY <1>1 DEF CbMatch, CbCreate, Takes, Interactions, Ids
<1>3. UNCHANGED <<catalogueVars, tableVars, dialog>>
  BY DEF CbMatch, CbCreate
<1>4. hand' \in Hands
  BY <1>2, InWords DEF Hands
<1>5. \A x \in Tokens : Known(x)' => Known(x)
  BY <1>1, <1>2, <1>3, InWords DEF Known, tableVars, Hands
<1>6. Stored' /\ \A r : Stands(r) => Stands(r)'
  BY <1>3, CatalogueLeft, InWords
<1> QED BY <1>3, <1>4, <1>5, <1>6, InWords, DialogsKeep DEF tableVars, Tables, ReferralInv

\* Endings, taps that come too late, and the passing of time.
LEMMA EndKeeps ==
  ASSUME ReferralInv, NEW t \in Tokens,
         CbDelete(t) \/ CbCancel(t) \/ TapTooLate(t) \/ OtherReply \/ Lapse(t)
  PROVE  ReferralInv'
<1>0. Tables(byToken, byActor) /\ overdue \subseteq byToken /\ Stored
  BY InWords
<1>1. CASE CbDelete(t)
  BY <1>0, <1>1, DeleteKeeps, DialogsLeft, TableTypes DEF CbDelete
<1>2. CASE CbCancel(t) \/ TapTooLate(t) \/ OtherReply
  BY <1>0, <1>2, CatalogueLeft, DialogsLeft, TableTypes DEF CbCancel, TapTooLate, OtherReply
<1>3. CASE Lapse(t)
  <2>1. TableKept
    BY <1>0, <1>3 DEF Lapse, TableKept, Tables, Live
  <2> QED BY <1>0, <1>3, <2>1, CatalogueLeft, DialogsLeft DEF Lapse
<1> QED BY <1>1, <1>2, <1>3

\* The reply with a link for a service.
LEMMA LinkKeeps ==
  ASSUME ReferralInv, NEW a \in Actors, NEW t \in Tokens, NEW u \in Urls, HandleURLReply(a, t, u)
  PROVE  ReferralInv'
<1>1. t \in byToken /\ dialog[t] \in Interactions /\ dialog[t].sel \in Ids
  BY InWords DEF HandleURLReply, Awaiting, Live, Interactions
<1>2. TableKept
  BY InWords, TableTypes DEF HandleURLReply
<1>3. Stored' /\ \A r : Stands(r) => Stands(r)'
  BY <1>1, InWords, StoreKeeps, CatalogueLeft DEF HandleURLReply
<1> QED BY <1>2, <1>3, DialogsLeft DEF HandleURLReply

LEMMA MatchesTyped == ASSUME Stored, NEW n PROVE MatchesOf(n) \subseteq Ids
BY DEF MatchesOf, Stored, Services

LEMMA AskedTyped ==
  ASSUME Stored, NEW d \in Interactions, NEW n
  PROVE  Asked(d, n) \in Interactions /\ Asked(d, n).state = "choice"
<1>1. PICK m, o : m = MatchesOf(n) /\ o = (d.offered \/ ~IsExact(n))
  OBVIOUS
<1>2. m \in SUBSET Ids /\ o \in BOOLEAN
  BY <1>1, MatchesTyped
<1>3. Asked(d, n) = [state |-> "choice", actor |-> d.actor, sel |-> 0, name |-> d.name, url |-> d.url,
                     matches |-> m, offered |-> o, report |-> d.report]
  <2>1. Asked(d, n) = [d EXCEPT !.state = "choice", !.sel = 0, !.matches = m, !.offered = o]
    BY <1>1, Zenon DEF Asked
  <2> QED BY <2>1 DEF Interactions
<1> QED BY <1>2, <1>3 DEF Interactions, States, Ids

LEMMA DraftedTyped ==
  ASSUME NEW d \in Interactions, NEW n \in Names, NEW u \in Urls
  PROVE  Drafted(d, n, u) \in Interactions /\ Drafted(d, n, u).state = d.state
BY DEF Drafted, Interactions

\* The reply with a new service.
LEMMA DraftKeeps ==
  ASSUME ReferralInv, NEW h \in Handlers, NEW a \in Actors, NEW t \in Tokens, NEW n \in Names,
         NEW u \in Urls, HandleNewReply(h, a, t, n, u)
  PROVE  ReferralInv'
<1>1. /\ t \in byToken /\ Known(t) /\ dialog[t] \in Interactions /\ dialog[t].state = "new"
      /\ UNCHANGED catalogueVars
  BY InWords DEF HandleNewReply, Awaiting, Live
<1>2. TableKept
  BY InWords, TableTypes DEF HandleNewReply
<1>3. Drafted(dialog[t], n, u) \in Interactions /\ Drafted(dialog[t], n, u).state = "new"
  BY <1>1, DraftedTyped
<1>4. PICK f \in Interactions : f.state # "moderation" /\ dialog' = Held([dialog EXCEPT ![t] = f])
  <2>1. Asked(Drafted(dialog[t], n, u), n) \in Interactions
        /\ Asked(Drafted(dialog[t], n, u), n).state = "choice"
    BY <1>3, InWords, AskedTyped
  <2>2. \/ dialog' = Held([dialog EXCEPT ![t] = Drafted(dialog[t], n, u)])
        \/ dialog' = Held([dialog EXCEPT ![t] = Asked(Drafted(dialog[t], n, u), n)])
    BY InWords DEF HandleNewReply, Dialogs
  <2> QED BY <1>3, <2>1, <2>2
<1>5. hand' = hand \/ \E svc \in Ids : Takes(h, t, svc)
  <2>1. \A s \in services : s.id \in Ids
    BY InWords DEF Stored, Services
  <2>2. 0 \in Ids
    BY DEF Ids
  <2> QED BY <2>1, <2>2 DEF HandleNewReply
<1>6. hand' \in Hands
  BY <1>5, InWords DEF Takes, Hands
<1>7. ASSUME NEW x \in Tokens, Known(x)' PROVE Known(x)
  BY <1>1, <1>2, <1>5, <1>7, InWords DEF Known, Takes, Hands, TableKept
<1> QED BY <1>1, <1>2, <1>4, <1>6, <1>7, TurnKeeps DEF TableKept

\* What a handler makes of the dialogue it has taken.
LEMMA CommitKeeps ==
  ASSUME ReferralInv, NEW h \in Handlers, Commit(h)
  PROVE  ReferralInv'
<1>1. PICK t \in Tokens : t = hand[h].token /\ Known(t) /\ dialog[t] \in Interactions /\ hand[h].svc \in Ids
  BY InWords DEF Commit, Hands, Known
<1>2. dialog[t].name \in Names \cup {NoName} /\ dialog[t].actor \in Actors
      /\ (dialog[t].url # NoUrl => dialog[t].url \in Urls)
  BY <1>1 DEF Interactions
<1>3. hand' \in Hands /\ \A g \in Handlers : hand'[g] = Idle \/ (hand[g] # Idle /\ hand'[g].token = hand[g].token)
  BY <1>1, InWords DEF Commit, Hands, Idle
<1>4. TableKept
  BY <1>1, InWords, TableTypes DEF Commit, TableKept, tableVars
<1>5. Stored' /\ \A r : Stands(r) => Stands(r)'
  BY <1>1, <1>2, InWords, StoreKeeps, CatalogueLeft DEF Commit
<1>6. \A x \in Tokens : Known(x)' => dialog[x] # Unused
  BY <1>3, <1>4 DEF Known, TableKept, ReferralInv
<1> QED BY <1>3, <1>4, <1>5, <1>6, InWords, DialogsKeep DEF Commit, TableKept

LEMMA RerunKeeps ==
  ASSUME ReferralInv, NEW h \in Handlers, RerunMatch(h)
  PROVE  ReferralInv'
<1>1. PICK t \in Tokens : t = hand[h].token /\ Known(t) /\ dialog[t] \in Interactions
  BY InWords DEF RerunMatch, Hands, Known
<1>2. /\ hand' = [hand EXCEPT ![h] = Idle] /\ UNCHANGED <<catalogueVars, tableVars>>
      /\ \/ dialog' = Held(dialog)
         \/ dialog' = Held([dialog EXCEPT ![t] = Asked(dialog[t], dialog[t].name)])
  BY <1>1, InWords DEF RerunMatch, Dialogs
<1>3. hand' \in Hands /\ \A x \in Tokens : Known(x)' => Known(x)
  BY <1>2, InWords DEF Hands, Known, tableVars
<1>4. TableKept
  BY <1>2, InWords DEF TableKept, tableVars, Tables
<1>5. CASE dialog' = Held(dialog)
  <2>1. Stored' /\ \A r : Stands(r) => Stands(r)'
    BY <1>2, CatalogueLeft, InWords
  <2>2. \A x \in Tokens : Known(x)' => dialog[x] # Unused
    BY <1>3 DEF ReferralInv
  <2> QED BY <1>3, <1>4, <1>5, <2>1, <2>2, InWords, DialogsKeep DEF TableKept
<1>6. CASE dialog' = Held([dialog EXCEPT ![t] = Asked(dialog[t], dialog[t].name)])
  <2>1. PICK f : f = Asked(dialog[t], dialog[t].name)
    OBVIOUS
  <2>2. f \in Interactions /\ f.state = "choice"
    BY <1>1, <2>1, InWords, AskedTyped
  <2> QED BY <1>1, <1>2, <1>3, <1>4, <1>6, <2>1, <2>2, TurnKeeps DEF TableKept
<1> QED BY <1>2, <1>5, <1>6

LEMMA ReferralRestartKeeps ==
  ASSUME ReferralInv, ReferralRestart
  PROVE  ReferralInv'
<1>1. /\ byToken' = {} /\ overdue' = {} /\ byActor' = [a \in Actors |-> NoToken]
      /\ hand' = [h \in Handlers |-> Idle] /\ UNCHANGED catalogueVars /\ dialog' = Held(dialog)
  BY DEF ReferralRestart, Table
<1>2. Tables(byToken', byActor') /\ hand' \in Hands /\ \A x \in Tokens : ~Known(x)'
  BY <1>1 DEF Tables, Hands, Known
<1>3. Stored' /\ \A r : Stands(r) => Stands(r)'
  BY <1>1, CatalogueLeft, InWords
<1> QED BY <1>1, <1>2, <1>3, InWords, DialogsKeep

LEMMA ReferralStarts == ReferralInit => ReferralInv
<1> SUFFICES ASSUME ReferralInit PROVE ReferralInv
  OBVIOUS
<1>1. Stored
  BY DEF ReferralInit, Stored, CatalogueSound, Numbered, Ids
<1>2. ReferralTypeOK
  BY <1>1 DEF ReferralInit, ReferralTypeOK, Stored
<1>3. Shown(dialog) /\ \A t \in Tokens : ~Known(t)
  BY DEF ReferralInit, Shown, Known, Unused
<1> QED BY <1>1, <1>2, <1>3 DEF ReferralInv

\* The catalogue and the dialogues fit together at all times.
THEOREM ReferralInvCorrect == ReferralSpec => []ReferralInv
<1>1. ASSUME ReferralInv, [ReferralNext]_referralVars PROVE ReferralInv'
  <2>1. CASE UNCHANGED referralVars
    <3>1. Stored' /\ \A r : Stands(r) => Stands(r)'
      BY <1>1, <2>1, CatalogueLeft, InWords DEF referralVars
    <3>2. TableKept
      BY <1>1, <2>1, InWords DEF referralVars, tableVars, TableKept, Tables
    <3> QED BY <1>1, <2>1, <3>1, <3>2, DialogsLeft DEF referralVars
  <2>2. CASE OtherReply
    <3>1. PICK t \in Tokens : t \in overdue
      BY <1>1, <2>2, InWords DEF OtherReply, Tables
    <3> QED BY <1>1, <2>2, EndKeeps
  <2>3. ASSUME NEW a \in Actors, NEW t \in Tokens,
               \/ HandleRegister(a, t) \/ HandleReport(a, t)
               \/ \E u \in Urls : HandleURLReply(a, t, u)
        PROVE  ReferralInv'
    BY <1>1, <2>3, BeginKeeps, LinkKeeps
  <2>4. ASSUME NEW t \in Tokens, \/ CbSelect(t) \/ CbNew(t) \/ CbDelete(t) \/ CbCancel(t)
                                 \/ TapTooLate(t) \/ Lapse(t)
        PROVE  ReferralInv'
    BY <1>1, <2>4, ChooseKeeps, EndKeeps
  <2>5. ASSUME NEW h \in Handlers, NEW t \in Tokens,
               \/ CbMatch(h, t) \/ CbCreate(h, t)
               \/ \E a \in Actors, n \in Names, u \in Urls : HandleNewReply(h, a, t, n, u)
        PROVE  ReferralInv'
    BY <1>1, <2>5, TakeKeeps, DraftKeeps
  <2>6. ASSUME NEW h \in Handlers, Commit(h) \/ RerunMatch(h) PROVE ReferralInv'
    BY <1>1, <2>6, CommitKeeps, RerunKeeps
  <2>7. CASE ReferralRestart
    BY <1>1, <2>7, ReferralRestartKeeps
  <2> QED BY <1>1, <2>1, <2>2, <2>3, <2>4, <2>5, <2>6, <2>7 DEF ReferralNext
<1> QED BY <1>1, ReferralStarts, PTL DEF ReferralSpec

\* However dialogues, late replies and deletions interleave, the catalogue stays
\* whole.
THEOREM CatalogueSoundCorrect == ReferralSpec => []CatalogueSound
<1>1. ReferralInv => CatalogueSound
  BY DEF ReferralInv, Stored
<1> QED BY <1>1, ReferralInvCorrect, PTL

\* A confirmation removes the referral it showed the admin.
THEOREM DeletedAsShownCorrect == ReferralSpec => DeletedAsShown
<1>1. ASSUME ReferralInv, ReferralNext, NEW r \in referrals \ referrals'
      PROVE  \E t \in byToken : dialog[t].report = r
  <2>1. ASSUME UNCHANGED referrals PROVE FALSE
    BY <1>1, <2>1
  <2>2. ASSUME NEW id, NEW name, NEW owner, NEW url, Store(id, name, owner, url) PROVE FALSE
    BY <1>1, <2>2 DEF Store
  <2>3. PICK t \in Tokens : CbDelete(t)
    <3>1. ASSUME NEW a \in Actors, NEW t \in Tokens,
                 \/ HandleRegister(a, t) \/ HandleReport(a, t)
                 \/ \E u \in Urls : HandleURLReply(a, t, u)
          PROVE  FALSE
      BY <2>1, <2>2, <3>1 DEF catalogueVars, HandleRegister, HandleReport, HandleURLReply
    <3>2. ASSUME NEW t \in Tokens,
                 CbSelect(t) \/ CbNew(t) \/ CbCancel(t) \/ TapTooLate(t) \/ Lapse(t)
          PROVE  FALSE
      BY <2>1, <2>2, <3>2 DEF catalogueVars, CbSelect, CbNew, CbCancel, TapTooLate, Lapse
    <3>3. ASSUME NEW h \in Handlers, NEW t \in Tokens,
                 \/ CbMatch(h, t) \/ CbCreate(h, t)
                 \/ \E a \in Actors, n \in Names, u \in Urls : HandleNewReply(h, a, t, n, u)
          PROVE  FALSE
      BY <2>1, <2>2, <3>3 DEF catalogueVars, CbMatch, CbCreate, HandleNewReply
    <3>4. ASSUME \/ \E h \in Handlers : Commit(h) \/ RerunMatch(h)
                 \/ OtherReply \/ ReferralRestart
          PROVE  FALSE
      BY <2>1, <2>2, <3>4 DEF catalogueVars, Commit, RerunMatch, OtherReply, ReferralRestart
    <3> QED BY <1>1, <3>1, <3>2, <3>3, <3>4 DEF ReferralNext
  <2>4. PICK q \in referrals : q.id = dialog[t].report.id /\ DeleteReferral(q)
    BY <2>3 DEF CbDelete
  <2>5. q = r
    BY <1>1, <2>4 DEF DeleteReferral
  <2>6. t \in byToken /\ Stands(dialog[t].report)
    BY <1>1, <2>3, InWords DEF CbDelete, Tapped, Live, Shown
  <2> QED BY <2>4, <2>5, <2>6 DEF Stands
<1>2. ReferralInv /\ [ReferralNext]_referralVars =>
        [\A r \in referrals \ referrals' : \E t \in byToken : dialog[t].report = r]_referralVars
  BY <1>1
<1> QED BY <1>2, ReferralInvCorrect, PTL DEF ReferralSpec, DeletedAsShown

----------------------------------------------------------------------------
(* The reputation.                                                         *)

\* Where the report of an update's change may be.
ChangeInHand(p) == step[p] \in {"add", "reply"}
Waiting(p) == \E e \in pending : e.of = p
Going(p, b) == \E e \in b : e.of = p
Said(p) == \E e \in told : e.of = p

\* It is in one place, from the change on.
InOnePlace(p) ==
  /\ moved[p] = "none" => /\ ~ChangeInHand(p) /\ ~Waiting(p) /\ ~Said(p) /\ p \notin untold
                          /\ \A b \in flushing : ~Going(p, b)
  /\ moved[p] # "none" => \/ ChangeInHand(p) \/ Waiting(p) \/ Said(p) \/ p \in untold
                          \/ \E b \in flushing : Going(p, b)
  /\ ChangeInHand(p) => ~Waiting(p) /\ ~Said(p) /\ p \notin untold
  /\ Waiting(p) => ~Said(p) /\ p \notin untold
  /\ Said(p) => p \notin untold
  /\ \A b \in flushing : Going(p, b) => /\ ~ChangeInHand(p) /\ ~Waiting(p) /\ ~Said(p) /\ p \notin untold
                                        /\ \A c \in flushing : Going(p, c) => b = c

\* What will be told of it is what was done.
Truthful(p) ==
  /\ step[p] \in {"admins", "apply", "add", "reply"} => deed[p] \in Deeds
  /\ step[p] \in {"idle", "admins", "apply"} => moved[p] = "none"
  /\ ChangeInHand(p) => repDelta(deed[p]) = moved[p]
  /\ \A e \in pending \cup told : e.of = p => e.delta = moved[p]
  /\ \A b \in flushing : \A e \in b : e.of = p => e.delta = moved[p]

BatchTypes ==
  /\ step \in [Updates -> {"idle", "admins", "apply", "add", "reply", "done"}]
  /\ deed \in [Updates -> Deeds \cup {NoDeed}]
  /\ moved \in [Updates -> Changes]
  /\ pending \subseteq Events /\ flushing \subseteq SUBSET Events /\ told \subseteq Events
  /\ untold \subseteq Updates /\ armed \in BOOLEAN

ReputationInv ==
  /\ BatchTypes /\ \A p \in Updates : InOnePlace(p) /\ Truthful(p)
  /\ (pending # {}) <=> armed

\* An update that has changed nothing yet goes on, or gives up.
LEMMA BeforeKeeps ==
  ASSUME ReputationInv, NEW p \in Updates, React(p) \/ Command(p) \/ LookUpAdmins(p)
  PROVE  ReputationInv'
<1> USE DEF ReputationInv
<1>1. PICK s \in {"admins", "apply", "done"}, d \in Deeds \cup {NoDeed} :
        /\ step' = [step EXCEPT ![p] = s] /\ deed' = [deed EXCEPT ![p] = d]
        /\ s # "done" => d \in Deeds
  <2>1. ASSUME NEW how \in {"reaction", "command"}, NEW u \in Users, NEW v \in Users, NEW k \in Kinds,
               Begins(p, how, u, v, k)
        PROVE  \E d \in Deeds : step' = [step EXCEPT ![p] = "admins"] /\ deed' = [deed EXCEPT ![p] = d]
    <3>1. PICK d : d = [via |-> how, actor |-> u, target |-> v, kind |-> k,
                        actorAdmin |-> FALSE, targetAdmin |-> FALSE]
      OBVIOUS
    <3>2. d \in Deeds
      BY <3>1 DEF Deeds
    <3> QED BY <2>1, <3>1, <3>2 DEF Begins, Knows
  <2>2. CASE Turns(p, "done")
    BY <2>2 DEF Turns, Knows
  <2>3. CASE React(p)
    <3>1. \A m \in Messages, u \in Users : Author[m] \notin {Bot, u} => Author[m] \in Users
      BY ReputationAssumption
    <3> QED BY <2>1, <2>2, <2>3, <3>1 DEF React
  <2>4. CASE Command(p)
    BY <2>1, <2>2, <2>4 DEF Command
  <2>5. ASSUME NEW a \in BOOLEAN, NEW t \in BOOLEAN, step[p] = "admins",
               Knows(p, "apply", [deed[p] EXCEPT !.actorAdmin = a, !.targetAdmin = t])
        PROVE  \E d \in Deeds : step' = [step EXCEPT ![p] = "apply"] /\ deed' = [deed EXCEPT ![p] = d]
    <3>1. PICK d : d = [deed[p] EXCEPT !.actorAdmin = a, !.targetAdmin = t]
      OBVIOUS
    <3>2. deed[p] \in Deeds
      BY <2>5 DEF Truthful
    <3>3. d \in Deeds
      BY <3>1, <3>2 DEF Deeds
    <3> QED BY <2>5, <3>1, <3>3 DEF Knows
  <2> QED BY <2>2, <2>3, <2>4, <2>5 DEF LookUpAdmins
<1>2. /\ step[p] \in {"idle", "admins"}
      /\ UNCHANGED <<pending, armed, flushing, told, untold, moved>>
  BY DEF React, Command, LookUpAdmins, batchVars
<1>3. BatchTypes'
  BY <1>1, <1>2 DEF BatchTypes
<1>4. ASSUME NEW q \in Updates PROVE (InOnePlace(q) /\ Truthful(q))'
  <2>1. CASE q = p
    BY <1>1, <1>2, <2>1 DEF InOnePlace, Truthful, ChangeInHand, Waiting, Going, Said, BatchTypes
  <2>2. CASE q # p
    <3>1. step'[q] = step[q] /\ deed'[q] = deed[q]
      BY <1>1, <2>2 DEF BatchTypes
    <3> QED BY <1>2, <3>1 DEF InOnePlace, Truthful, ChangeInHand, Waiting, Going, Said
  <2> QED BY <2>1, <2>2
<1> QED BY <1>2, <1>3, <1>4

\* The transaction.
LEMMA ApplyKeeps ==
  ASSUME ReputationInv, NEW p \in Updates, Apply(p)
  PROVE  ReputationInv'
<1> USE DEF ReputationInv
<1>1. /\ step[p] = "apply" /\ deed[p] \in Deeds /\ moved[p] = "none"
      /\ UNCHANGED <<pending, armed, flushing, told, untold>>
  BY DEF Apply, Truthful, batchVars
<1>2. PICK s, m, d : /\ step' = [step EXCEPT ![p] = s] /\ moved' = [moved EXCEPT ![p] = m]
                     /\ deed' = [deed EXCEPT ![p] = d]
                     /\ \/ s \in {"add", "reply"} /\ m = Earned(deed[p]) /\ d = deed[p]
                        \/ s = "done" /\ m = "none" /\ d = NoDeed
  <2>1. CASE moved' = [moved EXCEPT ![p] = Earned(deed[p])]
             /\ Turns(p, IF deed[p].via = "reaction" THEN "add" ELSE "reply")
    BY <2>1 DEF Turns, Knows
  <2>2. CASE Turns(p, "done") /\ UNCHANGED moved
    <3>1. moved' = [moved EXCEPT ![p] = "none"]
      BY <1>1, <2>2 DEF BatchTypes
    <3> QED BY <2>2, <3>1 DEF Turns, Knows
  <2> QED BY <2>1, <2>2 DEF Apply
<1>3. Earned(deed[p]) = repDelta(deed[p]) /\ Earned(deed[p]) \in Changes \ {"none"}
  BY <1>1 DEF Earned, repDelta, Deeds, Kinds, Changes
<1>4. BatchTypes'
  BY <1>1, <1>2, <1>3 DEF BatchTypes, Changes
<1>5. ASSUME NEW q \in Updates PROVE (InOnePlace(q) /\ Truthful(q))'
  <2>1. CASE q = p
    <3>1. step'[p] = s /\ moved'[p] = m /\ deed'[p] = d
      BY <1>2 DEF BatchTypes
    <3>2. /\ ~Waiting(p) /\ ~Said(p) /\ p \notin untold /\ \A b \in flushing : ~Going(p, b)
      BY <1>1 DEF InOnePlace
    <3>3. InOnePlace(p)'
      BY <1>1, <1>2, <1>3, <3>1, <3>2 DEF InOnePlace, ChangeInHand, Waiting, Going, Said
    <3>4. Truthful(p)'
      <4>1. /\ \A e \in pending \cup told : e.of # p
            /\ \A b \in flushing : \A e \in b : e.of # p
        BY <3>2 DEF Waiting, Going, Said
      <4>2. step'[p] # "done" => deed'[p] \in Deeds /\ repDelta(deed'[p]) = moved'[p]
        BY <1>1, <1>2, <1>3, <3>1
      <4>3. step'[p] \in {"add", "reply", "done"}
        BY <1>2, <3>1
      <4> QED BY <1>1, <4>1, <4>2, <4>3 DEF Truthful, ChangeInHand
    <3> QED BY <2>1, <3>3, <3>4
  <2>2. CASE q # p
    <3>1. step'[q] = step[q] /\ deed'[q] = deed[q] /\ moved'[q] = moved[q]
      BY <1>2, <2>2 DEF BatchTypes
    <3> QED BY <1>1, <3>1 DEF InOnePlace, Truthful, ChangeInHand, Waiting, Going, Said
  <2> QED BY <2>1, <2>2
<1> QED BY <1>1, <1>4, <1>5

\* An event joins the open batch, and starts its timer if it is the first.
LEMMA AddKeeps ==
  ASSUME ReputationInv, NEW p \in Updates, Add(p)
  PROVE  ReputationInv'
<1> USE DEF ReputationInv
<1>1. PICK e : e = Event(p)
  OBVIOUS
<1>2. /\ step[p] = "add" /\ step' = [step EXCEPT ![p] = "done"] /\ deed' = [deed EXCEPT ![p] = NoDeed]
      /\ pending' = pending \cup {e} /\ armed' = (pending = {} \/ armed)
      /\ UNCHANGED <<flushing, told, untold, moved>>
  BY <1>1 DEF Add, Turns, Knows
<1>3. e \in Events /\ e.of = p /\ e.delta = moved[p]
  BY <1>1, <1>2 DEF Event, Events, Truthful, ChangeInHand, BatchTypes
<1>4. BatchTypes'
  BY <1>2, <1>3 DEF BatchTypes
<1>5. ASSUME NEW q \in Updates PROVE (InOnePlace(q) /\ Truthful(q))'
  <2>1. CASE q = p
    <3>1. step'[p] = "done" /\ ChangeInHand(p)
      BY <1>2 DEF BatchTypes, ChangeInHand
    <3>2. InOnePlace(p)'
      BY <1>2, <1>3, <3>1 DEF InOnePlace, ChangeInHand, Waiting, Going, Said
    <3>3. Truthful(p)'
      BY <1>2, <1>3, <3>1 DEF Truthful, ChangeInHand
    <3> QED BY <2>1, <3>2, <3>3
  <2>2. CASE q # p
    <3>1. step'[q] = step[q] /\ deed'[q] = deed[q] /\ moved'[q] = moved[q]
      BY <1>2, <2>2 DEF BatchTypes
    <3>2. Waiting(q)' <=> Waiting(q)
      BY <1>2, <1>3, <2>2 DEF Waiting
    <3>3. InOnePlace(q)'
      BY <1>2, <3>1, <3>2 DEF InOnePlace, ChangeInHand, Going, Said
    <3>4. Truthful(q)'
      BY <1>2, <1>3, <2>2, <3>1 DEF Truthful, ChangeInHand
    <3> QED BY <3>3, <3>4
  <2> QED BY <2>1, <2>2
<1>6. (pending' # {}) <=> armed'
  BY <1>2
<1> QED BY <1>4, <1>5, <1>6

\* A command is answered, or its answer fails.
LEMMA ReplyKeeps ==
  ASSUME ReputationInv, NEW p \in Updates, Reply(p)
  PROVE  ReputationInv'
<1> USE DEF ReputationInv
<1>1. PICK e : e = Event(p)
  OBVIOUS
<1>2. /\ step[p] = "reply" /\ step' = [step EXCEPT ![p] = "done"] /\ deed' = [deed EXCEPT ![p] = NoDeed]
      /\ \/ told' = told \cup {e} /\ untold' = untold
         \/ untold' = untold \cup {p} /\ told' = told
      /\ UNCHANGED <<pending, armed, flushing, moved>>
  BY <1>1 DEF Reply, Turns, Knows, batchVars
<1>3. e \in Events /\ e.of = p /\ e.delta = moved[p]
  BY <1>1, <1>2 DEF Event, Events, Truthful, ChangeInHand, BatchTypes
<1>4. BatchTypes'
  BY <1>2, <1>3 DEF BatchTypes
<1>5. ASSUME NEW q \in Updates PROVE (InOnePlace(q) /\ Truthful(q))'
  <2>1. CASE q = p
    <3>1. step'[p] = "done" /\ ChangeInHand(p)
      BY <1>2 DEF BatchTypes, ChangeInHand
    <3>2. InOnePlace(p)'
      BY <1>2, <1>3, <3>1 DEF InOnePlace, ChangeInHand, Waiting, Going, Said
    <3>3. Truthful(p)'
      BY <1>2, <1>3, <3>1 DEF Truthful, ChangeInHand
    <3> QED BY <2>1, <3>2, <3>3
  <2>2. CASE q # p
    <3>1. step'[q] = step[q] /\ deed'[q] = deed[q] /\ moved'[q] = moved[q]
      BY <1>2, <2>2 DEF BatchTypes
    <3>2. (Said(q)' <=> Said(q)) /\ (q \in untold' <=> q \in untold)
      BY <1>2, <1>3, <2>2 DEF Said
    <3>3. InOnePlace(q)'
      BY <1>2, <3>1, <3>2 DEF InOnePlace, ChangeInHand, Going, Waiting
    <3>4. Truthful(q)'
      BY <1>2, <1>3, <2>2, <3>1 DEF Truthful, ChangeInHand
    <3> QED BY <3>3, <3>4
  <2> QED BY <2>1, <2>2
<1> QED BY <1>2, <1>4, <1>5

\* The batch is taken out.
LEMMA TimerKeeps ==
  ASSUME ReputationInv, TimerFires
  PROVE  ReputationInv'
<1> USE DEF ReputationInv
<1>1. /\ armed /\ ~armed' /\ armed' \in BOOLEAN /\ pending # {} /\ pending' = {}
      /\ flushing' = flushing \cup {pending}
      /\ UNCHANGED <<step, deed, told, untold, moved>>
  BY DEF TimerFires
<1>2. BatchTypes'
  BY <1>1 DEF BatchTypes
<1>3. ASSUME NEW q \in Updates PROVE (InOnePlace(q) /\ Truthful(q))'
  <2>1. ~Waiting(q)' /\ (Waiting(q) <=> Going(q, pending))
    BY <1>1 DEF Waiting, Going
  <2>2. \A b : Going(q, b)' <=> Going(q, b)
    BY DEF Going
  <2>3. InOnePlace(q)'
    BY <1>1, <2>1, <2>2 DEF InOnePlace, ChangeInHand, Said
  <2>4. Truthful(q)'
    BY <1>1 DEF Truthful, ChangeInHand
  <2> QED BY <2>3, <2>4
<1> QED BY <1>1, <1>2, <1>3

\* The batch is told, or lost.
LEMMA SendBatchKeeps ==
  ASSUME ReputationInv, NEW events \in flushing, SendBatch(events)
  PROVE  ReputationInv'
<1> USE DEF ReputationInv
<1>1. /\ flushing' = flushing \ {events}
      /\ \/ told' = told \cup events /\ untold' = untold
         \/ untold' = untold \cup {e.of : e \in events} /\ told' = told
      /\ UNCHANGED <<step, deed, pending, armed, moved>>
  BY DEF SendBatch
<1>2. BatchTypes'
  BY <1>1 DEF BatchTypes, Events
<1>3. ASSUME NEW q \in Updates PROVE (InOnePlace(q) /\ Truthful(q))'
  <2>1. \/ (Said(q)' <=> Said(q) \/ Going(q, events)) /\ (q \in untold' <=> q \in untold)
        \/ (Said(q)' <=> Said(q)) /\ (q \in untold' <=> q \in untold \/ Going(q, events))
    BY <1>1 DEF Said, Going
  <2>2. \A b : Going(q, b)' <=> Going(q, b)
    BY DEF Going
  <2>3. (ChangeInHand(q)' <=> ChangeInHand(q)) /\ (Waiting(q)' <=> Waiting(q))
    BY <1>1 DEF ChangeInHand, Waiting
  <2>4. InOnePlace(q)'
    <3>1. CASE Going(q, events)
      BY <1>1, <2>1, <2>2, <2>3, <3>1 DEF InOnePlace
    <3>2. CASE ~Going(q, events)
      BY <1>1, <2>1, <2>2, <2>3, <3>2 DEF InOnePlace
    <3> QED BY <3>1, <3>2
  <2>5. Truthful(q)'
    BY <1>1 DEF Truthful, ChangeInHand
  <2> QED BY <2>4, <2>5
<1> QED BY <1>1, <1>2, <1>3

\* What was on its way is lost with the process.
LEMMA ReputationRestartKeeps ==
  ASSUME ReputationInv, ReputationRestart
  PROVE  ReputationInv'
<1> USE DEF ReputationInv
<1>1. /\ step' = [p \in Updates |-> IF step[p] = "idle" THEN "idle" ELSE "done"]
      /\ deed' = [p \in Updates |-> NoDeed] /\ pending' = {} /\ armed' = FALSE /\ flushing' = {}
      /\ untold' = untold \cup {p \in Updates : step[p] \in {"add", "reply"}}
                          \cup {e.of : e \in pending \cup UNION flushing}
      /\ UNCHANGED <<told, moved>>
  BY DEF ReputationRestart
<1>2. BatchTypes'
  <2>1. untold' \subseteq Updates
    BY <1>1 DEF BatchTypes, Events
  <2> QED BY <1>1, <2>1 DEF BatchTypes
<1>3. ASSUME NEW q \in Updates PROVE (InOnePlace(q) /\ Truthful(q))'
  <2>1. ~ChangeInHand(q)' /\ ~Waiting(q)' /\ (Said(q)' <=> Said(q)) /\ flushing' = {}
    BY <1>1 DEF ChangeInHand, Waiting, Said
  <2>2. q \in untold' <=> \/ q \in untold \/ ChangeInHand(q) \/ Waiting(q)
                          \/ \E b \in flushing : Going(q, b)
    BY <1>1 DEF ChangeInHand, Waiting, Going
  <2>3. moved'[q] = moved[q]
    BY <1>1
  <2>4. InOnePlace(q)'
    BY <2>1, <2>2, <2>3 DEF InOnePlace
  <2>5. Truthful(q)'
    BY <1>1, <2>1, <2>3 DEF Truthful
  <2> QED BY <2>4, <2>5
<1> QED BY <1>1, <1>2, <1>3

\* Every change is in one place on its way into the chat.
THEOREM ReputationInvCorrect == ReputationSpec => []ReputationInv
<1>1. ReputationInit => ReputationInv
  BY DEF ReputationInit, ReputationInv, BatchTypes, InOnePlace, Truthful, ChangeInHand, Waiting, Going, Said,
         Changes
<1>2. ASSUME ReputationInv, [ReputationNext]_reputationVars PROVE ReputationInv'
  <2>1. CASE UNCHANGED <<step, deed, batchVars, told, untold, moved>>
    BY <1>2, <2>1 DEF batchVars, ReputationInv, BatchTypes, InOnePlace, Truthful, ChangeInHand, Waiting,
       Going, Said
  <2>2. ASSUME NEW m \in Messages, RecordAuthor(m)
        PROVE  UNCHANGED <<step, deed, batchVars, told, untold, moved>>
    BY <2>2 DEF RecordAuthor
  <2>3. ASSUME NEW u \in Users, Balance(u)
        PROVE  UNCHANGED <<step, deed, batchVars, told, untold, moved>>
    BY <2>3 DEF Balance
  <2> QED BY <1>2, <2>1, <2>2, <2>3, BeforeKeeps, ApplyKeeps, AddKeeps, ReplyKeeps, TimerKeeps,
             SendBatchKeeps, ReputationRestartKeeps DEF ReputationNext, reputationVars
<1> QED BY <1>1, <1>2, PTL DEF ReputationSpec

\* Every change of somebody's balance is on its way into the chat or has been
\* told there, once and with its amount, unless a send failed or the bot was
\* restarted.
THEOREM CreditsReportedCorrect == ReputationSpec => []CreditsReported
<1>1. ASSUME ReputationInv PROVE CreditsReported
  <2> USE <1>1 DEF ReputationInv
  <2> DEFINE waiting(p) == Mine(p, pending)
             going(p) == {b \in flushing : Mine(p, b) # {}}
             wasTold(p) == Mine(p, told)
             places(p) == {x \in {"held", "waiting", "going", "said", "untold"} :
                             \/ x = "held" /\ step[p] \in {"add", "reply"}
                             \/ x = "waiting" /\ waiting(p) # {}
                             \/ x = "going" /\ going(p) # {}
                             \/ x = "said" /\ wasTold(p) # {}
                             \/ x = "untold" /\ p \in untold}
  <2>1. ASSUME NEW p \in Updates
        PROVE  /\ (moved[p] # "none") <=> (places(p) # {})
               /\ \A x, y \in places(p) : x = y
               /\ \A b, c \in going(p) : b = c
               /\ \A e \in pending \cup told \cup UNION flushing : e.of = p => e.delta = moved[p]
    <3>1. /\ waiting(p) # {} <=> Waiting(p)
          /\ wasTold(p) # {} <=> Said(p)
          /\ \A b : b \in going(p) <=> b \in flushing /\ Going(p, b)
      BY DEF Mine, Waiting, Said, Going
    <3>2. \A x : x \in places(p) <=> \/ x = "held" /\ ChangeInHand(p)
                                     \/ x = "waiting" /\ Waiting(p)
                                     \/ x = "going" /\ \E b \in flushing : Going(p, b)
                                     \/ x = "said" /\ Said(p)
                                     \/ x = "untold" /\ p \in untold
      BY <3>1 DEF ChangeInHand
    <3>3. InOnePlace(p) /\ Truthful(p)
      OBVIOUS
    <3> HIDE DEF places, going
    <3>4. (moved[p] # "none") <=> (places(p) # {})
      BY <3>2, <3>3 DEF InOnePlace
    <3>5. ASSUME NEW x \in places(p), NEW y \in places(p) PROVE x = y
      BY <3>2, <3>3 DEF InOnePlace
    <3>6. ASSUME NEW b \in going(p), NEW c \in going(p) PROVE b = c
      BY <3>1, <3>3 DEF InOnePlace
    <3>7. ASSUME NEW e \in pending \cup told \cup UNION flushing, e.of = p PROVE e.delta = moved[p]
      <4>1. CASE e \in pending \cup told
        BY <3>3, <3>7, <4>1 DEF Truthful
      <4>2. CASE e \in UNION flushing
        BY <3>3, <3>7, <4>2 DEF Truthful
      <4> QED BY <4>1, <4>2
    <3> QED BY <3>4, <3>5, <3>6, <3>7
  <2> QED BY <2>1 DEF CreditsReported
<1> QED BY <1>1, ReputationInvCorrect, PTL

Balances == /\ index \in Seq(Messages) /\ Len(index) <= MaxIndex
            /\ account \in [Users -> [open : BOOLEAN, balance : Nat]]

LEMMA Rebalanced ==
  ASSUME Balances, BatchTypes, NEW p \in Updates, Truthful(p), Apply(p)
  PROVE  account' \in [Users -> [open : BOOLEAN, balance : Nat]]
<1> USE DEF Balances
<1>1. deed[p] \in Deeds
  BY DEF Apply, Truthful
<1>2. ASSUME NEW u \in Users, NEW b \in BOOLEAN PROVE readBalance(u, b) \in Nat
  BY ReputationAssumption DEF readBalance, defaultBalance
<1> DEFINE d == deed[p]
           a == readBalance(d.actor, d.actorAdmin)
           t == readBalance(d.target, d.targetAdmin)
<1>3. a \in Nat /\ t \in Nat
  BY <1>1, <1>2 DEF Deeds
<1>4. ASSUME d.kind = "roast" => t >= 1 PROVE Worth(t, Earned(d)) \in Nat
  <2>1. CASE d.kind = "roast"
    BY <1>3, <1>4, <2>1 DEF Worth, Earned
  <2>2. CASE d.kind # "roast"
    BY <1>3, <2>2 DEF Worth, Earned
  <2> QED BY <2>1, <2>2
<1>5. CASE UNCHANGED account
  BY <1>5
<1>6. CASE /\ a >= 1 /\ (d.kind = "roast" => t >= 1)
           /\ account' = [account EXCEPT ![d.actor] = Holds(a - 1),
                                         ![d.target] = Holds(Worth(t, Earned(d)))]
  <2>1. a - 1 \in Nat /\ Worth(t, Earned(d)) \in Nat
    BY <1>3, <1>4, <1>6
  <2> HIDE DEF a, t
  <2> QED BY <1>6, <2>1 DEF Holds
<1> QED BY <1>5, <1>6 DEF Apply

LEMMA ReputationTypesCorrect == ReputationSpec => []ReputationTypeOK
<1>1. ReputationInit => Balances
  BY ReputationAssumption DEF ReputationInit, Balances, NoAccount
<1>2. ASSUME ReputationInv, Balances, [ReputationNext]_reputationVars PROVE Balances'
  <2> USE DEF Balances
  <2>1. ASSUME NEW m \in Messages, RecordAuthor(m) PROVE Balances'
    <3>1. PICK n \in Seq(Messages) : /\ n = index \/ n = Append(index, m)
                                     /\ index' = IF Len(n) > MaxIndex THEN Tail(n) ELSE n
      <4>1. index \in Seq(Messages) /\ Append(index, m) \in Seq(Messages)
        BY <1>2
      <4>2. CASE \E i \in DOMAIN index : index[i] = m
        BY <2>1, <4>1, <4>2 DEF RecordAuthor
      <4>3. CASE ~ \E i \in DOMAIN index : index[i] = m
        BY <2>1, <4>1, <4>3 DEF RecordAuthor
      <4> QED BY <4>2, <4>3
    <3>2. Len(n) \in Nat /\ Len(n) <= MaxIndex + 1
      BY <1>2, <3>1, ReputationAssumption
    <3>3. index' \in Seq(Messages) /\ Len(index') <= MaxIndex
      BY <3>1, <3>2, ReputationAssumption
    <3> QED BY <1>2, <2>1, <3>3 DEF RecordAuthor
  <2>2. ASSUME NEW p \in Updates, Apply(p) PROVE Balances'
    BY <1>2, <2>2, Rebalanced DEF Apply, ReputationInv
  <2>3. ASSUME NEW u \in Users, Balance(u) PROVE Balances'
    <3>1. PICK b \in BOOLEAN : account' = [account EXCEPT ![u] = Holds(readBalance(u, b))]
      BY <2>3 DEF Balance
    <3>2. readBalance(u, b) \in Nat
      BY <1>2, ReputationAssumption DEF readBalance, defaultBalance
    <3> QED BY <1>2, <2>3, <3>1, <3>2 DEF Balance, Holds
  <2>4. CASE ReputationRestart
    BY <1>2, <2>4, ReputationAssumption DEF ReputationRestart
  <2>5. ASSUME NEW p \in Updates, React(p) \/ Command(p) \/ LookUpAdmins(p) \/ Add(p) \/ Reply(p)
        PROVE  UNCHANGED <<index, account>>
    BY <2>5 DEF React, Command, LookUpAdmins, Add, Reply
  <2>6. ASSUME TimerFires \/ (\E b \in flushing : SendBatch(b)) \/ UNCHANGED reputationVars
        PROVE  UNCHANGED <<index, account>>
    BY <2>6 DEF TimerFires, SendBatch, reputationVars
  <2> QED BY <1>2, <2>1, <2>2, <2>3, <2>4, <2>5, <2>6 DEF ReputationNext
<1>3. ReputationInv /\ Balances => ReputationTypeOK
  BY DEF ReputationInv, BatchTypes, Balances, ReputationTypeOK
<1> QED BY <1>1, <1>2, <1>3, ReputationInvCorrect, PTL DEF ReputationSpec

----------------------------------------------------------------------------
(* The migration.                                                          *)

RowTypes ==
  /\ rows \in [RowTables -> [ChatIds -> [Rows -> SUBSET Shares]]]
  /\ monthIdx \in [ChatIds -> SUBSET Months]
  /\ redirects \in 0..MaxRedirects
  /\ written \subseteq RowTables \X Rows \X Shares
  /\ installed \in [ChatIds -> 0..2] /\ noted \in 0..2

\* Nothing was written after a redirect still to come; what is under the old id
\* was written there, and what has moved was written before the last redirect.
SharesPlaced ==
  /\ \A t \in RowTables, r \in Rows, s \in Shares : <<t, r, s>> \in written => s.after <= redirects
  /\ \A t \in RowTables, r \in Rows :
       /\ \A s \in rows[t]["group"][r] : s.under = "group"
       /\ \A s \in rows[t]["supergroup"][r] : s.under = "group" => s.after < redirects

\* A share is under one id at a time, and was written.
Apart ==
  \A t \in RowTables, r \in Rows :
    /\ rows[t]["group"][r] \cap rows[t]["supergroup"][r] = {}
    /\ \A c \in ChatIds : \A s \in rows[t][c][r] : <<t, r, s>> \in written

InstallKept ==
  /\ \A c \in ChatIds : installed[c] = 0 \/ installed[c] >= noted
  /\ noted # 0 => \E c \in ChatIds : installed[c] = noted
  /\ noted = 0 => \A c \in ChatIds : installed[c] = 0

RowsInv == /\ RowTypes /\ SharesPlaced /\ Apart
           /\ CollectedMoved /\ WalkedMoved /\ OnlyPassedOverHidden
           /\ InstallKept

HIDE ReferralAssumption
USE RekeyAssumption

LEMMA ShareEquality ==
  ASSUME NEW s \in Shares, NEW q \in Shares, s.under = q.under, s.after = q.after
  PROVE  s = q
BY DEF Shares

LEMMA ShareTimes == \A s \in Shares : s.after \in Nat
BY DEF Shares

LEMMA RedirectCount ==
  ASSUME RowTypes PROVE redirects \in Nat
BY DEF RowTypes

LEMMA WriteRowKeeps ==
  ASSUME RowsInv, NEW t \in RowTables, NEW c \in ChatIds, NEW r \in Rows, WriteRow(t, c, r)
  PROVE  RowsInv'
<1> DEFINE new == [under |-> c, after |-> redirects]
<1> USE DEF RowsInv
<1>1. /\ rows' = [rows EXCEPT ![t][c][r] = @ \cup {new}]
      /\ monthIdx' = [monthIdx EXCEPT ![c] = IF t = "stats_month" THEN @ \cup {MonthOf[r]} ELSE @]
      /\ written' = written \cup {<<t, r, new>>}
      /\ UNCHANGED <<installed, redirects, noted>>
  BY DEF WriteRow
<1>2. new \in Shares /\ new.under = c /\ new.after = redirects
  BY DEF RowTypes, Shares
<1> HIDE DEF new
<1>3. RowTypes'
  <2>1. rows' \in [RowTables -> [ChatIds -> [Rows -> SUBSET Shares]]]
    BY <1>1, <1>2 DEF RowTypes
  <2>2. monthIdx' \in [ChatIds -> SUBSET Months]
    BY <1>1 DEF RowTypes
  <2>3. written' \subseteq RowTables \X Rows \X Shares
    BY <1>1, <1>2 DEF RowTypes
  <2> QED BY <1>1, <2>1, <2>2, <2>3 DEF RowTypes
<1>4. /\ rows'[t][c][r] = rows[t][c][r] \cup {new}
      /\ \A x \in RowTables, d \in ChatIds, q \in Rows :
           x # t \/ d # c \/ q # r => rows'[x][d][q] = rows[x][d][q]
  BY <1>1 DEF RowTypes
<1>5. \A x \in RowTables, q \in Rows, s \in Shares :
        <<x, q, s>> \in written' <=> <<x, q, s>> \in written \/ (x = t /\ q = r /\ s = new)
  BY <1>1
<1>6. SharesPlaced'
  <2>1. ASSUME NEW x \in RowTables, NEW q \in Rows, NEW s \in Shares, <<x, q, s>> \in written'
        PROVE  s.after <= redirects'
    BY <1>1, <1>2, <1>5, <2>1 DEF SharesPlaced, RowTypes
  <2>2. ASSUME NEW x \in RowTables, NEW q \in Rows
        PROVE  /\ \A s \in rows'[x]["group"][q] : s.under = "group"
               /\ \A s \in rows'[x]["supergroup"][q] : s.under = "group" => s.after < redirects'
    BY <1>1, <1>2, <1>4 DEF SharesPlaced, ChatIds
  <2> QED BY <2>1, <2>2 DEF SharesPlaced
<1>7. Apart'
  <2>1. \A d \in ChatIds : d # c => new \notin rows[t][d][r]
    BY <1>2 DEF SharesPlaced, ChatIds, RowTypes
  <2>2. ASSUME NEW x \in RowTables, NEW q \in Rows
        PROVE  rows'[x]["group"][q] \cap rows'[x]["supergroup"][q] = {}
    BY <1>4, <2>1 DEF Apart, ChatIds
  <2>3. ASSUME NEW x \in RowTables, NEW q \in Rows, NEW d \in ChatIds, NEW s \in rows'[x][d][q]
        PROVE  <<x, q, s>> \in written'
    BY <1>1, <1>4 DEF Apart
  <2> QED BY <2>2, <2>3 DEF Apart
\* A redirect in the past did not find what is written now.
<1>8. ASSUME NEW x \in RowTables, NEW q \in Rows, NEW s \in Shares
      PROVE  Replaced(x, q, s)' <=> Replaced(x, q, s)
  <2>1. redirects \in Nat /\ ~(new.after < redirects)
    BY <1>2, RedirectCount
  <2> QED BY <1>1, <1>5, <2>1 DEF Replaced
<1>9. CollectedMoved'
  <2> SUFFICES ASSUME NEW x \in Collected, NEW q \in Rows, NEW s \in Shares, <<x, q, s>> \in written'
               PROVE  /\ s \in rows'[x]["group"][q] <=> s.under = "group" /\ s.after = redirects
                      /\ s \in rows'[x]["supergroup"][q] <=>
                           ~(s.under = "group" /\ s.after = redirects) /\ ~Replaced(x, q, s)
    BY <1>1, <1>8 DEF CollectedMoved, RowTables
  <2>0. x \in RowTables
    BY DEF RowTables
  <2>1. CASE x = t /\ q = r /\ s = new
    <3>1. ~Replaced(x, q, s)
      <4>1. ASSUME NEW p \in Shares, s.after <= p.after, p.after < redirects PROVE FALSE
        BY <1>2, <2>1, <4>1, RedirectCount, ShareTimes
      <4> QED BY <4>1 DEF Replaced
    <3>2. s \in rows'[x][c][q] /\ \A d \in ChatIds : s \in rows'[x][d][q] => d = c
      BY <1>4, <1>7, <2>0, <2>1 DEF Apart, ChatIds
    <3> QED BY <1>2, <2>1, <3>1, <3>2 DEF ChatIds
  <2>2. CASE ~(x = t /\ q = r /\ s = new)
    <3>1. <<x, q, s>> \in written
      BY <1>5, <2>0, <2>2
    <3>2. \A d \in ChatIds : s \in rows'[x][d][q] <=> s \in rows[x][d][q]
      BY <1>4, <2>0, <2>2
    <3> QED BY <3>1, <3>2 DEF CollectedMoved, ChatIds
  <2> QED BY <2>1, <2>2
<1>10. WalkedMoved'
  <2> SUFFICES ASSUME NEW x \in RowTables, NEW q \in Rows, NEW s \in Shares, <<x, q, s>> \in written'
               PROVE  \/ \E d \in ChatIds : s \in rows'[x][d][q]
                      \/ \E p \in Shares : /\ <<x, q, p>> \in written' /\ p # s
                                           /\ p.under = "group" /\ p.after < redirects'
    BY DEF WalkedMoved
  <2>1. CASE x = t /\ q = r /\ s = new
    BY <1>4, <2>1
  <2>2. CASE <<x, q, s>> \in written
    <3>1. \A d \in ChatIds : rows[x][d][q] \subseteq rows'[x][d][q]
      BY <1>4
    <3> QED BY <1>1, <1>5, <2>2, <3>1 DEF WalkedMoved
  <2> QED BY <1>5, <2>1, <2>2
<1>11. OnlyPassedOverHidden'
  <2> SUFFICES ASSUME NEW d \in ChatIds, NEW q \in Rows,
                      rows'["stats_month"][d][q] # {}, MonthOf[q] \notin monthIdx'[d]
               PROVE  d = "group" /\ \A s \in rows'["stats_month"][d][q] : s.after < redirects'
    BY DEF OnlyPassedOverHidden
  <2>1. MonthOf[q] \notin monthIdx[d] /\ (t = "stats_month" => d # c \/ q # r)
    BY <1>1 DEF RowTypes
  <2>2. rows'["stats_month"][d][q] = rows["stats_month"][d][q]
    BY <1>4, <2>1 DEF RowTables
  <2> QED BY <1>1, <2>1, <2>2 DEF OnlyPassedOverHidden
<1>12. InstallKept'
  BY <1>1 DEF InstallKept
<1> QED BY <1>3, <1>6, <1>7, <1>9, <1>10, <1>11, <1>12

LEMMA UnchangedRows ==
  ASSUME RowsInv, UNCHANGED <<rows, monthIdx, redirects, written>>,
         installed' \in [ChatIds -> 0..2], noted' \in 0..2
  PROVE  RowTypes' /\ SharesPlaced' /\ Apart' /\ CollectedMoved' /\ WalkedMoved' /\ OnlyPassedOverHidden'
<1> USE DEF RowsInv
<1>1. RowTypes' /\ SharesPlaced' /\ Apart'
  BY DEF RowTypes, SharesPlaced, Apart
<1>2. CollectedMoved'
  <2>1. \A t \in RowTables, r \in Rows, s \in Shares : Replaced(t, r, s)' <=> Replaced(t, r, s)
    BY DEF Replaced
  <2>2. Collected \subseteq RowTables
    BY DEF RowTables
  <2> QED BY <2>1, <2>2 DEF CollectedMoved
<1>3. WalkedMoved'
  BY DEF WalkedMoved
<1>4. OnlyPassedOverHidden'
  BY DEF OnlyPassedOverHidden
<1> QED BY <1>1, <1>2, <1>3, <1>4

LEMMA InstallKeeps ==
  ASSUME RowsInv, NEW c \in ChatIds, InstallChat(c)
  PROVE  RowsInv'
<1>1. UNCHANGED <<rows, monthIdx, redirects, written>>
  BY DEF InstallChat
<1>2. installed' \in [ChatIds -> 0..2] /\ noted' \in 0..2
  BY DEF RowsInv, RowTypes, InstallChat
<1>3. InstallKept'
  BY <1>2 DEF RowsInv, RowTypes, InstallKept, InstallChat
<1> QED BY <1>1, <1>2, <1>3, UnchangedRows DEF RowsInv

LEMMA MoveRowsKeeps ==
  ASSUME RowsInv, MigrateChatID
  PROVE  RowsInv'
<1> USE DEF RowsInv
<1>1. /\ redirects < MaxRedirects /\ redirects' = redirects + 1
      /\ written' = written /\ noted' = noted
      /\ migrateRows /\ migrateMonthIdx /\ migrateChats
  BY DEF MigrateChatID
<1>0. redirects \in Nat /\ \A s \in Shares : s.after \in Nat
  BY RedirectCount, ShareTimes
<1>2. PICK passed \in SUBSET {x \in RowTables \X Rows : MayPass(x[1], x[2])} :
        rows' = [t \in RowTables |-> [c \in ChatIds |-> [r \in Rows |->
                   IF ~Found(t, r) \/ <<t, r>> \in passed THEN rows[t][c][r]
                   ELSE IF c = "group" THEN {} ELSE rows[t]["group"][r]]]]
  BY <1>1 DEF migrateRows
<1> DEFINE Departs(t, r) == Found(t, r) /\ <<t, r>> \notin passed
<1>3. /\ \A t \in RowTables, r \in Rows :
           IF Departs(t, r)
           THEN rows'[t]["group"][r] = {} /\ rows'[t]["supergroup"][r] = rows[t]["group"][r]
           ELSE \A c \in ChatIds : rows'[t][c][r] = rows[t][c][r]
      /\ rows' \in [RowTables -> [ChatIds -> [Rows -> SUBSET Shares]]]
  BY <1>2 DEF ChatIds, RowTypes
<1>4. \A t \in RowTables, r \in Rows :
        /\ Departs(t, r) => rows[t]["group"][r] # {}
        /\ Departs(t, r) /\ t = "stats_month" => MonthOf[r] \in monthIdx["group"]
        /\ t \in Collected /\ rows[t]["group"][r] # {} => Departs(t, r)
  <2>1. ASSUME NEW t \in Collected, NEW r \in Rows PROVE <<t, r>> \notin passed
    BY <1>2 DEF MayPass
  <2>2. ASSUME NEW t \in Collected PROVE t # "stats_month"
    BY DEF RowTables
  <2>3. ASSUME NEW t \in Collected, NEW r \in Rows, rows[t]["group"][r] # {} PROVE Departs(t, r)
    BY <2>1, <2>2, <2>3 DEF Found
  <2>4. ASSUME NEW t \in RowTables, NEW r \in Rows, Departs(t, r)
        PROVE  /\ rows[t]["group"][r] # {}
               /\ t = "stats_month" => MonthOf[r] \in monthIdx["group"]
    BY <2>4 DEF Found
  <2> HIDE DEF Departs
  <2> QED BY <2>3, <2>4
<1> HIDE DEF Departs
<1>5. RowTypes'
  <2>1. installed' \in [ChatIds -> 0..2]
    BY <1>1 DEF migrateChats, RowTypes, ChatIds
  <2>2. monthIdx' \in [ChatIds -> SUBSET Months]
    BY <1>1 DEF migrateMonthIdx, RowTypes, ChatIds
  <2>3. redirects' \in 0..MaxRedirects
    BY <1>1 DEF RowTypes
  <2> QED BY <1>1, <1>3, <2>1, <2>2, <2>3 DEF RowTypes
<1>6. \A t \in RowTables, r \in Rows : \A s \in rows[t]["group"][r] :
        s \in Shares /\ <<t, r, s>> \in written /\ s.under = "group" /\ s.after <= redirects
  <2>1. ASSUME NEW t \in RowTables, NEW r \in Rows, NEW s \in rows[t]["group"][r]
        PROVE  s \in Shares /\ <<t, r, s>> \in written /\ s.under = "group" /\ s.after <= redirects
    <3>1. "group" \in ChatIds
      BY DEF ChatIds
    <3>2. s \in Shares
      BY <3>1 DEF RowTypes
    <3>3. <<t, r, s>> \in written
      BY <3>1 DEF Apart
    <3>4. s.under = "group"
      BY DEF SharesPlaced
    <3>5. s.after <= redirects
      BY <3>2, <3>3 DEF SharesPlaced
    <3> QED BY <3>2, <3>3, <3>4, <3>5
  <2> QED BY <2>1, Zenon
<1>7. SharesPlaced'
  <2>1. ASSUME NEW t \in RowTables, NEW r \in Rows, NEW s \in Shares, <<t, r, s>> \in written'
        PROVE  s.after <= redirects'
    BY <1>0, <1>1, <2>1 DEF SharesPlaced
  <2>2. ASSUME NEW t \in RowTables, NEW r \in Rows, NEW s \in rows'[t]["group"][r] PROVE s.under = "group"
    BY <1>3, <1>6 DEF ChatIds
  <2>3. ASSUME NEW t \in RowTables, NEW r \in Rows, NEW s \in rows'[t]["supergroup"][r], s.under = "group"
        PROVE  s.after < redirects'
    <3>1. CASE Departs(t, r)
      <4>1. s \in rows[t]["group"][r]
        BY <1>3, <3>1
      <4>2. s \in Shares /\ s.after <= redirects
        BY <1>6, <4>1
      <4> QED BY <1>0, <1>1, <4>2
    <3>2. CASE ~Departs(t, r)
      <4>1. s \in rows[t]["supergroup"][r] /\ s \in Shares
        BY <1>3, <3>2 DEF ChatIds, RowTypes
      <4> QED BY <1>0, <1>1, <2>3, <4>1 DEF SharesPlaced
    <3> QED BY <3>1, <3>2
  <2> QED BY <2>1, <2>2, <2>3 DEF SharesPlaced
<1>8. Apart'
  BY <1>1, <1>3 DEF Apart, ChatIds
<1>9. CollectedMoved'
  <2> SUFFICES ASSUME NEW t \in Collected, NEW r \in Rows, NEW s \in Shares, <<t, r, s>> \in written
               PROVE  /\ ~(s.under = "group" /\ s.after = redirects')
                      /\ s \notin rows'[t]["group"][r]
                      /\ s \in rows'[t]["supergroup"][r] <=> ~Replaced(t, r, s)'
    BY <1>1 DEF CollectedMoved
  <2>0. t \in RowTables /\ s.after <= redirects
    BY DEF RowTables, SharesPlaced
  <2>1. s.after # redirects'
    BY <1>0, <1>1, <2>0
  <2>2. CASE rows[t]["group"][r] = {}
    <3>1. \A c \in ChatIds : rows'[t][c][r] = rows[t][c][r]
      BY <1>3, <1>4, <2>0, <2>2
    <3>2. \A q \in Shares : <<t, r, q>> \in written => ~(q.under = "group" /\ q.after = redirects)
      BY <2>2 DEF CollectedMoved
    <3>3. Replaced(t, r, s)' <=> Replaced(t, r, s)
      <4>1. ASSUME NEW q \in Shares, <<t, r, q>> \in written, q.under = "group"
            PROVE  q.after < redirects' <=> q.after < redirects
        BY <1>0, <1>1, <3>2, <4>1
      <4> QED BY <1>1, <4>1 DEF Replaced
    <3> QED BY <2>1, <2>2, <3>1, <3>2, <3>3 DEF CollectedMoved, ChatIds
  <2>3. CASE rows[t]["group"][r] # {}
    <3>1. rows'[t]["group"][r] = {} /\ rows'[t]["supergroup"][r] = rows[t]["group"][r]
      BY <1>3, <1>4, <2>0, <2>3
    <3>2. CASE s \in rows[t]["group"][r]
      <4>1. s.under = "group" /\ s.after = redirects
        BY <3>2 DEF CollectedMoved
      <4>2. ASSUME NEW q \in Shares, q.under = "group", s.after <= q.after, q.after < redirects'
            PROVE  q = s
        <5>1. q.after = s.after
          BY <1>0, <1>1, <4>1, <4>2
        <5> QED BY <4>1, <4>2, <5>1, ShareEquality
      <4>3. ~Replaced(t, r, s)'
        BY <4>2 DEF Replaced
      <4> QED BY <2>1, <3>1, <3>2, <4>3
    <3>3. CASE s \notin rows[t]["group"][r]
      <4>1. PICK q \in rows[t]["group"][r] : TRUE
        BY <2>3
      <4>2. q \in Shares /\ <<t, r, q>> \in written
        BY <1>6, <2>0
      <4>3. q.under = "group" /\ q.after = redirects /\ q # s
        BY <3>3, <4>1, <4>2 DEF CollectedMoved
      <4>4. s.after <= q.after /\ q.after < redirects'
        BY <1>0, <1>1, <2>0, <4>3
      <4>5. Replaced(t, r, s)'
        BY <1>1, <4>2, <4>3, <4>4 DEF Replaced
      <4> QED BY <2>1, <3>1, <3>3, <4>5
    <3> QED BY <3>2, <3>3
  <2> QED BY <2>2, <2>3
<1>10. WalkedMoved'
  <2> SUFFICES ASSUME NEW t \in RowTables, NEW r \in Rows, NEW s \in Shares, <<t, r, s>> \in written,
                      \A c \in ChatIds : s \notin rows'[t][c][r]
               PROVE  \E q \in Shares : /\ <<t, r, q>> \in written /\ q # s
                                       /\ q.under = "group" /\ q.after < redirects + 1
    BY <1>1 DEF WalkedMoved
  <2>1. CASE \A c \in ChatIds : s \notin rows[t][c][r]
    <3>1. PICK q \in Shares : /\ <<t, r, q>> \in written /\ q # s
                             /\ q.under = "group" /\ q.after < redirects
      BY <2>1 DEF WalkedMoved
    <3> QED BY <1>0, <3>1
  <2>2. CASE \E c \in ChatIds : s \in rows[t][c][r]
    <3>1. Departs(t, r) /\ s \notin rows[t]["group"][r]
      BY <1>3, <2>2 DEF ChatIds
    <3>2. PICK q \in rows[t]["group"][r] : TRUE
      BY <1>4, <3>1
    <3>3. q \in Shares /\ <<t, r, q>> \in written /\ q # s /\ q.under = "group" /\ q.after <= redirects
      BY <1>6, <3>1, <3>2
    <3>4. q.after < redirects + 1
      BY <1>0, <3>3
    <3> QED BY <3>3, <3>4
  <2> QED BY <2>1, <2>2
<1>11. OnlyPassedOverHidden'
  <2> SUFFICES ASSUME NEW c \in ChatIds, NEW r \in Rows,
                      rows'["stats_month"][c][r] # {}, MonthOf[r] \notin monthIdx'[c]
               PROVE  c = "group" /\ \A s \in rows'["stats_month"][c][r] : s.after < redirects'
    BY DEF OnlyPassedOverHidden
  <2>0. "stats_month" \in RowTables
    BY DEF RowTables
  <2>1. CASE c = "supergroup"
    <3>1. MonthOf[r] \notin monthIdx["group"] /\ MonthOf[r] \notin monthIdx["supergroup"]
      BY <1>1, <2>1 DEF migrateMonthIdx, ChatIds
    <3>2. rows["stats_month"]["supergroup"][r] # {}
      <4>1. r \in Rows /\ ~Departs("stats_month", r)
        BY <1>4, <2>0, <3>1
      <4>2. rows'["stats_month"]["supergroup"][r] = rows["stats_month"]["supergroup"][r]
        BY <1>3, <2>0, <4>1 DEF ChatIds
      <4> QED BY <2>1, <4>2
    <3> QED BY <3>1, <3>2 DEF OnlyPassedOverHidden, ChatIds
  <2>2. CASE c = "group"
    <3>1. rows'["stats_month"]["group"][r] = rows["stats_month"]["group"][r]
      BY <1>3, <2>0, <2>2 DEF ChatIds
    <3>2. \A s \in rows["stats_month"]["group"][r] : s \in Shares /\ s.after <= redirects
      BY <1>6, <2>0
    <3> QED BY <1>0, <1>1, <2>2, <3>1, <3>2
  <2> QED BY <2>1, <2>2 DEF ChatIds
<1>12. InstallKept'
  BY <1>1 DEF migrateChats, ChatIds, RowTypes, InstallKept
<1> QED BY <1>5, <1>7, <1>8, <1>9, <1>10, <1>11, <1>12

(* The catalogues.                                                         *)

ServiceRows  == [id : Numbers, name : ServiceNames]
ReferralRows == [id : Numbers, svc : Numbers, owner : Owners, url : Addresses]

RefTypes ==
  /\ svcs \in [ChatIds -> SUBSET ServiceRows]
  /\ svcNames \in [ChatIds -> [ServiceNames -> Numbers]]
  /\ refs \in [ChatIds -> SUBSET ReferralRows]
  /\ svcCount \in Numbers /\ refCount \in Numbers

\* No two chats have a number in common.
Drawn ==
  \A c, d \in ChatIds :
    /\ \A s \in svcs[c] : s.id \in 1..svcCount /\ \A z \in svcs[d] : s.id = z.id => c = d /\ s = z
    /\ \A r \in refs[c] : r.id \in 1..refCount /\ \A q \in refs[d] : r.id = q.id => c = d /\ r = q

LinksKept == (\A c \in ChatIds : Whole(c)) /\ links = Listed("group") \cup Listed("supergroup")

RefsInv == RefTypes /\ Drawn /\ LinksKept

\* A referral put into one chat, or taken from it.
LEMMA LinkAdded ==
  ASSUME RefTypes, NEW c \in ChatIds, NEW r \in ReferralRows,
         links = Listed("group") \cup Listed("supergroup"),
         refs' = [refs EXCEPT ![c] = @ \cup {r}], links' = links \cup {r.url}
  PROVE  links' = Listed("group")' \cup Listed("supergroup")'
<1>1. refs'[c] = refs[c] \cup {r} /\ \A d \in ChatIds \ {c} : refs'[d] = refs[d]
  BY DEF RefTypes
<1>2. Listed(c)' = Listed(c) \cup {r.url} /\ \A d \in ChatIds \ {c} : Listed(d)' = Listed(d)
  BY <1>1 DEF Listed
<1> QED BY <1>2 DEF ChatIds

LEMMA CreateKeeps ==
  ASSUME RefsInv, NEW c \in ChatIds, NEW n \in ServiceNames, NEW o \in Owners, NEW u \in Addresses,
         CreateReferral(c, n, o, u)
  PROVE  RefsInv'
<1> USE DEF RefsInv, RefTypes
<1>1. PICK svc, new : /\ svc = IF Taken(c, n) THEN svcNames[c][n] ELSE svcCount + 1
                      /\ new = [id |-> refCount + 1, svc |-> svc, owner |-> o, url |-> u]
  OBVIOUS
<1>2. /\ refCount < MaxRef /\ svc <= MaxRef /\ \A r \in refs[c] : r.url # u
      /\ refs' = [refs EXCEPT ![c] = @ \cup {new}] /\ refCount' = refCount + 1
      /\ links' = links \cup {u}
  BY <1>1 DEF CreateReferral
<1>3. /\ MaxRef \in Nat /\ svcCount \in Nat /\ refCount \in Nat /\ refCount + 1 \in Numbers
      /\ svc \in Numbers /\ svc # 0
  BY <1>1, <1>2 DEF Numbers, Taken
<1>4. new \in ReferralRows /\ new.id = refCount + 1 /\ new.svc = svc /\ new.url = u
  BY <1>1, <1>3 DEF ReferralRows
<1>5. refs' \in [ChatIds -> SUBSET ReferralRows] /\ refCount' \in Numbers
  BY <1>2, <1>3, <1>4
<1>6. \A d, e \in ChatIds : \A r \in refs'[d] :
        r.id \in 1..refCount' /\ \A q \in refs'[e] : r.id = q.id => d = e /\ r = q
  <2>1. \A d \in ChatIds : \A r \in refs[d] : r.id \in Nat /\ r.id # 0 /\ r.id <= refCount /\ r.id # refCount + 1
    BY <1>3 DEF Drawn
  <2>2. refs'[c] = refs[c] \cup {new} /\ \A d \in ChatIds \ {c} : refs'[d] = refs[d]
    BY <1>2
  <2>3. ASSUME NEW d \in ChatIds, NEW r \in refs'[d] PROVE r.id \in 1..refCount'
    BY <1>2, <1>3, <1>4, <2>1, <2>2
  <2>4. ASSUME NEW d \in ChatIds, NEW e \in ChatIds, NEW r \in refs'[d], NEW q \in refs'[e], r.id = q.id
        PROVE  d = e /\ r = q
    <3>1. CASE r \in refs[d] /\ q \in refs[e]
      BY <2>4, <3>1 DEF Drawn
    <3>2. CASE r \notin refs[d]
      <4>1. r = new /\ d = c
        BY <2>2, <3>2
      <4>2. q \notin refs[e]
        BY <1>4, <2>1, <2>4, <4>1
      <4> QED BY <2>2, <4>1, <4>2
    <3>3. CASE q \notin refs[e]
      <4>1. q = new /\ e = c
        BY <2>2, <3>3
      <4>2. r \notin refs[d]
        BY <1>4, <2>1, <2>4, <4>1
      <4> QED BY <2>2, <4>1, <4>2
    <3> QED BY <3>1, <3>2, <3>3
  <2> QED BY <2>3, <2>4
<1>7. ASSUME NEW d \in ChatIds, NEW r \in refs'[d], NEW q \in refs'[d], r.url = q.url \/ r.id = q.id
      PROVE  r = q
  <2>1. \A x \in refs[d] : x \in refs[d] => x.id # refCount + 1
    BY <1>3 DEF Drawn
  <2> QED BY <1>2, <1>4, <1>6, <1>7 DEF LinksKept, Whole
<1>8. links' = Listed("group")' \cup Listed("supergroup")'
  BY <1>2, <1>4, LinkAdded DEF LinksKept
<1>9. CASE Taken(c, n)
  <2>1. UNCHANGED <<svcs, svcNames, svcCount>> /\ \E s \in svcs[c] : s.id = svc
    BY <1>1, <1>9 DEF CreateReferral, Taken
  <2>2. Drawn'
    BY <1>6, <2>1 DEF Drawn
  <2>3. \A d \in ChatIds : \A r \in refs'[d] : \E s \in svcs'[d] : s.id = r.svc
    BY <1>2, <1>4, <2>1 DEF LinksKept, Whole
  <2>4. \A d \in ChatIds : Whole(d)'
    BY <1>7, <2>1, <2>3 DEF LinksKept, Whole
  <2> QED BY <1>5, <1>8, <2>1, <2>2, <2>4 DEF LinksKept
<1>10. CASE ~Taken(c, n)
  <2>1. PICK s : s = [id |-> svc, name |-> n]
    OBVIOUS
  <2>2. /\ svc = svcCount + 1 /\ svcCount' = svc
        /\ svcs' = [svcs EXCEPT ![c] = @ \cup {s}]
        /\ svcNames' = [svcNames EXCEPT ![c][n] = svc]
    BY <1>1, <1>10, <2>1 DEF CreateReferral
  <2>3. s \in ServiceRows /\ s.id = svc /\ s.name = n
    BY <1>3, <2>1 DEF ServiceRows
  <2>4. /\ svcs'[c] = svcs[c] \cup {s} /\ \A d \in ChatIds \ {c} : svcs'[d] = svcs[d] /\ svcNames'[d] = svcNames[d]
        /\ svcNames'[c][n] = svc /\ \A m \in ServiceNames \ {n} : svcNames'[c][m] = svcNames[c][m]
    BY <2>2
  <2>5. /\ svcs' \in [ChatIds -> SUBSET ServiceRows] /\ svcCount' \in Numbers
        /\ svcNames' \in [ChatIds -> [ServiceNames -> Numbers]]
    BY <1>3, <2>2, <2>3
  <2>6. svcNames[c][n] = 0
    <3>1. svcNames[c][n] # 0 => [id |-> svcNames[c][n], name |-> n] \in svcs[c]
      BY DEF LinksKept, Whole
    <3>2. [id |-> svcNames[c][n], name |-> n].id = svcNames[c][n]
      OBVIOUS
    <3> QED BY <1>10, <3>1, <3>2, Zenon DEF Taken
  <2>7. \A d \in ChatIds : \A z \in svcs[d] : z.id \in Nat /\ z.id # 0 /\ z.id <= svcCount /\ z.id # svc
    BY <1>3, <2>2 DEF Drawn
  <2>8. \A z \in svcs[c] : z.name # n /\ z.name \in ServiceNames
    BY <2>6, <2>7 DEF LinksKept, Whole, ServiceRows
  <2>9. ASSUME NEW d \in ChatIds, NEW z \in svcs'[d] PROVE z.id \in 1..svcCount'
    BY <1>3, <2>2, <2>3, <2>4, <2>7
  <2>10. ASSUME NEW d \in ChatIds, NEW e \in ChatIds, NEW y \in svcs'[d], NEW z \in svcs'[e], y.id = z.id
         PROVE  d = e /\ y = z
    <3>1. CASE y \in svcs[d] /\ z \in svcs[e]
      BY <2>10, <3>1 DEF Drawn
    <3>2. CASE y \notin svcs[d]
      <4>1. y = s /\ d = c
        BY <2>4, <3>2
      <4>2. z \notin svcs[e]
        BY <2>3, <2>7, <2>10, <4>1
      <4> QED BY <2>4, <4>1, <4>2
    <3>3. CASE z \notin svcs[e]
      <4>1. z = s /\ e = c
        BY <2>4, <3>3
      <4>2. y \notin svcs[d]
        BY <2>3, <2>7, <2>10, <4>1
      <4> QED BY <2>4, <4>1, <4>2
    <3> QED BY <3>1, <3>2, <3>3
  <2>11. Drawn'
    BY <1>6, <2>9, <2>10 DEF Drawn
  <2>12. ASSUME NEW d \in ChatIds, NEW r \in refs'[d] PROVE \E z \in svcs'[d] : z.id = r.svc
    <3>1. CASE r \in refs[d]
      <4>1. PICK z \in svcs[d] : z.id = r.svc
        BY <3>1 DEF LinksKept, Whole
      <4> QED BY <2>4, <4>1
    <3>2. CASE r \notin refs[d]
      BY <1>2, <1>4, <2>3, <2>4, <3>2
    <3> QED BY <3>1, <3>2
  <2>13. ASSUME NEW d \in ChatIds
         PROVE  /\ \A z \in svcs'[d] : svcNames'[d][z.name] = z.id
                /\ \A m \in ServiceNames : svcNames'[d][m] # 0 => [id |-> svcNames'[d][m], name |-> m] \in svcs'[d]
    <3>1. CASE d # c
      BY <2>4, <3>1 DEF LinksKept, Whole
    <3>2. CASE d = c
      <4>1. \A z \in svcs'[c] : svcNames'[c][z.name] = z.id
        BY <2>3, <2>4, <2>8 DEF LinksKept, Whole
      <4>2. \A m \in ServiceNames : svcNames'[c][m] # 0 => [id |-> svcNames'[c][m], name |-> m] \in svcs'[c]
        BY <2>1, <2>4 DEF LinksKept, Whole
      <4> QED BY <3>2, <4>1, <4>2
    <3> QED BY <3>1, <3>2
  <2>14. \A d \in ChatIds : Whole(d)'
    BY <1>7, <2>12, <2>13 DEF Whole
  <2> QED BY <1>5, <1>8, <2>5, <2>11, <2>14 DEF LinksKept
<1> QED BY <1>9, <1>10

LEMMA RemoveKeeps ==
  ASSUME RefsInv, NEW c \in ChatIds, NEW r \in refs[c], RemoveReferral(c, r)
  PROVE  RefsInv'
<1> USE DEF RefsInv, RefTypes
<1>1. PICK empty : empty = {s \in svcs[c] : s.id = r.svc /\ \A q \in refs[c] \ {r} : q.svc # s.id}
  OBVIOUS
<1>2. /\ refs' = [refs EXCEPT ![c] = @ \ {r}] /\ svcs' = [svcs EXCEPT ![c] = @ \ empty]
      /\ svcNames' = [svcNames EXCEPT ![c] =
           [n \in ServiceNames |-> IF \E s \in empty : s.name = n THEN 0 ELSE @[n]]]
      /\ links' = links \ ({r.url} \ UNION {Listed(d) : d \in ChatIds \ {c}})
      /\ svcCount' = svcCount /\ refCount' = refCount
  BY <1>1 DEF RemoveReferral
<1>3. /\ refs'[c] = refs[c] \ {r} /\ svcs'[c] = svcs[c] \ empty
      /\ \A n \in ServiceNames :
           svcNames'[c][n] = IF \E s \in empty : s.name = n THEN 0 ELSE svcNames[c][n]
      /\ \A d \in ChatIds \ {c} : refs'[d] = refs[d] /\ svcs'[d] = svcs[d] /\ svcNames'[d] = svcNames[d]
  BY <1>2
<1>4. RefTypes'
  <2>1. 0 \in Numbers
    BY DEF Numbers
  <2> QED BY <1>2, <2>1
<1>5. \A d \in ChatIds : refs'[d] \subseteq refs[d] /\ svcs'[d] \subseteq svcs[d]
  BY <1>3
<1>6. Drawn'
  BY <1>2, <1>5 DEF Drawn
<1>7. links' = Listed("group")' \cup Listed("supergroup")'
  <2>1. \A d \in ChatIds \ {c} : Listed(d)' = Listed(d)
    BY <1>3 DEF Listed
  <2>2. Listed(c)' = Listed(c) \ {r.url}
    <3>1. \A q \in refs[c] : q.url = r.url => q = r
      BY DEF LinksKept, Whole
    <3> QED BY <1>3, <3>1 DEF Listed
  <2>3. PICK d \in ChatIds : ChatIds = {c, d} /\ c # d
    BY DEF ChatIds
  <2>4. links = Listed(c) \cup Listed(d)
    BY <2>3 DEF LinksKept, ChatIds
  <2>5. links' = links \ ({r.url} \ Listed(d))
    BY <1>2, <2>3
  <2>6. links' = Listed(c)' \cup Listed(d)'
    BY <2>1, <2>2, <2>3, <2>4, <2>5
  <2> QED BY <2>3, <2>6 DEF ChatIds
<1>8. ASSUME NEW q \in refs'[c] PROVE \E s \in svcs'[c] : s.id = q.svc
  <2>1. PICK s \in svcs[c] : s.id = q.svc
    BY <1>3 DEF LinksKept, Whole
  <2>2. s \notin empty
    BY <1>1, <1>3, <2>1
  <2> QED BY <1>3, <2>1, <2>2
<1>9. \A s, z \in svcs[c] : s.name = z.name => s = z
  BY DEF LinksKept, Whole, Drawn
<1>10. \A s \in svcs'[c] : svcNames'[c][s.name] = s.id
  <2>1. \A s \in svcs[c] : s.name \in ServiceNames
    BY DEF ServiceRows
  <2> QED BY <1>1, <1>3, <1>9, <2>1 DEF LinksKept, Whole
<1>11. ASSUME NEW n \in ServiceNames, svcNames'[c][n] # 0
       PROVE  [id |-> svcNames'[c][n], name |-> n] \in svcs'[c]
  <2>1. svcNames'[c][n] = svcNames[c][n] /\ \A s \in empty : s.name # n
    BY <1>3, <1>11
  <2>2. [id |-> svcNames[c][n], name |-> n] \in svcs[c]
    BY <1>11, <2>1 DEF LinksKept, Whole
  <2> QED BY <1>3, <2>1, <2>2
<1>12. \A q, p \in refs'[c] : q.url = p.url \/ q.id = p.id => q = p
  BY <1>3 DEF LinksKept, Whole
<1>13. Whole(c)'
  BY <1>8, <1>10, <1>11, <1>12 DEF Whole
<1>14. ASSUME NEW d \in ChatIds, d # c PROVE Whole(d)'
  BY <1>3, <1>14 DEF LinksKept, Whole
<1> QED BY <1>4, <1>6, <1>7, <1>13, <1>14 DEF LinksKept

\* The two catalogues become one.
LEMMA MergeKeeps ==
  ASSUME RefsInv, MigrateChatID
  PROVE  RefsInv'
<1> USE DEF RefsInv, RefTypes
<1>1. PICK G, S, copied, R : /\ G = svcs["group"] /\ S = svcs["supergroup"]
                             /\ copied = {a \in G : Same(a) = {}} /\ R = refs["supergroup"]
  OBVIOUS
<1>2. /\ svcs' = [c \in ChatIds |-> IF c = "group" THEN {} ELSE S \cup copied]
      /\ refs' = [c \in ChatIds |-> IF c = "group" THEN {} ELSE R \cup Arriving]
      /\ svcCount' = svcCount /\ refCount' = refCount /\ links' = links
      /\ svcNames' = [c \in ChatIds |-> [n \in ServiceNames |->
           IF c = "group" THEN IF {s \in G : s.name = n} = {} THEN svcNames[c][n] ELSE 0
           ELSE IF {z \in G : z.name = n} \cap copied = {} THEN svcNames[c][n]
                ELSE (CHOOSE s \in {z \in G : z.name = n} \cap copied : TRUE).id]]
  BY <1>1 DEF MigrateChatID, migrateReferrals
<1>3. /\ G \subseteq ServiceRows /\ S \subseteq ServiceRows /\ copied \subseteq G
      /\ "group" \in ChatIds /\ "supergroup" \in ChatIds
  BY <1>1 DEF ChatIds
<1>4. /\ svcs'["group"] = {} /\ svcs'["supergroup"] = S \cup copied
      /\ refs'["group"] = {} /\ refs'["supergroup"] = R \cup Arriving
  BY <1>2, <1>3
<1>5. /\ \A s, z \in S \cup G : s.id = z.id => s = z
      /\ \A s \in S \cup G : s.id \in 1..svcCount
      /\ \A s, z \in G : s.name = z.name => s = z
      /\ \A s, z \in S : s.name = z.name => s = z
  <2>1. \A c, d \in ChatIds : \A s \in svcs[c], z \in svcs[d] :
          s.id \in 1..svcCount /\ (s.id = z.id => s = z)
    BY DEF Drawn
  <2>2. \A c \in ChatIds : \A s, z \in svcs[c] : s.name = z.name => s.id = z.id
    BY DEF LinksKept, Whole
  <2> HIDE DEF RefsInv, RefTypes
  <2> QED BY <1>1, <1>3, <2>1, <2>2
<1>6. ASSUME NEW s \in G PROVE Remap(s.id) \in Numbers /\ \E z \in S \cup copied : z.id = Remap(s.id)
  <2>1. {z \in svcs["group"] : z.id = s.id} = {s}
    BY <1>1, <1>5
  <2>2. ASSUME NEW T, T = UNION {Same(z) : z \in {z \in svcs["group"] : z.id = s.id}}
        PROVE  T = Same(s)
    BY <2>1, <2>2
  <2>3. Remap(s.id) = IF Same(s) = {} THEN s.id ELSE (CHOOSE d \in Same(s) : TRUE).id
    <3>1. PICK T : T = UNION {Same(z) : z \in {z \in svcs["group"] : z.id = s.id}}
      OBVIOUS
    <3>2. Remap(s.id) = IF T = {} THEN s.id ELSE (CHOOSE d \in T : TRUE).id
      BY <3>1, SMT DEF Remap
    <3>3. T = Same(s)
      BY <2>2, <3>1
    <3> QED BY <3>2, <3>3
  <2>4. CASE Same(s) = {}
    BY <1>1, <1>3, <2>3, <2>4 DEF ServiceRows
  <2>5. CASE Same(s) # {}
    <3>1. PICK d : d = CHOOSE z \in Same(s) : TRUE
      OBVIOUS
    <3>2. d \in Same(s)
      BY <2>5, <3>1
    <3>3. d \in S
      BY <1>1, <3>2 DEF Same
    <3>4. Remap(s.id) = d.id
      BY <2>3, <2>5, <3>1
    <3> QED BY <1>3, <3>3, <3>4 DEF ServiceRows
  <2> QED BY <2>4, <2>5
<1>7. ASSUME NEW q \in Arriving
      PROVE  \E r \in refs["group"] : /\ q \in ReferralRows /\ q.id = r.id /\ q.url = r.url
                                      /\ q.svc = Remap(r.svc) /\ q = [r EXCEPT !.svc = Remap(@)]
                                      /\ r.url \notin Listed("supergroup")
                                      /\ \E z \in S \cup copied : z.id = q.svc
  <2>1. PICK r \in refs["group"] : r.url \notin Listed("supergroup") /\ q = [r EXCEPT !.svc = Remap(@)]
    BY DEF Arriving
  <2>2. PICK s \in G : s.id = r.svc
    BY <1>1, <1>3 DEF LinksKept, Whole
  <2>3. Remap(r.svc) \in Numbers /\ \E z \in S \cup copied : z.id = Remap(r.svc)
    BY <1>6, <2>2
  <2>4. r \in ReferralRows
    BY <1>3
  <2>5. q \in ReferralRows /\ q.id = r.id /\ q.url = r.url /\ q.svc = Remap(r.svc)
    BY <2>1, <2>3, <2>4 DEF ReferralRows
  <2> QED BY <2>1, <2>3, <2>5
<1>8. \A r \in refs["group"] : r.url \notin Listed("supergroup") =>
        \E q \in Arriving : q.url = r.url
  <2>1. ASSUME NEW r \in refs["group"], r.url \notin Listed("supergroup")
        PROVE  \E q \in Arriving : q.url = r.url
    <3>1. PICK q : q = [r EXCEPT !.svc = Remap(@)]
      OBVIOUS
    <3>2. q \in Arriving
      BY <2>1, <3>1 DEF Arriving
    <3>3. r \in ReferralRows
      BY <1>3
    <3>4. q.url = r.url
      BY <3>1, <3>3 DEF ReferralRows
    <3> QED BY <3>2, <3>4
  <2> QED BY <2>1
<1>9. RefTypes'
  <2>1. svcs' \in [ChatIds -> SUBSET ServiceRows]
    BY <1>2, <1>3
  <2>2. refs' \in [ChatIds -> SUBSET ReferralRows]
    BY <1>1, <1>2, <1>3, <1>7
  <2>3. ASSUME NEW c \in ChatIds, NEW n \in ServiceNames PROVE svcNames'[c][n] \in Numbers
    <3>1. 0 \in Numbers /\ svcNames[c][n] \in Numbers
      BY DEF Numbers
    <3>2. CASE {s \in G : s.name = n} \cap copied # {}
      <4>1. PICK s : s = CHOOSE a \in {z \in G : z.name = n} \cap copied : TRUE
        OBVIOUS
      <4>2. s \in G
        BY <3>2, <4>1
      <4>3. s.id \in Numbers
        BY <1>3, <4>2 DEF ServiceRows
      <4> QED BY <1>2, <3>1, <4>1, <4>3
    <3>3. CASE {s \in G : s.name = n} \cap copied = {}
      BY <1>2, <3>1, <3>3
    <3> QED BY <3>2, <3>3
  <2>4. svcNames' = [c \in ChatIds |-> [n \in ServiceNames |-> svcNames'[c][n]]]
    BY <1>2
  <2>5. svcNames' \in [ChatIds -> [ServiceNames -> Numbers]]
    BY <2>3, <2>4
  <2> QED BY <1>2, <2>1, <2>2, <2>5
<1>10. \A r, q \in R \cup Arriving : r.url = q.url \/ r.id = q.id => r = q
  <2>1. \A r \in R : r.url \in Listed("supergroup")
    BY <1>1 DEF Listed
  <2>2. ASSUME NEW r \in R, NEW q \in Arriving PROVE r.url # q.url /\ r.id # q.id
    <3>1. PICK p \in refs["group"] : q.id = p.id /\ q.url = p.url /\ p.url \notin Listed("supergroup")
      BY <1>7
    <3>2. p.id # r.id
      BY <1>1, <1>3 DEF Drawn
    <3> QED BY <2>1, <3>1, <3>2
  <2>3. ASSUME NEW r \in Arriving, NEW q \in Arriving, r.url = q.url \/ r.id = q.id PROVE r = q
    <3>1. PICK p \in refs["group"] : r.id = p.id /\ r.url = p.url /\ r = [p EXCEPT !.svc = Remap(@)]
      BY <1>7
    <3>2. PICK x \in refs["group"] : q.id = x.id /\ q.url = x.url /\ q = [x EXCEPT !.svc = Remap(@)]
      BY <1>7
    <3>3. p = x
      BY <1>3, <2>3, <3>1, <3>2 DEF LinksKept, Whole
    <3> QED BY <3>1, <3>2, <3>3
  <2>4. \A r, q \in R : r.url = q.url \/ r.id = q.id => r = q
    BY <1>1, <1>3 DEF LinksKept, Whole
  <2> QED BY <2>2, <2>3, <2>4
<1>11. Drawn'
  <2>1. \A r \in R \cup Arriving : r.id \in 1..refCount
    BY <1>1, <1>3, <1>7 DEF Drawn
  <2> QED BY <1>2, <1>3, <1>4, <1>5, <1>10, <2>1 DEF Drawn, ChatIds
<1>12. links' = Listed("group")' \cup Listed("supergroup")'
  <2>1. Listed("group")' = {} /\ Listed("supergroup")' = {r.url : r \in R \cup Arriving}
    BY <1>4 DEF Listed
  <2>2. {r.url : r \in R \cup Arriving} = Listed("group") \cup Listed("supergroup")
    <3>1. {r.url : r \in R \cup Arriving} \subseteq Listed("group") \cup Listed("supergroup")
      BY <1>1, <1>7 DEF Listed
    <3>2. \A u \in Listed("supergroup") : u \in {r.url : r \in R \cup Arriving}
      BY <1>1 DEF Listed
    <3>3. \A u \in Listed("group") : u \in {r.url : r \in R \cup Arriving}
      BY <1>8, <3>2 DEF Listed
    <3> QED BY <3>1, <3>2, <3>3
  <2> QED BY <1>2, <2>1, <2>2 DEF LinksKept
<1>13. Whole("group")'
  <2>1. ASSUME NEW n \in ServiceNames PROVE svcNames'["group"][n] = 0
    <3>1. CASE {s \in G : s.name = n} = {}
      <4>1. svcNames'["group"][n] = svcNames["group"][n]
        BY <1>2, <1>3, <3>1
      <4>2. svcNames["group"][n] # 0 => [id |-> svcNames["group"][n], name |-> n] \in G
        BY <1>1, <1>3 DEF LinksKept, Whole
      <4>3. [id |-> svcNames["group"][n], name |-> n].name = n
        OBVIOUS
      <4> QED BY <3>1, <4>1, <4>2, <4>3
    <3>2. CASE {s \in G : s.name = n} # {}
      BY <1>2, <1>3, <3>2
    <3> QED BY <3>1, <3>2
  <2> QED BY <1>4, <2>1 DEF Whole
<1>14. Whole("supergroup")'
  <2>1. \A r \in R \cup Arriving : \E s \in S \cup copied : s.id = r.svc
    <3>1. \A r \in R : \E s \in S : s.id = r.svc
      BY <1>1, <1>3 DEF LinksKept, Whole
    <3> QED BY <1>7, <3>1
  <2>2. ASSUME NEW n \in ServiceNames, NEW s \in copied, s.name = n
        PROVE  svcNames'["supergroup"][n] = s.id
    <3>1. {z \in G : z.name = n} \cap copied = {s}
      BY <1>3, <1>5, <2>2
    <3>2. svcNames'["supergroup"][n] = (CHOOSE z \in {s} : TRUE).id
      BY <1>2, <1>3, <3>1
    <3> QED BY <3>2
  <2>3. ASSUME NEW n \in ServiceNames, \A s \in copied : s.name # n
        PROVE  svcNames'["supergroup"][n] = svcNames["supergroup"][n]
    BY <1>2, <1>3, <2>3
  <2>4. ASSUME NEW s \in S PROVE svcNames'["supergroup"][s.name] = s.id
    <3>1. \A z \in copied : z.name # s.name
      BY <1>1 DEF Same
    <3>2. s.name \in ServiceNames
      BY <1>3 DEF ServiceRows
    <3>3. svcNames["supergroup"][s.name] = s.id
      BY <1>1, <1>3 DEF LinksKept, Whole
    <3> QED BY <2>3, <3>1, <3>2, <3>3
  <2>5. \A s \in S \cup copied : svcNames'["supergroup"][s.name] = s.id
    BY <1>3, <2>2, <2>4 DEF ServiceRows
  <2>6. ASSUME NEW n \in ServiceNames, svcNames'["supergroup"][n] # 0
        PROVE  [id |-> svcNames'["supergroup"][n], name |-> n] \in S \cup copied
    <3>1. CASE \E s \in copied : s.name = n
      <4>1. PICK s \in copied : s.name = n
        BY <3>1
      <4>2. s = [id |-> svcNames'["supergroup"][n], name |-> n]
        BY <1>3, <2>2, <4>1 DEF ServiceRows
      <4> QED BY <4>2
    <3>2. CASE \A s \in copied : s.name # n
      BY <1>1, <1>3, <2>3, <2>6, <3>2 DEF LinksKept, Whole
    <3> QED BY <3>1, <3>2
  <2> QED BY <1>4, <1>10, <2>1, <2>5, <2>6 DEF Whole
<1> QED BY <1>9, <1>11, <1>12, <1>13, <1>14 DEF LinksKept, ChatIds

\* The invariant of the migration: each record's shares are where the redirects
\* have put them, links are kept, and no two chats share a number.
RekeyInv == RowsInv /\ RefsInv

THEOREM RekeyInvCorrect == RekeySpec => []RekeyInv
<1>1. RekeyInit => RekeyInv
  <2> SUFFICES ASSUME RekeyInit PROVE RekeyInv
    OBVIOUS
  <2>1. 0 \in Numbers
    BY DEF Numbers
  <2>2. RowTypes /\ SharesPlaced /\ Apart
    BY DEF RekeyInit, RowTypes, SharesPlaced, Apart, ChatIds
  <2>2a. CollectedMoved /\ WalkedMoved
    BY DEF RekeyInit, CollectedMoved, WalkedMoved
  <2>2b. OnlyPassedOverHidden /\ InstallKept
    BY DEF RekeyInit, OnlyPassedOverHidden, InstallKept, RowTables
  <2>3. RefTypes /\ Drawn
    BY <2>1 DEF RekeyInit, RefTypes, Drawn
  <2>4. LinksKept
    BY DEF RekeyInit, LinksKept, Whole, Listed, ChatIds
  <2> QED BY <2>2, <2>2a, <2>2b, <2>3, <2>4 DEF RekeyInv, RowsInv, RefsInv
<1>2. RekeyInv /\ [RekeyNext]_rekeyVars => RekeyInv'
  <2> SUFFICES ASSUME RekeyInv, [RekeyNext]_rekeyVars PROVE RekeyInv'
    OBVIOUS
  <2>1. /\ UNCHANGED rowVars => RowsInv'
        /\ UNCHANGED refVars => RefsInv'
    <3>1. ASSUME UNCHANGED rowVars PROVE RowsInv'
      <4>1. /\ UNCHANGED <<rows, monthIdx, redirects, written, installed, noted>>
            /\ installed \in [ChatIds -> 0..2] /\ noted \in 0..2
        BY <3>1 DEF rowVars, RekeyInv, RowsInv, RowTypes
      <4>2. InstallKept'
        BY <4>1 DEF RekeyInv, RowsInv, InstallKept
      <4> QED BY <4>1, <4>2, UnchangedRows DEF RekeyInv, RowsInv
    <3>2. ASSUME UNCHANGED refVars PROVE RefsInv'
      <4>1. RefTypes' /\ Drawn'
        BY <3>2 DEF RekeyInv, RefsInv, RefTypes, Drawn, refVars
      <4>2. LinksKept'
        BY <3>2 DEF RekeyInv, RefsInv, LinksKept, Whole, Listed, refVars
      <4> QED BY <4>1, <4>2 DEF RefsInv
    <3> QED BY <3>1, <3>2
  <2>2. ASSUME NEW c \in ChatIds, NEW t \in RowTables, NEW r \in Rows, WriteRow(t, c, r)
        PROVE  RekeyInv'
    <3>1. UNCHANGED refVars
      BY <2>2 DEF WriteRow
    <3> QED BY <2>1, <2>2, <3>1, WriteRowKeeps DEF RekeyInv
  <2>4. ASSUME NEW c \in ChatIds, InstallChat(c) PROVE RekeyInv'
    <3>1. UNCHANGED refVars
      BY <2>4 DEF InstallChat
    <3> QED BY <2>1, <2>4, <3>1, InstallKeeps DEF RekeyInv
  <2>5. ASSUME NEW c \in ChatIds, NEW n \in ServiceNames, NEW o \in Owners, NEW u \in Addresses,
               CreateReferral(c, n, o, u)
        PROVE  RekeyInv'
    <3>1. UNCHANGED rowVars
      BY <2>5 DEF CreateReferral
    <3> QED BY <2>1, <2>5, <3>1, CreateKeeps DEF RekeyInv
  <2>6. ASSUME NEW c \in ChatIds, NEW r \in refs[c], RemoveReferral(c, r) PROVE RekeyInv'
    <3>1. UNCHANGED rowVars
      BY <2>6 DEF RemoveReferral
    <3> QED BY <2>1, <2>6, <3>1, RemoveKeeps DEF RekeyInv
  <2>7. ASSUME MigrateChatID PROVE RekeyInv'
    BY <2>7, MoveRowsKeeps, MergeKeeps DEF RekeyInv
  <2>8. ASSUME UNCHANGED rekeyVars PROVE RekeyInv'
    BY <2>1, <2>8 DEF rekeyVars, rowVars, refVars, RekeyInv
  <2> QED BY <2>2, <2>4, <2>5, <2>6, <2>7, <2>8 DEF RekeyNext
<1> QED BY <1>1, <1>2, PTL DEF RekeySpec

\* LinksSurvive (migrateReferrals, storage/migrate.go:507): however registrations,
\* deletions and repeated redirects follow each other, a link stays registered
\* under one of the ids until it is deleted, and both catalogues stay whole.
THEOREM LinksSurviveCorrect == RekeySpec => []LinksSurvive
<1>1. RekeyInv => LinksSurvive
  BY DEF RekeyInv, RefsInv, LinksKept, LinksSurvive
<1> QED BY <1>1, RekeyInvCorrect, PTL

\* RowsAccounted (MigrateChatID, storage/migrate.go:45): what becomes of the
\* records when flushes under either id and any number of redirects follow each
\* other, for any tables: a share of a collected table is where the last redirect
\* has put it unless a later one put the record of the old id over it, and a share
\* of a walked table is lost in no other way, though it may stay behind.
THEOREM RowsAccountedCorrect == RekeySpec => []RowsAccounted
<1>1. RekeyInv => RowsAccounted
  BY DEF RekeyInv, RowsInv, Apart, InstallKept, RowsAccounted
<1> QED BY <1>1, RekeyInvCorrect, PTL

LEMMA RekeyTypesCorrect == RekeySpec => []RekeyTypeOK
<1>1. ASSUME RekeyInv PROVE RekeyTypeOK
  <2> USE <1>1 DEF RekeyInv, RowsInv, RefsInv
  <2>1. \A c \in ChatIds : /\ svcs[c] \subseteq ServiceRows /\ refs[c] \subseteq ReferralRows
                           /\ svcNames[c] \in [ServiceNames -> Numbers]
    BY DEF RefTypes
  <2>2. links \subseteq Addresses
    BY <2>1 DEF LinksKept, Listed, ReferralRows, ChatIds
  <2> QED BY <2>1, <2>2 DEF RekeyTypeOK, RowTypes, RefTypes, ServiceRows, ReferralRows
<1> QED BY <1>1, RekeyInvCorrect, PTL

HIDE RekeyAssumption

----------------------------------------------------------------------------
(* Reposts.                                                                *)

\* A flusher in the midst of a job has one in hand.
JobInHand == \A f \in Flushers : stage[f] \notin {"idle", "next"} => cur[f] \in Links

\* Goroutines that have answered a link and are not through with it.
DeletesShown == \A p \in Workers : stage[p] \in {"delete", "record"} => Hand(p) \in shown
DropsAnswered == \A f \in Flushers : stage[f] = "drop" => Hand(f) \in shown \cup declined

\* No flusher ends: it turns to the next job.
FlushersGoOn == \A f \in Flushers : stage[f] # "done"

RepostInv == /\ RepostTypeOK /\ JobInHand /\ FlushersGoOn
             /\ DeletesShown /\ DropsAnswered
             /\ OriginalKept /\ NobodyLeftInSilence

----------------------------------------------------------------------------
\* A goroutine at work holds a link.
LEMMA HoldsLink ==
  ASSUME RepostTypeOK, JobInHand, NEW p \in Workers, stage[p] \notin {"idle", "next"}
  PROVE  Hand(p) \in Links
BY DEF JobInHand, Hand, Workers

\* What a step of a goroutine at work changes and keeps.
LEMMA GoesOn ==
  ASSUME RepostTypeOK, NEW p \in Workers, NEW s \in Stages, Goes(p, s)
  PROVE  /\ stage' \in [Workers -> Stages]
         /\ slot' \in [Slotted -> Links \cup {NoLink}]
         /\ stage'[p] = IF s = "done" /\ p \in Flushers THEN "next" ELSE s
         /\ \A q \in Workers : q # p => stage'[q] = stage[q]
BY DEF RepostTypeOK, Goes, Stages

\* A goroutine at work keeps the invariant if it deletes, records and drops only
\* what is shown or answered, leaves nothing unanswered behind, and takes nothing
\* back.
LEMMA WorkStep ==
  ASSUME RepostInv,
         NEW p \in Workers, stage[p] \notin {"idle", "next"},
         NEW s \in Stages \ {"idle", "next"}, Goes(p, s),
         UNCHANGED <<site, cur, rest, clock, expired>>,
         original' \in [Links -> {"unsent", "kept", "gone"}],
         shown \subseteq shown', shown' \subseteq Links,
         declined \subseteq declined', declined' \subseteq Links,
         left' \in [Workers -> 0..3], jobs' \in [Links -> Nat], indexed' \in BOOLEAN,
         lost \subseteq lost', lost' \subseteq Links,
         \A l \in Links : original'[l] = "gone" => original[l] = "gone" \/ l \in shown',
         s \in {"delete", "record"} => Hand(p) \in shown',
         s = "drop" => Hand(p) \in shown' \cup declined',
         p \in Links /\ s = "done" => p \in shown' \cup declined' \cup lost' \/ jobs'[p] # NoJob,
         \A l \in Links : jobs[l] # NoJob => jobs'[l] # NoJob \/ l \in shown' \cup declined'
  PROVE  RepostInv'
<1> USE DEF RepostInv
<1>1. /\ stage' \in [Workers -> Stages]
      /\ slot' \in [Slotted -> Links \cup {NoLink}]
      /\ stage'[p] = IF s = "done" /\ p \in Flushers THEN "next" ELSE s
      /\ \A q \in Workers : q # p => stage'[q] = stage[q]
  BY GoesOn
<1>2. Hand(p) \in Links /\ \A q \in Workers : Hand(q)' = Hand(q)
  BY HoldsLink DEF Hand
<1>3. RepostTypeOK'
  BY <1>1 DEF RepostTypeOK
<1>4. JobInHand'
  BY <1>1, <1>2, RepostAssumption DEF JobInHand, Hand, Workers
<1>5. FlushersGoOn'
  BY <1>1, RepostAssumption DEF FlushersGoOn, Workers
<1>6. DeletesShown'
  BY <1>1, <1>2 DEF DeletesShown
<1>7. DropsAnswered'
  BY <1>1, <1>2 DEF DropsAnswered, Workers
<1>8. OriginalKept'
  BY DEF OriginalKept
<1>9. NobodyLeftInSilence'
  <2> SUFFICES ASSUME NEW l \in Links, stage'[l] = "done"
               PROVE  l \in shown' \cup declined' \cup expired \cup lost' \/ jobs'[l] # NoJob
    BY DEF NobodyLeftInSilence
  <2>1. CASE l = p
    BY <1>1, <2>1, RepostAssumption DEF Workers
  <2>2. CASE l # p
    <3>1. stage[l] = "done"
      BY <1>1, <2>2 DEF Workers
    <3> QED BY <3>1 DEF NobodyLeftInSilence
  <2> QED BY <2>1, <2>2
<1> QED BY <1>3, <1>4, <1>5, <1>6, <1>7, <1>8, <1>9

\* What a link's goroutine, or a flusher, does with the link in hand.
LEMMA WorkKeeps ==
  ASSUME RepostInv, NEW p \in Workers,
         \/ Fetch(p) \/ FindVideo(p) \/ PostTikTokVideo(p)
         \/ Posted(p) \/ Refused(p) \/ SendFaults(p) \/ Unsendable(p)
         \/ DeleteOriginal(p) \/ RecordVideo(p) \/ Decline(p)
  PROVE  RepostInv'
<1> USE DEF RepostInv
<1>0. /\ RepostTypeOK /\ JobInHand /\ DeletesShown /\ DropsAnswered
      /\ p \in Links => Hand(p) = p
      /\ stage[p] \notin {"idle", "next"}
      /\ Hand(p) \in Links
  BY HoldsLink DEF Fetch, FindVideo, PostTikTokVideo, Posted, Refused, SendFaults, Unsendable,
                   DeleteOriginal, RecordVideo, Decline, Hand
<1>w. /\ Later(p) = IF p \in Links THEN "enqueue" ELSE "done"
      /\ Answered(p) = IF p \in Links THEN "done" ELSE "drop"
  BY DEF Later, Answered
<1>t. /\ original \in [Links -> {"unsent", "kept", "gone"}]
      /\ shown \subseteq Links /\ declined \subseteq Links /\ lost \subseteq Links
      /\ left \in [Workers -> 0..3] /\ jobs \in [Links -> Nat] /\ indexed \in BOOLEAN
      /\ stage \in [Workers -> Stages]
  BY <1>0 DEF RepostTypeOK
<1> HIDE DEF RepostInv
<1>1. CASE Fetch(p)
  <2>1. PICK s \in {"index", "send", Later(p), "decline"} : Goes(p, s)
    BY <1>1 DEF Fetch
  <2>2. left' \in [Workers -> 0..3]
    BY <1>1, <1>t DEF Fetch
  <2>3. s \in Stages \ {"idle", "next"} /\ s \notin {"delete", "record", "drop"}
        /\ (p \in Links => s # "done")
    BY <2>1, <1>w DEF Stages
  <2> QED BY <1>1, <1>0, <1>t, <2>1, <2>2, <2>3, WorkStep DEF Fetch
<1>2. CASE FindVideo(p)
  <2>1. PICK s \in {"send", "video"} : Goes(p, s)
    BY <1>2 DEF FindVideo
  <2>2. left' \in [Workers -> 0..3]
    BY <1>2, <1>t DEF FindVideo
  <2>3. s \in Stages \ {"idle", "next"} /\ s \notin {"delete", "record", "drop", "done"}
    BY <2>1 DEF Stages
  <2> QED BY <1>2, <1>0, <1>t, <2>1, <2>2, <2>3, WorkStep DEF FindVideo
<1>3. CASE PostTikTokVideo(p)
  <2>0. Goes(p, "send") /\ \E k \in {1, 3} : left' = [left EXCEPT ![p] = k]
    BY <1>3, Zenon DEF PostTikTokVideo
  <2>1. Goes(p, "send") /\ left' \in [Workers -> 0..3]
    BY <2>0, <1>t
  <2>3. indexed' \in BOOLEAN
    BY <1>3, <1>t, Zenon DEF PostTikTokVideo
  <2>2. "send" \in Stages \ {"idle", "next"}
    BY DEF Stages
  <2> QED BY <1>3, <1>0, <1>t, <2>1, <2>2, <2>3, WorkStep DEF PostTikTokVideo
<1>4. CASE Posted(p)
  <2>1. Goes(p, "delete") /\ left' \in [Workers -> 0..3]
    BY <1>4, <1>t DEF Posted, NoneLeft
  <2>2. "delete" \in Stages \ {"idle", "next"}
    BY DEF Stages
  <2> QED BY <1>4, <1>0, <1>t, <2>1, <2>2, WorkStep DEF Posted
<1>s. ASSUME stage[p] = "send", SendFailed(p),
             NEW s \in Stages \ {"idle", "next"},
             site[Hand(p)] \in {"tiktok", "instagram"} => Goes(p, s)
      PROVE  /\ left' \in [Workers -> 0..3]
             /\ \E t \in {"send", "decline", s} : Goes(p, t)
  <2>1. CASE site[Hand(p)] \in {"comment", "xpost"}
    <3>1. CASE left[p] > 0 /\ left' = [left EXCEPT ![p] = @ - 1] /\ UNCHANGED <<stage, slot>>
      <4>1. Goes(p, "send")
        BY <1>s, <1>t, <3>1 DEF Goes
      <4>2. left' \in [Workers -> 0..3]
        BY <1>t, <3>1
      <4> QED BY <4>1, <4>2
    <3>2. CASE Goes(p, "decline") /\ NoneLeft(p)
      BY <1>t, <3>2 DEF NoneLeft
    <3> QED BY <1>s, <2>1, <3>1, <3>2 DEF SendFailed
  <2>2. CASE site[Hand(p)] \notin {"comment", "xpost"}
    <3>1. site[Hand(p)] \in {"tiktok", "instagram"}
      BY <1>0, <2>2 DEF RepostTypeOK, Sites
    <3> QED BY <1>s, <1>t, <2>2, <3>1 DEF SendFailed
  <2> QED BY <2>1, <2>2
<1>5. CASE Refused(p)
  <2>0. "decline" \in Stages \ {"idle", "next"} /\ "send" \in Stages \ {"idle", "next"}
    BY DEF Stages
  <2>1. left' \in [Workers -> 0..3] /\ \E t \in {"send", "decline"} : Goes(p, t)
    BY <1>5, <1>s, <2>0 DEF Refused
  <2>2. PICK t \in {"send", "decline"} : Goes(p, t)
    BY <2>1
  <2> QED BY <1>5, <1>0, <1>t, <2>0, <2>1, <2>2, WorkStep DEF Refused
<1>6. CASE SendFaults(p)
  <2>0. /\ Later(p) \in Stages \ {"idle", "next"} /\ "decline" \in Stages \ {"idle", "next"}
        /\ "send" \in Stages \ {"idle", "next"}
        /\ Later(p) \notin {"delete", "record", "drop"} /\ (p \in Links => Later(p) # "done")
    BY <1>w DEF Stages
  <2>1. left' \in [Workers -> 0..3] /\ \E t \in {"send", "decline", Later(p)} : Goes(p, t)
    BY <1>6, <1>s, <2>0 DEF SendFaults
  <2>2. PICK t \in {"send", "decline", Later(p)} : Goes(p, t)
    BY <2>1
  <2>3. shown \subseteq shown' /\ shown' \subseteq Links
    BY <1>6, <1>0, <1>t DEF SendFaults
  <2> QED BY <1>6, <1>0, <1>t, <2>0, <2>1, <2>2, <2>3, WorkStep DEF SendFaults
<1>7. CASE Unsendable(p)
  <2>1. PICK s \in {"decline", "done"} : Goes(p, s) /\ (p \in Links => s = "decline")
    BY <1>7 DEF Unsendable
  <2>2. s \in Stages \ {"idle", "next"}
    BY <2>1 DEF Stages
  <2> QED BY <1>7, <1>0, <1>t, <2>1, <2>2, WorkStep DEF Unsendable
<1>8. CASE DeleteOriginal(p)
  <2>1. PICK s \in {"record", Answered(p)} : Goes(p, s)
    BY <1>8 DEF DeleteOriginal
  <2>2. s \in Stages \ {"idle", "next"} /\ Hand(p) \in shown
    BY <1>0, <1>8, <1>w, <2>1 DEF Stages, DeletesShown, DeleteOriginal
  <2>3. original' \in [Links -> {"unsent", "kept", "gone"}]
    BY <1>8, <1>t DEF DeleteOriginal
  <2>4. \A l \in Links : original'[l] = "gone" => original[l] = "gone" \/ l \in shown'
    BY <1>8, <1>t, <2>2 DEF DeleteOriginal
  <2> QED BY <1>8, <1>0, <1>t, <2>1, <2>2, <2>3, <2>4, WorkStep DEF DeleteOriginal
<1>9. CASE RecordVideo(p)
  <2>1. Goes(p, Answered(p)) /\ indexed' \in BOOLEAN
    BY <1>9, <1>t DEF RecordVideo
  <2>2. Answered(p) \in Stages \ {"idle", "next"} /\ Answered(p) \notin {"delete", "record"}
    BY <1>w DEF Stages
  <2>3. Hand(p) \in shown
    BY <1>0, <1>9 DEF DeletesShown, RecordVideo
  <2> QED BY <1>9, <1>0, <1>t, <2>1, <2>2, <2>3, WorkStep DEF RecordVideo
<1>10. CASE Decline(p)
  <2>1. Goes(p, Answered(p)) /\ declined' = declined \cup {Hand(p)}
    BY <1>10 DEF Decline
  <2>2. Answered(p) \in Stages \ {"idle", "next"} /\ Answered(p) \notin {"delete", "record"}
    BY <1>w DEF Stages
  <2> QED BY <1>10, <1>0, <1>t, <2>1, <2>2, WorkStep DEF Decline
<1> QED BY <1>1, <1>2, <1>3, <1>4, <1>5, <1>6, <1>7, <1>8, <1>9, <1>10

\* The ways out of a goroutine: no directory, the queue, a job dropped.
LEMMA LeavesKeep ==
  ASSUME RepostInv,
         \/ \E l \in Links : NoDirectory(l) \/ EnqueueRepostOrFail(l)
         \/ \E f \in Flushers : DropJob(f)
  PROVE  RepostInv'
<1>t. /\ RepostTypeOK /\ JobInHand
      /\ original \in [Links -> {"unsent", "kept", "gone"}]
      /\ shown \subseteq Links /\ declined \subseteq Links /\ lost \subseteq Links
      /\ left \in [Workers -> 0..3] /\ jobs \in [Links -> Nat] /\ indexed \in BOOLEAN
      /\ clock \in Nat \ {0}
      /\ {"done", "decline"} \subseteq Stages \ {"idle", "next"}
  BY DEF RepostInv, RepostTypeOK, Stages
<1>1. ASSUME NEW l \in Links, NoDirectory(l) PROVE RepostInv'
  <2>1. l \in Workers /\ Hand(l) = l /\ Goes(l, "done") /\ lost' = lost \cup {l}
    BY <1>1 DEF NoDirectory, Workers, Hand
  <2> QED BY <1>1, <1>t, <2>1, WorkStep DEF NoDirectory
<1>2. ASSUME NEW l \in Links, EnqueueRepostOrFail(l) PROVE RepostInv'
  <2>1. l \in Workers /\ Hand(l) = l /\ stage[l] = "enqueue"
        /\ UNCHANGED <<site, original, shown, declined, cur, rest, left, indexed, clock, expired, lost>>
    BY <1>2 DEF EnqueueRepostOrFail, Workers, Hand
  <2>2. CASE jobs' = [jobs EXCEPT ![l] = clock] /\ Goes(l, "done")
    <3>1. jobs' \in [Links -> Nat] /\ jobs'[l] # NoJob
          /\ \A m \in Links : jobs[m] # NoJob => jobs'[m] # NoJob
      BY <1>t, <2>2 DEF NoJob
    <3> QED BY <1>t, <2>1, <2>2, <3>1, WorkStep
  <2>3. CASE UNCHANGED jobs /\ Goes(l, "decline")
    BY <1>t, <2>1, <2>3, WorkStep
  <2> QED BY <1>2, <2>2, <2>3 DEF EnqueueRepostOrFail
<1>3. ASSUME NEW f \in Flushers, DropJob(f) PROVE RepostInv'
  <2>1. f \in Workers /\ f \notin Links /\ stage[f] = "drop" /\ Goes(f, "done")
        /\ Hand(f) \in shown \cup declined
        /\ UNCHANGED <<site, original, shown, declined, cur, rest, left, indexed, clock, expired, lost>>
    BY <1>3, RepostAssumption DEF DropJob, Workers, RepostInv, DropsAnswered
  <2>2. jobs' \in [Links -> Nat]
        /\ \A m \in Links : jobs[m] # NoJob => jobs'[m] # NoJob \/ m \in shown \cup declined
    BY <1>t, <1>3, <2>1 DEF DropJob, NoJob
  <2> QED BY <1>t, <2>1, <2>2, WorkStep
<1> QED BY <1>1, <1>2, <1>3

\* What else happens: a message comes in, a flush lists jobs and takes the next,
\* old jobs are collected, time passes, the process is restarted.
LEMMA QueueKeeps ==
  ASSUME RepostInv,
         \/ \E l \in Links : Share(l)
         \/ \E f \in Flushers : HandleFlush(f) \/ NextJob(f)
         \/ GarbageCollect \/ RepostTick \/ RepostRestart
  PROVE  RepostInv'
<1> USE DEF RepostInv
<1> Workers = Links \cup Flushers /\ Links \cap Flushers = {} /\ NoLink \notin Links
  BY RepostAssumption DEF Workers
<1>1. ASSUME NEW l \in Links, Share(l) PROVE RepostInv'
  <2>1. PICK s \in {"fetch", "decline", "enqueue"} : stage' = [stage EXCEPT ![l] = s]
    BY <1>1 DEF Share
  <2>2. slot' \in [Slotted -> Links \cup {NoLink}]
    BY <1>1 DEF Share, RepostTypeOK
  <2>3. RepostTypeOK'
    BY <1>1, <2>1, <2>2 DEF Share, RepostTypeOK, Stages
  <2>4. stage'[l] = s /\ \A p \in Workers : p # l => stage'[p] = stage[p]
    BY <2>1 DEF RepostTypeOK
  <2>5. \A p \in Workers : Hand(p)' = Hand(p)
    BY <1>1 DEF Share, Hand
  <2>6. JobInHand' /\ FlushersGoOn'
    BY <1>1, <2>4 DEF Share, JobInHand, FlushersGoOn
  <2>7. DeletesShown' /\ DropsAnswered'
    BY <1>1, <2>4, <2>5 DEF Share, DeletesShown, DropsAnswered
  <2>8. OriginalKept'
    BY <1>1 DEF Share, OriginalKept, RepostTypeOK
  <2>9. NobodyLeftInSilence'
    BY <1>1, <2>4 DEF Share, NobodyLeftInSilence
  <2> QED BY <2>3, <2>6, <2>7, <2>8, <2>9
<1>2. ASSUME NEW f \in Flushers, HandleFlush(f) PROVE RepostInv'
  <2>1. RepostTypeOK'
    BY <1>2 DEF HandleFlush, RepostTypeOK, Stages
  <2>2. stage'[f] = "next" /\ \A p \in Workers : p # f => stage'[p] = stage[p]
    BY <1>2 DEF HandleFlush, RepostTypeOK
  <2>3. \A p \in Workers : Hand(p)' = Hand(p)
    BY <1>2 DEF HandleFlush, Hand
  <2>4. JobInHand' /\ FlushersGoOn'
    BY <1>2, <2>2 DEF HandleFlush, JobInHand, FlushersGoOn
  <2>5. DeletesShown' /\ DropsAnswered'
    BY <1>2, <2>2, <2>3 DEF HandleFlush, DeletesShown, DropsAnswered
  <2>6. OriginalKept' /\ NobodyLeftInSilence'
    BY <1>2, <2>2 DEF HandleFlush, OriginalKept, NobodyLeftInSilence
  <2> QED BY <2>1, <2>4, <2>5, <2>6
<1>3. ASSUME NEW f \in Flushers, NextJob(f) PROVE RepostInv'
  <2>1. PICK s \in {"fetch", "idle"}, l \in Links \cup {NoLink} :
          /\ stage' = [stage EXCEPT ![f] = s]
          /\ cur' = [cur EXCEPT ![f] = l]
          /\ s = "fetch" => l \in Links
    <3>1. CASE \E l \in rest[f] : /\ cur' = [cur EXCEPT ![f] = l]
                                  /\ stage' = [stage EXCEPT ![f] = "fetch"]
      BY <3>1 DEF RepostTypeOK
    <3>2. CASE cur' = [cur EXCEPT ![f] = NoLink] /\ stage' = [stage EXCEPT ![f] = "idle"]
      BY <3>2
    <3> QED BY <1>3, <3>1, <3>2 DEF NextJob
  <2>2. rest' \in [Flushers -> SUBSET Links]
    BY <1>3 DEF NextJob, RepostTypeOK
  <2>3. RepostTypeOK'
    BY <1>3, <2>1, <2>2 DEF NextJob, RepostTypeOK, Stages
  <2>4. stage'[f] = s /\ \A p \in Workers : p # f => stage'[p] = stage[p]
    BY <2>1 DEF RepostTypeOK
  <2>5. \A p \in Workers : p # f => Hand(p)' = Hand(p)
    BY <1>3, <2>1 DEF Hand, RepostTypeOK
  <2>6. JobInHand' /\ FlushersGoOn'
    BY <2>1, <2>4 DEF JobInHand, FlushersGoOn, RepostTypeOK
  <2>7. DeletesShown' /\ DropsAnswered'
    BY <1>3, <2>4, <2>5 DEF NextJob, DeletesShown, DropsAnswered
  <2>8. OriginalKept' /\ NobodyLeftInSilence'
    BY <1>3, <2>4 DEF NextJob, OriginalKept, NobodyLeftInSilence
  <2> QED BY <2>3, <2>6, <2>7, <2>8
<1>4. CASE GarbageCollect
  <2> DEFINE old == {l \in Links : jobs[l] # NoJob /\ jobs[l] + TTL < clock}
  <2>1. jobs' = [l \in Links |-> IF l \in old THEN NoJob ELSE jobs[l]] /\ expired' = expired \cup old
    BY <1>4 DEF GarbageCollect
  <2>2. RepostTypeOK'
    BY <1>4, <2>1 DEF GarbageCollect, RepostTypeOK, workVars, NoJob
  <2>3. \A p \in Workers : Hand(p)' = Hand(p)
    BY <1>4 DEF GarbageCollect, Hand, workVars
  <2>4. JobInHand' /\ FlushersGoOn' /\ DeletesShown' /\ DropsAnswered' /\ OriginalKept'
    BY <1>4, <2>3 DEF GarbageCollect, workVars, JobInHand, FlushersGoOn, DeletesShown, DropsAnswered,
                      OriginalKept
  <2>5. NobodyLeftInSilence'
    BY <1>4, <2>1 DEF GarbageCollect, workVars, NobodyLeftInSilence
  <2> QED BY <2>2, <2>4, <2>5
<1>5. CASE RepostTick
  <2>1. RepostTypeOK'
    BY <1>5 DEF RepostTick, RepostTypeOK, workVars
  <2>2. JobInHand' /\ FlushersGoOn' /\ DeletesShown' /\ DropsAnswered' /\ OriginalKept'
        /\ NobodyLeftInSilence'
    BY <1>5 DEF RepostTick, workVars, JobInHand, FlushersGoOn, DeletesShown, DropsAnswered,
                OriginalKept, NobodyLeftInSilence, Hand
  <2> QED BY <2>1, <2>2
<1>6. CASE RepostRestart
  <2>1. stage' = [p \in Workers |-> IF p \in Flushers \/ stage[p] = "idle" THEN "idle" ELSE "done"]
    BY <1>6 DEF RepostRestart
  <2>2. RepostTypeOK'
    BY <1>6, <2>1 DEF RepostRestart, RepostTypeOK, Stages
  <2>3. \A p \in Workers : stage'[p] \in {"idle", "done"} /\ (p \in Flushers => stage'[p] = "idle")
    BY <2>1
  <2>4. JobInHand' /\ FlushersGoOn' /\ DeletesShown' /\ DropsAnswered'
    BY <2>3 DEF JobInHand, FlushersGoOn, DeletesShown, DropsAnswered
  <2>5. OriginalKept'
    BY <1>6 DEF RepostRestart, OriginalKept
  <2>6. NobodyLeftInSilence'
    BY <1>6, <2>1 DEF RepostRestart, NobodyLeftInSilence
  <2> QED BY <2>2, <2>4, <2>5, <2>6
<1> QED BY <1>1, <1>2, <1>3, <1>4, <1>5, <1>6

LEMMA RepostInvInit == RepostInit => RepostInv
<1> SUFFICES ASSUME RepostInit PROVE RepostInv
  OBVIOUS
<1>0. NoLink \in Links \cup {NoLink} /\ "idle" \in Stages /\ 0 \in 0..3 /\ NoJob \in Nat
      /\ 1 \in Nat \ {0}
  BY DEF Stages, NoJob
<1>1. RepostTypeOK
  BY <1>0, Zenon DEF RepostInit, RepostTypeOK
<1>2. JobInHand /\ FlushersGoOn /\ DeletesShown /\ DropsAnswered
  BY DEF RepostInit, JobInHand, FlushersGoOn, DeletesShown, DropsAnswered, Workers
<1>3. OriginalKept /\ NobodyLeftInSilence
  BY DEF RepostInit, OriginalKept, NobodyLeftInSilence, Workers
<1> QED BY <1>1, <1>2, <1>3 DEF RepostInv

\* However goroutines, flushes, the collector and restarts interleave, the
\* invariant holds.
THEOREM RepostInvCorrect == RepostSpec => []RepostInv
<1>1. RepostInv /\ [RepostNext]_repostVars => RepostInv'
  <2> SUFFICES ASSUME RepostInv, [RepostNext]_repostVars PROVE RepostInv'
    OBVIOUS
  <2>1. CASE RepostNext
    BY <2>1, WorkKeeps, LeavesKeep, QueueKeeps DEF RepostNext
  <2>2. CASE UNCHANGED repostVars
    BY <2>2 DEF repostVars, workVars, RepostInv, RepostTypeOK, JobInHand, FlushersGoOn,
                DeletesShown, DropsAnswered, OriginalKept, NobodyLeftInSilence, Hand
  <2> QED BY <2>1, <2>2
<1> QED BY RepostInvInit, <1>1, PTL DEF RepostSpec

\* The type of the variables (bot/repost_common.go, bot/deferred.go).
THEOREM RepostTypesCorrect == RepostSpec => []RepostTypeOK
BY RepostInvCorrect, PTL DEF RepostInv

\* No member's message is deleted for which the chat has no post of the bot
\* (repost_common.go: repost first, delete after).
THEOREM OriginalKeptCorrect == RepostSpec => []OriginalKept
BY RepostInvCorrect, PTL DEF RepostInv

\* A link whose goroutine has ended was answered, or waits in the queue until it
\* is answered or too old (deferred.go).
THEOREM NobodyLeftInSilenceCorrect == RepostSpec => []NobodyLeftInSilence
BY RepostInvCorrect, PTL DEF RepostInv

----------------------------------------------------------------------------
(* Summaries.                                                              *)

Goroutines == Asks \cup Retries

SummaryShapes ==
  /\ said \subseteq Texts
  /\ ring \in [Chats -> Seq(said)]
  /\ phase \in [Goroutines -> Phases]
  /\ task \in [Goroutines -> Requests \cup {NoRequest}]
  /\ entries \in [Goroutines -> Seq(said)]
  /\ retry \in [Asks -> Requests \cup {NoRequest}]

\* Who is past the first step knows what it is to sum up.
Tasked == \A p \in Goroutines : phase[p] \notin {"idle", "done"} => task[p] \in Requests

\* As long as the chat's last message is that of w, the window is w: messages do
\* not come twice, so that a window that moved never ends as it did.
Fits(c, n, w) == /\ w \in Seq(said) /\ w # <<>>
                 /\ ring[c] # <<>> /\ Last(ring[c]) = Last(w) => Window(c, n) = w

CopiesFit == \A p \in Goroutines : phase[p] = "call" => Fits(task[p].chat, task[p].n, entries[p])

FiledFit == \A e \in cache : /\ e.key \in Keys
                             /\ e.key.last = Last(e.of)
                             /\ Fits(e.key.chat, e.key.n, e.of)

Busy == {a \in Asks : phase[a] \in Working}

\* A chat's slot is taken just as long as a command works for it, and one
\* command at a time does.
SlotsHeld == /\ running = {task[a].chat : a \in Busy}
             /\ \A a, b \in Busy : task[a].chat = task[b].chat => a = b

SummariesInv == SummaryShapes /\ Tasked /\ CopiesFit /\ FiledFit /\ SlotsHeld

----------------------------------------------------------------------------
\* The newest messages end where the window ends.
LEMMA NewestEnds ==
  ASSUME NEW S, NEW s \in Seq(S), NEW n \in Nat \ {0}
  PROVE  /\ Newest(s, n) \in Seq(S)
         /\ Newest(s, n) # <<>> <=> s # <<>>
         /\ s # <<>> => Last(Newest(s, n)) = Last(s)
<1> DEFINE i == IF n < Len(s) THEN Len(s) - n + 1 ELSE 1
<1>1. Newest(s, n) = SubSeq(s, i, Len(s)) /\ i \in Nat \ {0} /\ Len(s) \in Nat
  BY DEF Newest
<1>2. s # <<>> => i <= Len(s) /\ Len(s) > 0
  BY <1>1
<1>3. s = <<>> => i = 1 /\ Len(s) = 0
  OBVIOUS
<1> HIDE DEF i
<1>4. SubSeq(s, i, Len(s)) \in Seq(S)
  BY <1>1
<1>5. CASE s # <<>>
  <2>1. Len(SubSeq(s, i, Len(s))) = Len(s) - i + 1 /\ Len(s) - i + 1 > 0
    BY <1>1, <1>2, <1>5
  <2>2. SubSeq(s, i, Len(s))[Len(s) - i + 1] = s[Len(s)]
    BY <1>1, <1>2, <1>5
  <2>3. SubSeq(s, i, Len(s)) # <<>>
    <3>1. Len(SubSeq(s, i, Len(s))) # 0
      BY <2>1
    <3>2. Len(<<>>) = 0
      OBVIOUS
    <3> QED BY <3>1, <3>2, Zenon
  <2> QED BY <1>1, <1>4, <1>5, <2>1, <2>2, <2>3 DEF Last
<1>6. CASE s = <<>>
  BY <1>1, <1>3, <1>4, <1>6
<1> QED BY <1>1, <1>4, <1>5, <1>6

LEMMA LastSaid ==
  ASSUME NEW S, NEW w \in Seq(S), w # <<>>
  PROVE  Last(w) \in S
BY DEF Last

LEMMA Requested ==
  ASSUME NEW r \in Requests
  PROVE  r.chat \in Chats /\ r.n \in Nat \ {0} /\ r.n \in Sizes /\ r.by \in Asks
BY SummariesAssumption DEF Requests

\* The window of the moment fits.
LEMMA WindowFits ==
  ASSUME SummaryShapes, NEW c \in Chats, NEW n \in Nat \ {0}, Window(c, n) # <<>>
  PROVE  Fits(c, n, Window(c, n))
<1>1. ring[c] \in Seq(said)
  BY DEF SummaryShapes
<1> QED BY <1>1, NewestEnds DEF Fits, Window

\* A new message: a window that was its chat's ends otherwise from now on.
LEMMA RecordingKeeps ==
  ASSUME SummariesInv, NEW c \in Chats, NEW m \in Texts, Record(c, m)
  PROVE  SummariesInv'
<1> USE DEF SummariesInv
<1>1. m \notin said /\ said' = said \cup {m}
      /\ UNCHANGED <<cache, running, gcalls, phase, task, entries, retry>>
  BY DEF Record
<1>2. /\ ring' = [d \in Chats |-> ring'[d]]
      /\ ring'[c] = Newest(Append(ring[c], m), MaxPerChat)
      /\ \A d \in Chats : d # c => ring'[d] = <<>> \/ ring'[d] = ring[d]
  BY DEF Record, SummaryShapes
<1>3. /\ ring'[c] \in Seq(said') /\ ring'[c] # <<>> /\ Last(ring'[c]) = m
  <2>1. Append(ring[c], m) \in Seq(said') /\ Append(ring[c], m) # <<>>
        /\ Last(Append(ring[c], m)) = m
    <3>1. ring[c] \in Seq(said')
      BY <1>1 DEF SummaryShapes
    <3> QED BY <1>1, <3>1 DEF Last
  <2>2. MaxPerChat \in Nat \ {0}
    BY SummariesAssumption
  <2> QED BY <1>2, <2>1, <2>2, NewestEnds
<1>4. Seq(said) \subseteq Seq(said')
  BY <1>1
<1>5. SummaryShapes'
  <2>1. \A d \in Chats : ring'[d] \in Seq(said')
    <3> SUFFICES ASSUME NEW d \in Chats, d # c PROVE ring'[d] \in Seq(said')
      BY <1>3
    <3>1. ring[d] \in Seq(said')
      BY <1>4 DEF SummaryShapes
    <3>2. <<>> \in Seq(said')
      OBVIOUS
    <3> QED BY <1>2, <3>1, <3>2, Zenon
  <2>2. entries' \in [Goroutines -> Seq(said')]
    BY <1>1, <1>4 DEF SummaryShapes
  <2> QED BY <1>1, <1>2, <2>1, <2>2 DEF SummaryShapes
<1>6. ASSUME NEW d \in Chats, NEW n, NEW w, Fits(d, n, w) PROVE Fits(d, n, w)'
  <2>1. w \in Seq(said') /\ w # <<>> /\ Last(w) \in said
    BY <1>4, <1>6, LastSaid DEF Fits
  <2>2. CASE d = c
    BY <1>1, <1>3, <2>1, <2>2 DEF Fits
  <2>3. CASE d # c
    BY <1>2, <1>6, <2>1, <2>3 DEF Fits, Window
  <2> QED BY <2>2, <2>3
<1>7. Tasked' /\ SlotsHeld'
  BY <1>1 DEF Tasked, SlotsHeld, Busy
<1>8. CopiesFit'
  BY <1>1, <1>6, Requested DEF CopiesFit, Tasked
<1>9. FiledFit'
  BY <1>1, <1>6 DEF FiledFit, Keys
<1> QED BY <1>5, <1>7, <1>8, <1>9

\* While no message comes, what fits goes on fitting.
LEMMA FitsOn ==
  ASSUME UNCHANGED <<ring, said>>, NEW c, NEW n, NEW w
  PROVE  Fits(c, n, w)' <=> Fits(c, n, w)
BY DEF Fits, Window

\* What a goroutine's step keeps while no message comes: its own copy, and what
\* is filed, have to fit.
LEMMA StepKeeps ==
  ASSUME SummariesInv, UNCHANGED <<ring, said>>, NEW p \in Goroutines,
         phase' \in [Goroutines -> Phases],
         task' \in [Goroutines -> Requests \cup {NoRequest}],
         entries' \in [Goroutines -> Seq(said)],
         retry' \in [Asks -> Requests \cup {NoRequest}],
         \A q \in Goroutines : q # p => /\ phase'[q] = phase[q]
                                        /\ task'[q] = task[q]
                                        /\ entries'[q] = entries[q],
         phase'[p] \notin {"idle", "done"} => task'[p] \in Requests,
         phase'[p] = "call" => Fits(task'[p].chat, task'[p].n, entries'[p]),
         \A e \in cache' \ cache : /\ e.key \in Keys
                                   /\ e.key.last = Last(e.of)
                                   /\ Fits(e.key.chat, e.key.n, e.of)
  PROVE  SummaryShapes' /\ Tasked' /\ CopiesFit' /\ FiledFit'
<1> USE DEF SummariesInv
<1>1. SummaryShapes'
  BY DEF SummaryShapes
<1>2. Tasked'
  BY DEF Tasked
<1>3. CopiesFit'
  BY FitsOn DEF CopiesFit
<1>4. FiledFit'
  BY FitsOn DEF FiledFit
<1> QED BY <1>1, <1>2, <1>3, <1>4

\* A goroutine that goes on or ends as it should does not disturb the slots.
LEMMA SlotsKept ==
  ASSUME SummariesInv, NEW p \in Goroutines, UNCHANGED task,
         NEW s, phase' = [phase EXCEPT ![p] = s],
         \/ UNCHANGED running /\ (p \in Asks => (phase[p] \in Working <=> s \in Working))
         \/ Release(p) /\ s \notin Working /\ (p \in Asks => phase[p] \in Working)
  PROVE  SlotsHeld'
<1> USE DEF SummariesInv
<1> Asks \subseteq Goroutines
  BY DEF Goroutines
<1>1. phase'[p] = s /\ \A q \in Goroutines : q # p => phase'[q] = phase[q]
  BY DEF SummaryShapes
<1>2. CASE UNCHANGED running /\ (p \in Asks => (phase[p] \in Working <=> s \in Working))
  <2>1. Busy' = Busy
    BY <1>1, <1>2 DEF Busy
  <2> QED BY <1>2, <2>1 DEF SlotsHeld
<1>3. CASE Release(p) /\ s \notin Working /\ (p \in Asks => phase[p] \in Working)
  <2>1. Busy' = Busy \ {p}
    BY <1>1, <1>3 DEF Busy
  <2>2. CASE p \in Asks
    <3>1. p \in Busy /\ running' = running \ {task[p].chat}
      BY <1>3, <2>2 DEF Busy, Release
    <3>2. running' = {task[a].chat : a \in Busy \ {p}}
      BY <3>1 DEF SlotsHeld
    <3> QED BY <2>1, <3>2 DEF SlotsHeld
  <2>3. CASE p \notin Asks
    <3>1. Busy' = Busy /\ running' = running
      BY <1>3, <2>1, <2>3 DEF Busy, Release
    <3> QED BY <3>1 DEF SlotsHeld
  <2> QED BY <2>2, <2>3
<1> QED BY <1>2, <1>3

\* The command up to the model.
LEMMA CommandKeeps ==
  ASSUME SummariesInv, NEW a \in Asks, Ask(a) \/ TryCache(a) \/ Reserve(a) \/ Placeholder(a)
  PROVE  SummariesInv'
<1> USE DEF SummariesInv
<1>0. a \in Goroutines /\ UNCHANGED <<ring, said, cache, entries, retry>>
  BY DEF Ask, TryCache, Reserve, Placeholder, Goroutines
<1>1. CASE Ask(a)
  <2>1. PICK s \in {"cache", "done"} : phase' = [phase EXCEPT ![a] = s]
    BY <1>1 DEF Ask, Reaches
  <2>2. \E r \in Requests : \/ task' = [task EXCEPT ![a] = r]
                            \/ UNCHANGED task /\ phase' = [phase EXCEPT ![a] = "done"]
    BY <1>1 DEF Ask, Reaches
  <2>3. PICK r \in Requests : \/ task' = [task EXCEPT ![a] = r]
                              \/ UNCHANGED task /\ phase' = [phase EXCEPT ![a] = "done"]
    BY <2>2
  <2>4. /\ phase' \in [Goroutines -> Phases] /\ task' \in [Goroutines -> Requests \cup {NoRequest}]
        /\ phase'[a] = s
        /\ \A q \in Goroutines : q # a => phase'[q] = phase[q] /\ task'[q] = task[q]
        /\ s # "done" => task'[a] \in Requests
    BY <1>0, <2>1, <2>3 DEF SummaryShapes, Phases
  <2>5. SummaryShapes' /\ Tasked' /\ CopiesFit' /\ FiledFit'
    BY <1>0, <2>1, <2>4, StepKeeps DEF SummaryShapes
  <2>6. SlotsHeld'
    <3>1. Busy' = Busy /\ a \notin Busy /\ UNCHANGED running
      BY <1>0, <1>1, <2>1, <2>4 DEF Busy, Working, Ask, Goroutines
    <3>2. \A b \in Busy : task'[b] = task[b]
      BY <2>4, <3>1 DEF Busy, Goroutines
    <3> QED BY <3>1, <3>2 DEF SlotsHeld
  <2> QED BY <2>5, <2>6
<1>2. CASE TryCache(a)
  <2>1. PICK s \in {"done", "slot"} : phase' = [phase EXCEPT ![a] = s]
    BY <1>2 DEF TryCache, Reaches
  <2>2. SummaryShapes' /\ Tasked' /\ CopiesFit' /\ FiledFit'
    BY <1>0, <1>2, <2>1, StepKeeps DEF TryCache, SummaryShapes, Tasked, Phases
  <2>3. SlotsHeld'
    BY <1>0, <1>2, <2>1, SlotsKept DEF TryCache, Working
  <2> QED BY <2>2, <2>3
<1>3. CASE Reserve(a)
  <2>1. PICK s \in {"placeholder", "done"} : phase' = [phase EXCEPT ![a] = s]
    BY <1>3 DEF Reserve, Reaches
  <2>2. SummaryShapes' /\ Tasked' /\ CopiesFit' /\ FiledFit'
    BY <1>0, <1>3, <2>1, StepKeeps DEF Reserve, SummaryShapes, Tasked, Phases
  <2>3. CASE task[a].chat \notin running /\ gcalls < GlobalMax
    <3>1. running' = running \cup {task[a].chat} /\ phase' = [phase EXCEPT ![a] = "placeholder"]
          /\ UNCHANGED task
      BY <1>3, <2>3 DEF Reserve, Reaches
    <3>2. Busy' = Busy \cup {a}
      BY <1>0, <3>1 DEF Busy, Working, SummaryShapes, Goroutines
    <3>3. \A b \in Busy : task[b].chat # task[a].chat
      BY <2>3 DEF SlotsHeld
    <3>4. running' = {task'[b].chat : b \in Busy'}
      BY <3>1, <3>2 DEF SlotsHeld
    <3>5. \A b, d \in Busy' : task'[b].chat = task'[d].chat => b = d
      BY <3>1, <3>2, <3>3 DEF SlotsHeld
    <3> QED BY <2>2, <3>4, <3>5 DEF SlotsHeld
  <2>4. CASE ~(task[a].chat \notin running /\ gcalls < GlobalMax)
    <3>1. UNCHANGED <<running, task>> /\ phase' = [phase EXCEPT ![a] = "done"] /\ phase[a] = "slot"
      BY <1>3, <2>4 DEF Reserve, Reaches
    <3>2. Busy' = Busy
      BY <1>0, <3>1 DEF Busy, Working, SummaryShapes, Goroutines
    <3> QED BY <2>2, <3>1, <3>2 DEF SlotsHeld
  <2> QED BY <2>3, <2>4
<1>4. CASE Placeholder(a)
  <2>1. PICK s \in {"window", "done"} :
          /\ phase' = [phase EXCEPT ![a] = s]
          /\ s = "window" => UNCHANGED running
          /\ s = "done" => Release(a)
    BY <1>4 DEF Placeholder, Reaches
  <2>2. SummaryShapes' /\ Tasked' /\ CopiesFit' /\ FiledFit'
    BY <1>0, <1>4, <2>1, StepKeeps DEF Placeholder, SummaryShapes, Tasked, Phases
  <2>3. SlotsHeld'
    BY <1>0, <1>4, <2>1, SlotsKept DEF Placeholder, Working
  <2> QED BY <2>2, <2>3
<1> QED BY <1>1, <1>2, <1>3, <1>4

\* The model is asked about the window of the moment, and its answer is filed
\* under the end of that window.
LEMMA AnswerKeeps ==
  ASSUME SummariesInv, NEW p \in Goroutines, TakeWindow(p) \/ Complete(p) \/ Edit(p)
  PROVE  SummariesInv'
<1> USE DEF SummariesInv
<1>0. /\ UNCHANGED <<ring, said, task>>
      /\ phase[p] \in {"window", "call", "edit"}
      /\ task[p] \in Requests
  BY DEF TakeWindow, Complete, Edit, Tasked
<1>r. /\ task[p].chat \in Chats /\ task[p].n \in Nat \ {0} /\ task[p].n \in Sizes /\ task[p].by \in Asks
      /\ p \in Asks => retry \in [Asks -> Requests \cup {NoRequest}]
      /\ NoRequest \in Requests \cup {NoRequest}
  BY <1>0, Requested DEF SummaryShapes
<1>1. ASSUME PutOff(p)
      PROVE  /\ retry' \in [Asks -> Requests \cup {NoRequest}]
             /\ phase' = [phase EXCEPT ![p] = IF p \in Asks THEN "edit" ELSE "done"]
  BY <1>0, <1>1 DEF PutOff, Reaches, SummaryShapes
<1>2. CASE TakeWindow(p)
  <2> DEFINE w == Window(task[p].chat, task[p].n)
  <2>1. CASE w = <<>>
    <3>1. PutOff(p) /\ UNCHANGED <<entries, cache, running>>
      BY <1>2, <2>1 DEF TakeWindow
    <3>2. SummaryShapes' /\ Tasked' /\ CopiesFit' /\ FiledFit'
      BY <1>0, <1>1, <3>1, StepKeeps DEF SummaryShapes, Phases
    <3>3. SlotsHeld'
      BY <1>0, <1>1, <1>2, <3>1, SlotsKept DEF Working, TakeWindow
    <3> QED BY <3>2, <3>3
  <2>2. CASE w # <<>>
    <3>1. /\ entries' = [entries EXCEPT ![p] = w] /\ phase' = [phase EXCEPT ![p] = "call"]
          /\ UNCHANGED <<retry, cache, running>>
      BY <1>2, <2>2 DEF TakeWindow, Reaches
    <3>2. Fits(task[p].chat, task[p].n, w) /\ w \in Seq(said)
      BY <1>r, <2>2, WindowFits DEF Fits
    <3> HIDE DEF w
    <3>3. entries' \in [Goroutines -> Seq(said)] /\ entries'[p] = w
          /\ phase' \in [Goroutines -> Phases]
          /\ \A q \in Goroutines : q # p => phase'[q] = phase[q] /\ entries'[q] = entries[q]
      BY <3>1, <3>2 DEF SummaryShapes, Phases
    <3>4. SummaryShapes' /\ Tasked' /\ CopiesFit' /\ FiledFit'
      BY <1>0, <3>1, <3>2, <3>3, StepKeeps DEF SummaryShapes
    <3>5. SlotsHeld'
      BY <1>0, <1>2, <3>1, SlotsKept DEF Working, TakeWindow
    <3> QED BY <3>4, <3>5
  <2> QED BY <2>1, <2>2
<1>3. CASE Complete(p)
  <2>0. /\ entries' = [entries EXCEPT ![p] = <<>>] /\ entries' \in [Goroutines -> Seq(said)]
        /\ UNCHANGED running /\ phase[p] = "call"
        /\ Fits(task[p].chat, task[p].n, entries[p])
    BY <1>3 DEF Complete, SummaryShapes, CopiesFit
  <2>1. CASE File(Key(task[p], entries[p]), entries[p]) /\ Reaches(p, "edit") /\ UNCHANGED retry
    <3>1. \A e \in cache' \ cache :
            /\ e.key \in Keys /\ e.key.last = Last(e.of) /\ Fits(e.key.chat, e.key.n, e.of)
      <4>1. Last(entries[p]) \in Texts
        BY <2>0, LastSaid DEF Fits, SummaryShapes
      <4>2. Key(task[p], entries[p]) \in Keys
        BY <1>r, <4>1 DEF Key, Keys
      <4> QED BY <1>0, <2>0, <2>1, <4>2 DEF File, Key
    <3>2. SummaryShapes' /\ Tasked' /\ CopiesFit' /\ FiledFit'
      BY <1>0, <2>0, <2>1, <3>1, StepKeeps DEF SummaryShapes, Phases, Reaches
    <3>3. SlotsHeld'
      BY <1>0, <2>0, <2>1, SlotsKept DEF Working, Reaches
    <3> QED BY <3>2, <3>3
  <2>2. CASE PutOff(p) /\ UNCHANGED cache
    <3>1. SummaryShapes' /\ Tasked' /\ CopiesFit' /\ FiledFit'
      BY <1>0, <1>1, <2>0, <2>2, StepKeeps DEF SummaryShapes, Phases
    <3>2. SlotsHeld'
      BY <1>0, <1>1, <2>0, <2>2, SlotsKept DEF Working
    <3> QED BY <3>1, <3>2
  <2> QED BY <1>3, <2>1, <2>2 DEF Complete
<1>4. CASE Edit(p)
  <2>1. phase' = [phase EXCEPT ![p] = "done"] /\ Release(p) /\ phase[p] = "edit"
        /\ UNCHANGED <<cache, entries>>
    BY <1>4 DEF Edit, Reaches
  <2>2. retry' \in [Asks -> Requests \cup {NoRequest}]
    BY <1>4, <1>r DEF Edit, SummaryShapes
  <2>3. SummaryShapes' /\ Tasked' /\ CopiesFit' /\ FiledFit'
    BY <1>0, <2>1, <2>2, StepKeeps DEF SummaryShapes, Phases
  <2>4. SlotsHeld'
    BY <1>0, <2>1, SlotsKept DEF Working
  <2> QED BY <2>3, <2>4
<1> QED BY <1>2, <1>3, <1>4

\* A panic, a retry, the expiry of an answer, time, and a restart.
LEMMA EndsKeep ==
  ASSUME SummariesInv,
         \/ \E a \in Asks : Panic(a) \/ \E f \in Retries : Retry(f, a)
         \/ \E e \in cache : Expire(e)
         \/ WindowSlides \/ SummariesRestart
  PROVE  SummariesInv'
<1> USE DEF SummariesInv
<1>1. ASSUME NEW a \in Asks, Panic(a) PROVE SummariesInv'
  <2>1. /\ a \in Goroutines /\ phase[a] \in {"window", "call"}
        /\ phase' = [phase EXCEPT ![a] = "done"] /\ Release(a)
        /\ entries' = [entries EXCEPT ![a] = <<>>] /\ entries' \in [Goroutines -> Seq(said)]
        /\ UNCHANGED <<ring, said, cache, task, retry>>
    BY <1>1 DEF Panic, Reaches, Goroutines, SummaryShapes
  <2>2. SummaryShapes' /\ Tasked' /\ CopiesFit' /\ FiledFit'
    BY <2>1, StepKeeps DEF SummaryShapes, Phases
  <2>3. SlotsHeld'
    BY <2>1, SlotsKept DEF Working
  <2> QED BY <2>2, <2>3
<1>2. ASSUME NEW a \in Asks, NEW f \in Retries, Retry(f, a) PROVE SummariesInv'
  <2>1. /\ f \in Goroutines /\ f \notin Asks
        /\ phase' = [phase EXCEPT ![f] = "window"] /\ task' = [task EXCEPT ![f] = retry[a]]
        /\ retry[a] \in Requests
        /\ UNCHANGED <<ring, said, cache, running, entries, retry>>
    BY <1>2, SummariesAssumption DEF Retry, Reaches, Goroutines, SummaryShapes
  <2>2. SummaryShapes' /\ Tasked' /\ CopiesFit' /\ FiledFit'
    BY <2>1, StepKeeps DEF SummaryShapes, Phases
  <2>3. SlotsHeld'
    <3>1. Busy' = Busy /\ \A b \in Busy : task'[b] = task[b]
      BY <2>1 DEF Busy, Goroutines, SummaryShapes
    <3> QED BY <2>1, <3>1 DEF SlotsHeld
  <2> QED BY <2>2, <2>3
<1>3. ASSUME NEW e \in cache, Expire(e) PROVE SummariesInv'
  <2>1. cache' \subseteq cache /\ UNCHANGED <<ring, said, running, phase, task, entries, retry>>
    BY <1>3 DEF Expire
  <2> QED BY <2>1, FitsOn DEF SummaryShapes, Tasked, CopiesFit, FiledFit, SlotsHeld, Busy
<1>4. CASE WindowSlides
  BY <1>4, FitsOn DEF WindowSlides, SummaryShapes, Tasked, CopiesFit, FiledFit, SlotsHeld, Busy
<1>5. CASE SummariesRestart
  <2>1. SummaryShapes'
    BY <1>5 DEF SummariesRestart, SummaryShapes, Phases, Goroutines
  <2>2. \A p \in Goroutines : phase'[p] \in {"idle", "done"}
    BY <1>5 DEF SummariesRestart, Goroutines
  <2>3. Tasked' /\ CopiesFit' /\ FiledFit'
    BY <1>5, <2>2 DEF SummariesRestart, Tasked, CopiesFit, FiledFit
  <2>4. SlotsHeld'
    <3>1. Busy' = {} /\ running' = {}
      BY <1>5, <2>2 DEF Busy, Working, Goroutines, SummariesRestart
    <3> QED BY <3>1 DEF SlotsHeld
  <2> QED BY <2>1, <2>3, <2>4
<1> QED BY <1>1, <1>2, <1>3, <1>4, <1>5

LEMMA SummariesInvInit == SummariesInit => SummariesInv
<1> SUFFICES ASSUME SummariesInit PROVE SummariesInv
  OBVIOUS
<1>1. SummaryShapes
  BY DEF SummariesInit, SummaryShapes, Goroutines, Phases
<1>2. Tasked /\ CopiesFit /\ FiledFit
  BY DEF SummariesInit, Tasked, CopiesFit, FiledFit, Goroutines
<1>3. SlotsHeld
  <2>1. Busy = {}
    BY DEF SummariesInit, Busy, Working
  <2> QED BY <2>1 DEF SummariesInit, SlotsHeld
<1> QED BY <1>1, <1>2, <1>3 DEF SummariesInv

LEMMA SummariesInvStep == SummariesInv /\ [SummariesNext]_summaryVars => SummariesInv'
<1> SUFFICES ASSUME SummariesInv, [SummariesNext]_summaryVars PROVE SummariesInv'
  OBVIOUS
<1>1. CASE SummariesNext
  BY <1>1, RecordingKeeps, CommandKeeps, AnswerKeeps, EndsKeep DEF SummariesNext, Goroutines
<1>2. CASE UNCHANGED summaryVars
  BY <1>2, FitsOn DEF summaryVars, SummariesInv, SummaryShapes, Tasked, CopiesFit, FiledFit, SlotsHeld, Busy
<1> QED BY <1>1, <1>2

\* However commands, retries, messages, panics and restarts interleave, the
\* invariant holds.
THEOREM SummariesInvCorrect == SummariesSpec => []SummariesInv
BY SummariesInvInit, SummariesInvStep, PTL DEF SummariesSpec

\* What the cache would give again was made from exactly the messages of the
\* present window (summarize/cache.go: keyed by the last message).
THEOREM CacheFreshCorrect == SummariesSpec => []CacheFresh
<1>1. SummariesInv => CacheFresh
  <2> SUFFICES ASSUME SummariesInv, NEW e \in cache,
                      Window(e.key.chat, e.key.n) # <<>>,
                      Last(Window(e.key.chat, e.key.n)) = e.key.last
               PROVE  e.of = Window(e.key.chat, e.key.n)
    BY DEF CacheFresh
  <2>1. /\ e.key.chat \in Chats /\ e.key.n \in Nat \ {0}
        /\ e.key.last = Last(e.of) /\ Fits(e.key.chat, e.key.n, e.of)
    BY SummariesAssumption DEF SummariesInv, FiledFit, Keys
  <2>2. ring[e.key.chat] \in Seq(said)
    BY <2>1 DEF SummariesInv, SummaryShapes
  <2>3. ring[e.key.chat] # <<>> /\ Last(ring[e.key.chat]) = e.key.last
    BY <2>1, <2>2, NewestEnds DEF Window
  <2> QED BY <2>1, <2>3 DEF Fits
<1> QED BY <1>1, SummariesInvCorrect, PTL

\* A chat's slot is taken just as long as a command works for it, and no two
\* commands work for one chat, whatever fails or panics (summarize/service.go:
\* TryAcquire and Release).
THEOREM SlotsHeldCorrect == SummariesSpec => []SlotsHeld
BY SummariesInvCorrect, PTL DEF SummariesInv

-----------------------------------------------------------------------------
(* Summaries.                                                              *)

\* The newest of a window are no more than that, and no more than asked for.
LEMMA NewestFew ==
  ASSUME NEW S, NEW s \in Seq(S), NEW n \in Nat \ {0}
  PROVE  /\ Newest(s, n) \in Seq(S)
         /\ Len(Newest(s, n)) <= Len(s) /\ Len(Newest(s, n)) <= n
<1> DEFINE i == IF n < Len(s) THEN Len(s) - n + 1 ELSE 1
<1>1. Newest(s, n) = SubSeq(s, i, Len(s)) /\ i \in Nat \ {0} /\ Len(s) \in Nat
  BY DEF Newest
<1>2. Len(SubSeq(s, i, Len(s))) = IF i <= Len(s) THEN Len(s) - i + 1 ELSE 0
  BY <1>1
<1>3. Newest(s, n) \in Seq(S)
  BY NewestEnds
<1> QED BY <1>1, <1>2, <1>3

LEMMA WindowsAre ==
  ASSUME NEW w \in Seq(Texts), Len(w) <= MaxPerChat
  PROVE  w \in Windows
<1>1. w \in [1..Len(w) -> Texts] /\ Len(w) \in 0..MaxPerChat
  BY SummariesAssumption
<1> QED BY <1>1 DEF Windows

Distinct(s) == \A i, j \in 1..Len(s) : s[i] = s[j] => i = j
In(s, e) == \E i \in 1..Len(s) : s[i] = e

\* A chat is taken out of the list, and the others stay.
LEMMA TakenOut ==
  ASSUME NEW S, NEW s \in Seq(S), NEW e, Distinct(s)
  PROVE  LET r == RemoveFirst(s, e)
         IN /\ r \in Seq(S) /\ Distinct(r)
            /\ Len(r) <= Len(s) /\ (In(s, e) => Len(r) + 1 = Len(s))
            /\ ~In(r, e)
            /\ \A x : x # e /\ In(s, x) => In(r, x)
<1>1. CASE ~In(s, e)
  BY <1>1 DEF RemoveFirst, In
<1>2. CASE In(s, e)
  <2> DEFINE I == {i \in 1..Len(s) : s[i] = e}
  <2>1. IsFiniteSet(I) /\ I \subseteq Nat /\ I # {}
    <3>1. IsFiniteSet(1..Len(s))
      BY FS_Interval
    <3> QED BY <1>2, <3>1, FS_Subset DEF In
  <2>2. PICK m \in I : \A x \in I : m <= x
    BY <2>1, Extremes
  <2>3. RemoveFirst(s, e) = RemoveAt(s, Min(I))
    BY <1>2, <2>1, Zenon DEF In, RemoveFirst, SelectInSeq
  <2>4. Min(I) \in I
    BY <2>2 DEF Min
  <2>5. PICK k \in 1..Len(s) : s[k] = e /\ RemoveFirst(s, e) = SubSeq(s, 1, k - 1) \o SubSeq(s, k + 1, Len(s))
    BY <2>3, <2>4 DEF RemoveAt
  <2> DEFINE a == SubSeq(s, 1, k - 1)
             b == SubSeq(s, k + 1, Len(s))
             r == a \o b
  <2>6. /\ a \in Seq(S) /\ Len(a) = k - 1 /\ \A i \in 1..(k - 1) : a[i] = s[i]
    OBVIOUS
  <2>7. /\ b \in Seq(S) /\ Len(b) = Len(s) - k /\ \A i \in 1..(Len(s) - k) : b[i] = s[i + k]
    OBVIOUS
  <2>8. Len(s) \in Nat /\ k \in Nat
    OBVIOUS
  <2> HIDE DEF a, b
  <2>9. /\ r \in Seq(S) /\ Len(r) = Len(a) + Len(b)
        /\ \A i \in 1..(Len(a) + Len(b)) : r[i] = IF i <= Len(a) THEN a[i] ELSE b[i - Len(a)]
    BY <2>6, <2>7, ConcatProperties
  <2> HIDE DEF r
  <2>10. r \in Seq(S) /\ Len(r) + 1 = Len(s)
    BY <2>6, <2>7, <2>8, <2>9
  <2>11. \A i \in 1..Len(r) : r[i] = IF i < k THEN s[i] ELSE s[i + 1]
    <3> SUFFICES ASSUME NEW i \in 1..Len(r) PROVE r[i] = IF i < k THEN s[i] ELSE s[i + 1]
      OBVIOUS
    <3>1. CASE i < k
      BY <2>6, <2>8, <2>9, <3>1
    <3>2. CASE ~(i < k)
      <4>1. i - Len(a) = i - k + 1 /\ i - k + 1 \in 1..(Len(s) - k) /\ r[i] = b[i - Len(a)]
        BY <2>6, <2>7, <2>8, <2>9, <3>2
      <4>2. PICK j \in 1..(Len(s) - k) : j = i - k + 1
        BY <4>1
      <4>3. b[j] = s[j + k] /\ j + k = i + 1 /\ j = i - Len(a)
        BY <2>7, <2>8, <4>1, <4>2
      <4> QED BY <3>2, <4>1, <4>3
    <3> QED BY <3>1, <3>2
  <2> HIDE DEF r, I
  <2>12. Distinct(r)
    <3> SUFFICES ASSUME NEW i \in 1..Len(r), NEW j \in 1..Len(r), r[i] = r[j] PROVE i = j
      BY DEF Distinct
    <3>1. Len(r) \in Nat /\ Len(s) = Len(r) + 1
      BY <2>10
    <3>2. PICK x, y : /\ x = IF i < k THEN i ELSE i + 1
                      /\ y = IF j < k THEN j ELSE j + 1
      OBVIOUS
    <3>3. x \in 1..Len(s) /\ y \in 1..Len(s) /\ r[i] = s[x] /\ r[j] = s[y]
      BY <2>11, <3>1, <3>2
    <3>4. x = y
      BY <3>3 DEF Distinct
    <3> QED BY <2>8, <3>2, <3>4
  <2>13. ~In(r, e)
    <3> SUFFICES ASSUME NEW i \in 1..Len(r) PROVE r[i] # e
      BY DEF In
    <3>1. i \in 1..Len(s) /\ i + 1 \in 1..Len(s) /\ (i < k => i # k) /\ (~(i < k) => i + 1 # k)
      BY <2>10, <2>8
    <3>2. \A l \in 1..Len(s) : s[l] = e => l = k
      BY <2>5 DEF Distinct
    <3> QED BY <2>11, <3>1, <3>2
  <2>14. ASSUME NEW x, x # e, In(s, x) PROVE In(r, x)
    <3>1. PICK i \in 1..Len(s) : s[i] = x
      BY <2>14 DEF In
    <3>2. CASE i < k
      <4>1. i \in 1..Len(r) /\ r[i] = x
        BY <2>10, <2>11, <3>1, <3>2
      <4> QED BY <4>1 DEF In
    <3>3. CASE i > k
      <4>1. i - 1 \in 1..Len(r) /\ r[i - 1] = x
        BY <2>10, <2>11, <3>1, <3>3
      <4> QED BY <4>1 DEF In
    <3> QED BY <2>5, <2>14, <3>1, <3>2, <3>3
  <2>15. RemoveFirst(s, e) = r
    BY <2>5 DEF r, a, b
  <2> QED BY <2>10, <2>12, <2>13, <2>14, <2>15
<1> QED BY <1>1, <1>2

\* The head of a list taken off, and another chat put at its end.
LEMMA TailOf ==
  ASSUME NEW S, NEW s \in Seq(S), Len(s) > 0, Distinct(s)
  PROVE  /\ Tail(s) \in Seq(S) /\ Len(Tail(s)) = Len(s) - 1 /\ Distinct(Tail(s))
         /\ \A x : In(Tail(s), x) => In(s, x)
         /\ \A x : x # Head(s) /\ In(s, x) => In(Tail(s), x)
<1>1. Tail(s) \in Seq(S) /\ Len(Tail(s)) = Len(s) - 1 /\ s # <<>>
  OBVIOUS
<1>2. \A i \in 1..Len(Tail(s)) : i + 1 \in 1..Len(s) /\ Tail(s)[i] = s[i + 1]
  BY <1>1
<1>3. Distinct(Tail(s)) /\ \A x : In(Tail(s), x) => In(s, x)
  BY <1>1, <1>2 DEF Distinct, In
<1>4. ASSUME NEW x, x # Head(s), In(s, x) PROVE In(Tail(s), x)
  <2>1. PICK i \in 1..Len(s) : s[i] = x
    BY <1>4 DEF In
  <2>2. i # 1
    BY <1>4, <2>1
  <2>3. i - 1 \in 1..Len(Tail(s)) /\ Tail(s)[i - 1] = s[i]
    BY <1>1, <1>2, <2>2
  <2> QED BY <2>1, <2>3 DEF In
<1> QED BY <1>1, <1>3, <1>4

LEMMA PutAtEnd ==
  ASSUME NEW S, NEW s \in Seq(S), NEW e \in S, Distinct(s), ~In(s, e)
  PROVE  /\ Append(s, e) \in Seq(S) /\ Len(Append(s, e)) = Len(s) + 1 /\ Distinct(Append(s, e))
         /\ In(Append(s, e), e) /\ \A x : In(s, x) => In(Append(s, e), x)
<1> DEFINE r == Append(s, e)
<1>1. r \in Seq(S) /\ Len(r) = Len(s) + 1 /\ Len(s) \in Nat
  OBVIOUS
<1>2. \A i \in 1..Len(r) : r[i] = IF i = Len(s) + 1 THEN e ELSE s[i]
  OBVIOUS
<1> HIDE DEF r
<1>3. \A i \in 1..Len(s) : s[i] # e
  BY DEF In
<1>4. Distinct(r)
  BY <1>1, <1>2, <1>3 DEF Distinct
<1>5. In(r, e)
  <2>1. Len(r) \in 1..Len(r) /\ r[Len(r)] = e
    BY <1>1, <1>2
  <2> QED BY <2>1 DEF In
<1>6. \A x : In(s, x) => In(r, x)
  BY <1>1, <1>2 DEF In
<1> QED BY <1>1, <1>4, <1>5, <1>6 DEF r

Bounded ==
  /\ \A c \in Chats : Len(ring[c]) <= MaxPerChat /\ (ring[c] # <<>> => In(byRecord, c))
  /\ byRecord \in Seq(Chats) /\ Len(byRecord) <= MaxChats /\ Distinct(byRecord)
  /\ \A p \in Goroutines : Len(entries[p]) <= MaxPerChat
  /\ \A e \in cache : Len(e.of) <= MaxPerChat
  /\ gcalls \in 0..GlobalMax

LEMMA RecordBounded ==
  ASSUME SummaryShapes, Bounded, NEW c \in Chats, NEW m \in Texts, Record(c, m)
  PROVE  Bounded'
<1> USE DEF Bounded
<1> DEFINE others == RemoveFirst(byRecord, c)
           full   == ring[c] = <<>> /\ Len(others) >= MaxChats
           kept  == IF full THEN Tail(others) ELSE others
<1>1. /\ byRecord' = Append(kept, c)
      /\ ring' = [d \in Chats |-> IF d = c THEN Newest(Append(ring[c], m), MaxPerChat)
                                  ELSE IF full /\ d = Head(others) THEN <<>> ELSE ring[d]]
      /\ UNCHANGED <<entries, cache, gcalls>>
  BY DEF Record
<1>2. /\ others \in Seq(Chats) /\ Distinct(others) /\ ~In(others, c)
      /\ Len(others) <= Len(byRecord) /\ (In(byRecord, c) => Len(others) + 1 = Len(byRecord))
      /\ \A x : x # c /\ In(byRecord, x) => In(others, x)
  BY TakenOut
<1>3. MaxChats \in Nat \ {0} /\ MaxPerChat \in Nat \ {0} /\ Len(byRecord) \in Nat /\ Len(others) \in Nat
  BY <1>2, SummariesAssumption
<1> HIDE DEF others
<1>4. /\ kept \in Seq(Chats) /\ Distinct(kept) /\ ~In(kept, c) /\ Len(kept) < MaxChats
      /\ \A x : x # c /\ In(byRecord, x) /\ ~(full /\ x = Head(others)) => In(kept, x)
  <2>1. CASE full
    <3>1. /\ Tail(others) \in Seq(Chats) /\ Len(Tail(others)) = Len(others) - 1
          /\ Distinct(Tail(others))
          /\ \A x : In(Tail(others), x) => In(others, x)
          /\ \A x : x # Head(others) /\ In(others, x) => In(Tail(others), x)
      BY <1>2, <1>3, <2>1, TailOf
    <3> QED BY <1>2, <1>3, <2>1, <3>1
  <2>2. CASE ~full
    BY <1>2, <1>3, <2>2
  <2> QED BY <2>1, <2>2
<1> HIDE DEF kept, full
<1>5. /\ byRecord' \in Seq(Chats) /\ Len(byRecord') <= MaxChats /\ Distinct(byRecord)'
      /\ In(byRecord, c)' /\ \A x : In(kept, x) => In(byRecord', x)
  <2>1. LET r == Append(kept, c)
        IN /\ r \in Seq(Chats) /\ Len(r) = Len(kept) + 1 /\ Distinct(r)
           /\ In(r, c) /\ \A x : In(kept, x) => In(r, x)
    BY <1>4, PutAtEnd
  <2>2. Len(kept) \in Nat
    BY <1>4
  <2> QED BY <1>1, <1>3, <1>4, <2>1, <2>2 DEF Distinct, In
<1>6. ASSUME NEW d \in Chats
      PROVE  Len(ring'[d]) <= MaxPerChat /\ (ring'[d] # <<>> => In(byRecord, d)')
  <2>1. CASE d = c
    <3>1. Append(ring[c], m) \in Seq(Texts)
      BY DEF SummaryShapes
    <3>2. Len(Newest(Append(ring[c], m), MaxPerChat)) <= MaxPerChat
      BY <1>3, <3>1, NewestFew
    <3> QED BY <1>1, <1>5, <2>1, <3>2
  <2>2. CASE d # c /\ full /\ d = Head(others)
    BY <1>1, <1>3, <2>2
  <2>3. CASE d # c /\ ~(full /\ d = Head(others))
    <3>1. ring'[d] = ring[d]
      BY <1>1, <2>3
    <3>2. ring[d] # <<>> => In(kept, d)
      BY <1>4, <2>3
    <3> QED BY <3>1, <3>2, <1>5 DEF In
  <2> QED BY <2>1, <2>2, <2>3
<1> QED BY <1>1, <1>5, <1>6

LEMMA SummariesTypesCorrect == SummariesSpec => []SummariesTypeOK
<1>1. SummariesInit => Bounded
  BY SummariesAssumption DEF SummariesInit, Bounded, Goroutines, Distinct
<1>2. ASSUME SummariesInv, Bounded, [SummariesNext]_summaryVars PROVE Bounded'
  <2> USE DEF Bounded, SummariesInv
  <2>0. MaxPerChat \in Nat \ {0} /\ GlobalMax \in Nat \ {0} /\ MaxChats \in Nat \ {0}
    BY SummariesAssumption
  <2>1. ASSUME NEW c \in Chats, NEW m \in Texts, Record(c, m) PROVE Bounded'
    BY <1>2, <2>1, RecordBounded
  <2>2. ASSUME NEW a \in Asks, Reserve(a) PROVE Bounded'
    BY <1>2, <2>0, <2>2 DEF Reserve, In, Distinct
  <2>3. ASSUME NEW p \in Goroutines, TakeWindow(p) PROVE Bounded'
    <3>1. CASE UNCHANGED entries
      BY <1>2, <2>3, <3>1 DEF TakeWindow, In, Distinct
    <3>2. CASE entries' = [entries EXCEPT ![p] = Window(task[p].chat, task[p].n)]
      <4>1. task[p] \in Requests
        BY <1>2, <2>3 DEF Tasked, TakeWindow
      <4>2. task[p].chat \in Chats /\ task[p].n \in Nat \ {0}
        BY <4>1, SummariesAssumption DEF Requests
      <4>3. Len(Window(task[p].chat, task[p].n)) <= MaxPerChat
        <5>1. ring[task[p].chat] \in Seq(Texts) /\ Len(ring[task[p].chat]) <= MaxPerChat
          BY <1>2, <4>2 DEF SummaryShapes
        <5>2. LET w == Newest(ring[task[p].chat], task[p].n)
              IN w \in Seq(Texts) /\ Len(w) <= Len(ring[task[p].chat])
          BY <4>2, <5>1, NewestFew
        <5> QED BY <2>0, <5>1, <5>2 DEF Window
      <4>4. \A q \in Goroutines : Len(entries'[q]) <= MaxPerChat
        BY <1>2, <3>2, <4>3 DEF SummaryShapes
      <4> QED BY <1>2, <2>3, <4>4 DEF TakeWindow, In, Distinct
    <3> QED BY <2>3, <3>1, <3>2 DEF TakeWindow
  <2>4. ASSUME NEW p \in Goroutines, Complete(p) PROVE Bounded'
    <3>1. \A e \in cache' : Len(e.of) <= MaxPerChat
      BY <1>2, <2>4 DEF Complete, File
    <3>2. \A q \in Goroutines : Len(entries'[q]) <= MaxPerChat
      BY <1>2, <2>0, <2>4 DEF Complete, SummaryShapes
    <3> QED BY <1>2, <2>4, <3>1, <3>2 DEF Complete, In, Distinct
  <2>5. ASSUME NEW a \in Asks, Panic(a) PROVE Bounded'
    <3>1. \A q \in Goroutines : Len(entries'[q]) <= MaxPerChat
      BY <1>2, <2>0, <2>5 DEF Panic, SummaryShapes
    <3> QED BY <1>2, <2>5, <3>1 DEF Panic, In, Distinct
  <2>6. CASE SummariesRestart
    BY <1>2, <2>0, <2>6 DEF SummariesRestart, In, Distinct, Goroutines
  <2>7. CASE WindowSlides
    <3>1. gcalls' \in 0..GlobalMax
      BY <1>2, <2>0, <2>7 DEF WindowSlides
    <3> QED BY <1>2, <2>7, <3>1 DEF WindowSlides, In, Distinct
  <2>8. ASSUME NEW a \in Asks, \/ Ask(a) \/ TryCache(a) \/ Placeholder(a)
                               \/ \E f \in Retries : Retry(f, a)
        PROVE  UNCHANGED <<ring, byRecord, entries, cache, gcalls>>
    BY <2>8 DEF Ask, TryCache, Placeholder, Retry
  <2>9. ASSUME NEW p \in Goroutines, Edit(p)
        PROVE  UNCHANGED <<ring, byRecord, entries, cache, gcalls>>
    BY <2>9 DEF Edit
  <2>10. ASSUME NEW e \in cache, Expire(e) PROVE Bounded'
    BY <1>2, <2>10 DEF Expire, In, Distinct
  <2>11. CASE UNCHANGED <<ring, byRecord, entries, cache, gcalls>>
    BY <1>2, <2>11 DEF In, Distinct
  <2>12. CASE UNCHANGED summaryVars
    BY <2>11, <2>12 DEF summaryVars
  <2> QED BY <1>2, <2>1, <2>2, <2>3, <2>4, <2>5, <2>6, <2>7, <2>8, <2>9, <2>10, <2>11, <2>12
             DEF SummariesNext, Goroutines
<1>3. ASSUME SummariesInv, Bounded PROVE SummariesTypeOK
  <2> USE <1>3 DEF SummariesInv, Bounded
  <2>1. \A w \in Seq(said) : Len(w) <= MaxPerChat => w \in Windows
    <3>1. Seq(said) \subseteq Seq(Texts)
      BY DEF SummaryShapes
    <3> QED BY <3>1, WindowsAre
  <2>2. ring \in [Chats -> Windows] /\ entries \in [Goroutines -> Windows]
    BY <2>1 DEF SummaryShapes
  <2>3. \A e \in cache : e.key \in Keys /\ e.of \in Windows
    BY <2>1 DEF FiledFit, Fits
  <2> QED BY <2>2, <2>3 DEF SummariesTypeOK, SummaryShapes, SlotsHeld, Busy, Goroutines
<1> QED BY <1>1, <1>2, <1>3, SummariesInvCorrect, PTL DEF SummariesSpec

-----------------------------------------------------------------------------
(* Side by side.                                                           *)

LEMMA EachInit ==
  Init => /\ RepostInit /\ ReferralInit /\ ReputationInit /\ SummariesInit /\ BirthdaysInit
          /\ RekeyInit /\ GuessInit /\ HangmanInit /\ QuizInit /\ BattleInit /\ DiceInit
          /\ MonthInit /\ AdmissionInit /\ CooldownInit /\ AdminCacheInit
BY DEF Init

\* A step is one of the feature that runs; to the others it is a stutter.
LEMMA EachNext ==
  ASSUME [Next]_vars
  PROVE  /\ [RepostNext]_repostVars /\ [ReferralNext]_referralVars
         /\ [ReputationNext]_reputationVars /\ [SummariesNext]_summaryVars
         /\ [BirthdaysNext]_birthdayVars /\ [RekeyNext]_rekeyVars
         /\ [GuessNext]_guessVars /\ [HangmanNext]_hangmanVars /\ [QuizNext]_quizVars
         /\ [BattleNext]_battleVars /\ [DiceNext]_diceVars /\ [MonthNext]_monthVars
         /\ [AdmissionNext]_admissionVars /\ [CooldownNext]_cooldownVars
         /\ [AdminCacheNext]_adminVars
<1>1. CASE Next
  BY <1>1 DEF Next
<1>2. CASE UNCHANGED vars
  BY <1>2 DEF vars
<1> QED BY <1>1, <1>2

\* Every behaviour of the whole is one of each feature, so that what is proved of
\* a feature holds of the whole.
THEOREM EachAlone ==
  Spec => /\ RepostSpec /\ ReferralSpec /\ ReputationSpec /\ SummariesSpec /\ BirthdaysSpec
          /\ RekeySpec /\ GuessSpec /\ HangmanSpec /\ QuizSpec /\ BattleSpec /\ DiceSpec
          /\ MonthSpec /\ AdmissionSpec /\ CooldownSpec /\ AdminCacheSpec
<1>1. Spec => /\ RepostSpec /\ ReferralSpec /\ ReputationSpec /\ SummariesSpec /\ BirthdaysSpec
  BY EachInit, EachNext, PTL DEF Spec, RepostSpec, ReferralSpec, ReputationSpec, SummariesSpec, BirthdaysSpec
<1>2. Spec => RekeySpec /\ GuessSpec /\ HangmanSpec /\ QuizSpec /\ BattleSpec
  BY EachInit, EachNext, PTL DEF Spec, RekeySpec, GuessSpec, HangmanSpec, QuizSpec, BattleSpec
<1>3. Spec => DiceSpec /\ MonthSpec /\ AdmissionSpec /\ CooldownSpec /\ AdminCacheSpec
  BY EachInit, EachNext, PTL DEF Spec, DiceSpec, MonthSpec, AdmissionSpec, CooldownSpec, AdminCacheSpec
<1> QED BY <1>1, <1>2, <1>3

\* Of the feature that runs, the state is of its types: the tables, queues and
\* goroutines of each hold what they are declared to hold, whatever their number.
THEOREM FeaturesTypesCorrect == Spec => []FeaturesTypeOK
<1>1. Spec => []ReferralTypeOK
  <2>1. ReferralInv => ReferralTypeOK
    BY DEF ReferralInv
  <2> QED BY <2>1, EachAlone, ReferralInvCorrect, PTL
<1>2. Spec => []BirthdaysTypeOK
  <2>1. BirthdaysInv => BirthdaysTypeOK
    BY DEF BirthdaysInv
  <2> QED BY <2>1, EachAlone, BirthdaysInvCorrect, PTL
<1>3. Spec => [](GuessTypeOK /\ HangmanTypeOK /\ BattleTypeOK /\ DiceTypeOK)
  <2>1. /\ GuessInv => GuessTypeOK
        /\ HangmanInv => HangmanTypeOK
        /\ BattleInv => BattleTypeOK
        /\ DiceInv => DiceTypeOK
    BY DEF GuessInv, HangmanInv, BattleInv, DiceInv
  <2> QED BY <2>1, EachAlone, GuessInvCorrect, HangmanInvCorrect, BattleInvCorrect, DiceInvCorrect, PTL
<1>4. Spec => [](AdmissionTypeOK /\ CooldownTypeOK /\ AdminCacheTypeOK)
  <2>1. /\ AdmissionInv => AdmissionTypeOK
        /\ CooldownInv => CooldownTypeOK
        /\ AdminCacheInv => AdminCacheTypeOK
    BY DEF AdmissionInv, CooldownInv, AdminCacheInv
  <2> QED BY <2>1, EachAlone, AdmissionInvCorrect, CooldownInvCorrect, AdminCacheInvCorrect, PTL
<1>5. Spec => [](RepostTypeOK /\ ReputationTypeOK /\ SummariesTypeOK)
  BY EachAlone, RepostTypesCorrect, ReputationTypesCorrect, SummariesTypesCorrect, PTL
<1>6. Spec => [](RekeyTypeOK /\ QuizTypeOK /\ MonthTypeOK)
  BY EachAlone, RekeyTypesCorrect, QuizTypesCorrect, MonthTypesCorrect, PTL
<1>7. /\ RepostTypeOK /\ ReferralTypeOK /\ ReputationTypeOK /\ SummariesTypeOK /\ BirthdaysTypeOK
      /\ RekeyTypeOK /\ GuessTypeOK /\ HangmanTypeOK /\ QuizTypeOK /\ BattleTypeOK /\ DiceTypeOK
      /\ MonthTypeOK /\ AdmissionTypeOK /\ CooldownTypeOK /\ AdminCacheTypeOK
      => FeaturesTypeOK
  BY DEF FeaturesTypeOK
<1> QED BY <1>1, <1>2, <1>3, <1>4, <1>5, <1>6, <1>7, PTL

\* The games are fair: a number named and a word announced end their round, a
\* board can be played on, a battle is decided by the votes of its window, and the
\* best roll is kept, with any number of players and of handlers at once.
THEOREM GamesFairCorrect == Spec => []GamesFair
<1>1. FirstGuessWins /\ BoardPlayable /\ BattleFair /\ BestKept => GamesFair
  BY DEF GamesFair
<1> QED BY <1>1, EachAlone, FirstGuessWinsCorrect, BoardPlayableCorrect, BattleFairCorrect, BestKeptCorrect, PTL

\* The rows of a month in the buffer, with the flushes, in the database and lost
\* with a process make up the messages counted, and so do the reports made of them
\* (domain/monthstats/buffer.go: takePending and its putting back).
THEOREM MonthsCountedCorrect == Spec => []MonthsCounted
<1>1. MonthsAddUp => MonthsCounted
  BY DEF MonthsCounted
<1> QED BY <1>1, EachAlone, MonthsAddUpCorrect, PTL

\* What the features keep, they keep side by side: everything that is checked of
\* the composition, for any constants.
THEOREM FeaturesKeep ==
  Spec => /\ [](/\ FeaturesTypeOK /\ OriginalKept /\ NobodyLeftInSilence /\ CatalogueSound
                /\ CreditsReported /\ CacheFresh /\ GreetedOnce /\ LinksSurvive /\ RowsAccounted
                /\ OneWinner /\ GamesFair /\ MonthsCounted /\ GatesKept)
          /\ DeletedAsShown
<1>1. Spec => [](OriginalKept /\ NobodyLeftInSilence /\ CatalogueSound /\ CreditsReported)
  BY EachAlone, OriginalKeptCorrect, NobodyLeftInSilenceCorrect, CatalogueSoundCorrect,
     CreditsReportedCorrect, PTL
<1>2. Spec => [](CacheFresh /\ GreetedOnce /\ LinksSurvive /\ RowsAccounted /\ OneWinner /\ GatesKept)
  BY EachAlone, CacheFreshCorrect, GreetedOnceCorrect, LinksSurviveCorrect,
     RowsAccountedCorrect, OneWinnerCorrect, GatesKeptCorrect, PTL
<1>3. Spec => DeletedAsShown
  BY EachAlone, DeletedAsShownCorrect, PTL
<1> QED BY <1>1, <1>2, <1>3, FeaturesTypesCorrect, GamesFairCorrect, MonthsCountedCorrect, PTL
=============================================================================
