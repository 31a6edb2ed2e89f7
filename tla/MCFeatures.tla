----------------------------- MODULE MCFeatures -----------------------------
(* Model-checking instance of the features: the constants, and what bounds *)
(* the reposts, the referrals, the rekeying and the admission.             *)
EXTENDS Features, TLC

\* Repost: two links of a kind meet at the slots and in the index of videos,
\* and so does a TikTok video with a comment on it.
SitePairs == {{"tiktok"}, {"instagram"}, {"xpost"}, {"tiktok", "comment"}}

\* Referral: any two names are alike.
AllAlike == {{n, m} : n, m \in Names}

\* Reputation: a message of each person, and one of a bot.
RepMessages == {<<u>> : u \in Users \cup {Bot}}
RepAuthor   == [m \in RepMessages |-> m[1]]

\* Birthdays: three people and the ends of two Februaries.
Celebrants == {"ann", "bob", "cid"}
BornOn == [p \in Celebrants |-> IF p = "cid" THEN "Feb 28" ELSE "Feb 29"]
On(y, l, d) == [year |-> y, leap |-> l, date |-> d]
TwoYears == <<On(1, FALSE, "Feb 28"), On(1, FALSE, "Mar 1"),
              On(2, TRUE, "Feb 28"), On(2, TRUE, "Feb 29"), On(2, TRUE, "Mar 1")>>

\* Hangman: a word that two letters miss, and one of two letters.
TwoWords == {Letters \ Links, Links}

\* Rekey: three users' records of two months.
RowMonth == [r \in 1..3 |-> IF r = 3 THEN 2 ELSE 1]

\* Quiz: a question of each game.
QuizVerb == [q \in Questions |-> IF q = "capital" THEN "q" ELSE "t"]

\* Monthly statistics: the later message of January arrives first or not.
January == [a |-> [by |-> "ann", month |-> 1, ts |-> 2, runes |-> 1],
            b |-> [by |-> "bob", month |-> 1, ts |-> 1, runes |-> 2]]

\* Cooldown: a window that a sweep may fall into.
TwoTicks == [g \in Gates |-> 2]

\* Links are of the sites the feature that runs has use for.
MCInit == Init /\ {site[l] : l \in Links} \in IF feature = "repost" THEN SitePairs ELSE {{"tiktok"}}
MCSpec == MCInit /\ [][Next]_vars

\* The features take their values from the same two pairs, so that four
\* permutations serve them all.
Symm == UNION {Permutations(s) : s \in {Links, Flushers}}

\* Referral: two people meet over one name and one link; one person alone may
\* have two of each.
Narrow ==
  LET busy == {dialog[t] : t \in {t \in Tokens : dialog[t] # Unused}}
  IN Cardinality({d.actor : d \in busy} \cup {r.owner : r \in referrals}) = 2 =>
       /\ Cardinality({s.name : s \in services} \cup ({d.name : d \in busy} \cap Names)) <= 1
       /\ Cardinality({r.url : r \in referrals} \cup ({d.url : d \in busy} \cap Urls)) <= 1

\* Rekey: the migration turns to one table after the other, so that one of them
\* at a time, or the catalogue, is enough; three shares of its records.
OneTable ==
  /\ Cardinality({x[1] : x \in written} \cup (IF noted = 0 THEN {} ELSE {"chats"})
                                        \cup (IF refCount = 0 THEN {} ELSE {"referrals"})) <= 1
  /\ Cardinality(written) <= 3

\* Admission: who promotes or restricts a bot that is in the chat already is
\* nothing a handler looks at: the owner.
OwnerPromotes == \A u \in news : u.old # "left" /\ u.new # "left" => u.by = BotOwner
=============================================================================
