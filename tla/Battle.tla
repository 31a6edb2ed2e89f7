------------------------------- MODULE Battle -------------------------------
(***************************************************************************)
(* /battle (bot/games_battle.go, games/battle/battle.go): two messages are *)
(* voted on by reactions until the window closes.  All of it is in memory. *)
(*                                                                         *)
(* The command, the timer and each reaction have goroutines of their own.  *)
(* The window is measured from the command, the timer starts when all the  *)
(* messages are out.                                                       *)
(***************************************************************************)
EXTENDS Naturals, FiniteSets

CONSTANTS
  Fights,      \* battles
  Voters,      \* people
  Observers,   \* reactions handled at once
  Duration,    \* of the window
  MaxMoment    \* bound of the clock

ASSUME BattleAssumption == Duration \in Nat \ {0} /\ MaxMoment \in Nat

Sides == {"left", "right"}

VARIABLES
  moment,    \* the clock
  fight,     \* where the command or the timer of a battle is
  endsAt,    \* the window
  fires,     \* when the timer fires
  byID,      \* the registry
  byMsg,     \* battles whose two messages it knows
  votes,     \* the voters of each battle and side; late is history
  observer,  \* what a reaction's handler is at
  result     \* Telegram: results announced

battleVars == <<moment, fight, endsAt, fires, byID, byMsg, votes, observer, result>>

BattleStages == {"none", "header", "left", "right", "wire", "timer", "tallied", "over"}
Votes == [fight : Fights, side : Sides, by : Voters, late : BOOLEAN]
NoReaction == [at |-> "idle"]

BattleTypeOK ==
  /\ moment \in 0..MaxMoment
  /\ fight \in [Fights -> BattleStages]
  /\ endsAt \in [Fights -> Nat] /\ fires \in [Fights -> Nat]
  /\ byID \subseteq Fights /\ byMsg \subseteq byID
  /\ votes \subseteq Votes
  /\ observer \in [Observers -> {NoReaction} \cup [at : {"check", "record"}, vote : Votes]]
  /\ \A r \in result : r.fight \in Fights /\ r.votes \subseteq Votes

BattleInit ==
  /\ moment = 0
  /\ fight = [f \in Fights |-> "none"]
  /\ endsAt = [f \in Fights |-> 0] /\ fires = endsAt
  /\ byID = {} /\ byMsg = {} /\ votes = {} /\ result = {}
  /\ observer = [o \in Observers |-> NoReaction]

----------------------------------------------------------------------------
Stage(f, s) == fight' = [fight EXCEPT ![f] = s]

\* NewBattle and Add.
HandleBattle(f) ==
  /\ fight[f] = "none"
  /\ Stage(f, "header")
  /\ endsAt' = [endsAt EXCEPT ![f] = moment + Duration]
  /\ byID' = byID \cup {f}
  /\ UNCHANGED <<moment, fires, byMsg, votes, observer, result>>

NextMessage == [header |-> "left", left |-> "right", right |-> "wire"]
Unregister(f) == byID' = byID \ {f} /\ byMsg' = byMsg \ {f}

\* The header and the two sides, one message after the other; when one cannot
\* be sent the battle is taken back.
PostMessage(f) ==
  /\ fight[f] \in DOMAIN NextMessage
  /\ \/ /\ Stage(f, NextMessage[fight[f]])
        /\ UNCHANGED <<byID, byMsg>>
     \/ Stage(f, "over") /\ Unregister(f)
  /\ UNCHANGED <<moment, endsAt, fires, votes, observer, result>>

\* SetMessageIDs, and the timer: votes count from now on.
SetMessageIDs(f) ==
  /\ fight[f] = "wire"
  /\ Stage(f, "timer")
  /\ byMsg' = byMsg \cup ({f} \cap byID)
  /\ fires' = [fires EXCEPT ![f] = moment + Duration]
  /\ UNCHANGED <<moment, endsAt, byID, votes, observer, result>>

\* The timer tallies and announces, whether or not Telegram takes the message,
\* and forgets the battle after that; a handler that still holds it counts for
\* nobody.
Tally(f) ==
  /\ fight[f] = "timer" /\ moment >= fires[f]
  /\ Stage(f, "tallied")
  /\ \/ result' = result \cup {[fight |-> f, votes |-> {v \in votes : v.fight = f}]}
     \/ UNCHANGED result
  /\ UNCHANGED <<moment, endsAt, fires, byID, byMsg, votes, observer>>

RemoveTallied(f) ==
  /\ fight[f] = "tallied"
  /\ Stage(f, "over") /\ Unregister(f)
  /\ votes' = {v \in votes : v.fight # f}
  /\ UNCHANGED <<moment, endsAt, fires, observer, result>>

\* A reaction to a message the registry knows; taking one back is ignored.
LookupReaction(o, f, s, u) ==
  /\ observer[o] = NoReaction /\ f \in byMsg
  /\ observer' = [observer EXCEPT ![o] =
       [at |-> "check", vote |-> [fight |-> f, side |-> s, by |-> u, late |-> moment > endsAt[f]]]]
  /\ UNCHANGED <<moment, fight, endsAt, fires, byID, byMsg, votes, result>>

\* Mutation: the timer alone closes the window.
CheckNothing(o) ==
  /\ observer[o].at = "check"
  /\ observer' = [observer EXCEPT ![o].at = "record"]
  /\ UNCHANGED <<moment, fight, endsAt, fires, byID, byMsg, votes, result>>

\* After the window a reaction does not count.
CheckWindow(o) ==
  /\ observer[o].at = "check"
  /\ observer' = [observer EXCEPT ![o] =
       IF moment > endsAt[observer[o].vote.fight] THEN NoReaction ELSE [@ EXCEPT !.at = "record"]]
  /\ UNCHANGED <<moment, fight, endsAt, fires, byID, byMsg, votes, result>>

\* RecordVote: once for each side.  The object of a battle that was removed is
\* written too, and read by nobody.
RecordVote(o) ==
  /\ observer[o].at = "record"
  /\ LET v == observer[o].vote
         same == {w \in votes : w.fight = v.fight /\ w.side = v.side /\ w.by = v.by}
     IN votes' = IF same = {} /\ v.fight \in byID THEN votes \cup {v} ELSE votes
  /\ observer' = [observer EXCEPT ![o] = NoReaction]
  /\ UNCHANGED <<moment, fight, endsAt, fires, byID, byMsg, result>>

BattleTick ==
  /\ moment < MaxMoment /\ moment' = moment + 1
  /\ UNCHANGED <<fight, endsAt, fires, byID, byMsg, votes, observer, result>>

\* A restart forgets every battle.
BattleRestart ==
  /\ fight' = [f \in Fights |-> IF fight[f] = "none" THEN "none" ELSE "over"]
  /\ byID' = {} /\ byMsg' = {} /\ votes' = {}
  /\ observer' = [o \in Observers |-> NoReaction]
  /\ UNCHANGED <<moment, endsAt, fires, result>>

BattleNext ==
  \/ \E f \in Fights :
       \/ HandleBattle(f) \/ PostMessage(f) \/ SetMessageIDs(f) \/ Tally(f) \/ RemoveTallied(f)
  \/ \E o \in Observers :
       \/ CheckWindow(o) \/ RecordVote(o)
       \/ \E f \in Fights, s \in Sides, u \in Voters : LookupReaction(o, f, s, u)
  \/ BattleTick \/ BattleRestart

BattleSpec == BattleInit /\ [][BattleNext]_battleVars

----------------------------------------------------------------------------
\* A battle is announced once, from votes cast before its window closed, at
\* most one of a person on a side, although the timer runs on; and the registry
\* holds a battle just as long as somebody is still at it.
BattleFair ==
  /\ byID = {f \in Fights : fight[f] \notin {"none", "over"}}
  /\ byMsg = {f \in Fights : fight[f] \in {"timer", "tallied"}}
  /\ \A r \in result :
       /\ \A s \in result : s.fight = r.fight => s = r
       /\ \A v \in r.votes :
            /\ ~v.late
            /\ \A w \in r.votes : w.side = v.side /\ w.by = v.by => w = v
=============================================================================
