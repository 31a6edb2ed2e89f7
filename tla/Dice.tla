-------------------------------- MODULE Dice --------------------------------
(***************************************************************************)
(* /dice (bot/games_dice.go, games/dice/service.go, storage/dice_repo.go): *)
(* Telegram rolls, and the best roll of a chat is kept for each emoji.  One*)
(* of these records is modelled.  Every command has a goroutine of its own,*)
(* and reads the record in one transaction and writes it in another.       *)
(***************************************************************************)
EXTENDS Naturals

CONSTANTS
  Throwers,  \* people
  Throws,    \* commands handled at once
  MaxValue,  \* the best roll of the emoji
  NoBest

ASSUME DiceAssumption == MaxValue \in Nat \ {0}

VARIABLES
  leader,  \* bucket dice_leaderboard
  throw,   \* what a goroutine is at
  best     \* history: the best roll since a record was replaced unread, that one included

diceVars == <<leader, throw, best>>

Results == [value : 1..MaxValue, by : Throwers]
NoThrow == [at |-> "idle"]

DiceTypeOK ==
  /\ leader \in Results \cup {NoBest} /\ best \in Results \cup {NoBest}
  /\ throw \in [Throws -> {NoThrow} \cup [at : {"read"}, roll : Results]
                  \cup [at : {"write"}, roll : Results, prev : Results \cup {NoBest}]]

DiceInit == leader = NoBest /\ best = NoBest /\ throw = [t \in Throws |-> NoThrow]

----------------------------------------------------------------------------
\* A strict improvement: the first to reach a value keeps the record.
Improves(roll, prev) == prev # NoBest => roll.value > prev.value

\* Telegram's answer to SendDice has the value; without it the command ends.
HandleDice(t, by) ==
  /\ throw[t] = NoThrow
  /\ \E v \in 1..MaxValue :
       throw' = [throw EXCEPT ![t] = [at |-> "read", roll |-> [value |-> v, by |-> by]]]
  /\ UNCHANGED <<leader, best>>

Counts(roll) == best' = IF best # NoBest => best.value < roll.value THEN roll ELSE best

\* A roll that improves on what is read is to be written, and any other leaves
\* the record alone; when it cannot be read the command ends.
LoadRecord(t) ==
  /\ throw[t].at = "read"
  /\ \/ /\ Improves(throw[t].roll, leader)
        /\ throw' = [throw EXCEPT ![t] = [at |-> "write", roll |-> @.roll, prev |-> leader]]
        /\ UNCHANGED best
     \/ /\ ~Improves(throw[t].roll, leader)
        /\ throw' = [throw EXCEPT ![t] = NoThrow]
        /\ Counts(throw[t].roll)
     \/ throw' = [throw EXCEPT ![t] = NoThrow] /\ UNCHANGED best
  /\ UNCHANGED leader

\* Put writes over whatever is there by now, read or not, or fails.
StoreRecord(t) ==
  /\ throw[t].at = "write"
  /\ throw' = [throw EXCEPT ![t] = NoThrow]
  /\ \/ /\ leader' = throw[t].roll
        /\ IF leader = throw[t].prev THEN Counts(throw[t].roll) ELSE best' = throw[t].roll
     \/ UNCHANGED <<leader, best>>

\* The rolls at hand are lost.
DiceRestart ==
  /\ throw' = [t \in Throws |-> NoThrow]
  /\ UNCHANGED <<leader, best>>

DiceNext ==
  \/ \E t \in Throws :
       (\E u \in Throwers : HandleDice(t, u)) \/ LoadRecord(t) \/ StoreRecord(t)
  \/ DiceRestart

DiceSpec == DiceInit /\ [][DiceNext]_diceVars

----------------------------------------------------------------------------
\* The record is the best roll that met no error, and of the first to throw it,
\* of those since a handler last replaced a record that it had not read.  Such a
\* handler may put a lower roll over a higher one; the record counts on from there.
BestKept == leader = best
=============================================================================
