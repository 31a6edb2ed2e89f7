------------------------------- MODULE Guess --------------------------------
(***************************************************************************)
(* /guess in one chat (games/guess/service.go, storage/guess_repo.go,      *)
(* bot/games_guess.go): a round is read in one transaction and written or  *)
(* deleted in another, and every command has a goroutine of its own.       *)
(*                                                                         *)
(* The number itself only says whether a guess is right.  A stored round   *)
(* is always active, so that field is left out.                            *)
(***************************************************************************)
EXTENDS Integers, FiniteSets, Functions

CONSTANTS
  Guessers,      \* people
  Guesses,       \* commands handled at once
  NoRound,
  StaleAfter,    \* hours an untouched round holds up the next
  MaxHour, MaxRound, MaxAttempts,  \* bounds of the model
  MaxNamed                         \* of the answers to one round

ASSUME GuessAssumption == /\ {StaleAfter, MaxRound} \subseteq Nat \ {0}
                          /\ {MaxHour, MaxAttempts, MaxNamed} \subseteq Nat
                          /\ IsFiniteSet(Guessers) /\ IsFiniteSet(Guesses)

VARIABLES
  guessHour,   \* the clock
  guessRound,  \* bucket guess_round: the chat's round or NoRound
  guessWins,   \* bucket guess_wins: wins of each
  rounds,      \* history: rounds begun so far, the name of the next one
  command,     \* what a goroutine is at, and the round it read
  named,       \* history: commands of a round that were right
  crossed      \* history: rounds read by a command while another held them

guessVars == <<guessHour, guessRound, guessWins, rounds, command, named, crossed>>

GuessRounds == [id : 1..MaxRound, started : 0..MaxHour, attempts : 0..MaxAttempts]
NoCommand == [at |-> "idle"]

GuessTypeOK ==
  /\ guessHour \in 0..MaxHour
  /\ guessRound \in GuessRounds \cup {NoRound}
  /\ guessWins \in [Guessers -> Nat]
  /\ rounds \in 0..MaxRound
  /\ command \in [Guesses -> {NoCommand}
       \cup [at : {"start"}, date : 0..MaxHour]
       \cup [at : {"miss", "hit", "credit"}, by : Guessers, read : GuessRounds]]
  /\ named \in [1..MaxRound -> 0..MaxNamed]
  /\ crossed \subseteq 1..MaxRound

GuessInit ==
  /\ guessHour = 0 /\ guessRound = NoRound /\ rounds = 0
  /\ guessWins = [u \in Guessers |-> 0]
  /\ command = [g \in Guesses |-> NoCommand]
  /\ named = [r \in 1..MaxRound |-> 0]
  /\ crossed = {}

----------------------------------------------------------------------------
\* Rounds some goroutine has read and not yet acted upon.
InHand == {command[g].read.id : g \in {g \in Guesses : command[g].at \in {"miss", "hit"}}}

Proceeds(g, c) == command' = [command EXCEPT ![g] = c]
Ends(g) == Proceeds(g, NoCommand)

\* "/guess": a round in play is left alone.  The age of it is told by the date
\* of the message, which may have waited.
StartGuess(g) ==
  /\ command[g] = NoCommand
  /\ \E date \in 0..guessHour :
       /\ guessRound # NoRound => date - guessRound.started >= StaleAfter
       /\ Proceeds(g, [at |-> "start", date |-> date])
  /\ UNCHANGED <<guessHour, guessRound, guessWins, rounds, named, crossed>>

\* PutRound of a new round, unless the database fails.
PutNewRound(g) ==
  /\ command[g].at = "start"
  /\ \/ /\ rounds < MaxRound
        /\ rounds' = rounds + 1
        /\ guessRound' = [id |-> rounds', started |-> command[g].date, attempts |-> 0]
     \/ UNCHANGED <<rounds, guessRound>>
  /\ Ends(g)
  /\ UNCHANGED <<guessHour, guessWins, named, crossed>>

\* "/guess N": without a round there is nothing to guess.
ReadGuess(g, u) ==
  /\ command[g] = NoCommand /\ guessRound # NoRound
  /\ \E verdict \in {"miss", "hit"} :
       Proceeds(g, [at |-> verdict, by |-> u, read |-> guessRound])
  /\ crossed' = crossed \cup (InHand \cap {guessRound.id})
  /\ UNCHANGED <<guessHour, guessRound, guessWins, rounds, named>>

\* Too low or too high: the round as it was read goes back, one attempt older.
PutAttempt(g) ==
  /\ command[g].at = "miss"
  /\ \/ /\ command[g].read.attempts < MaxAttempts
        /\ guessRound' = [command[g].read EXCEPT !.attempts = @ + 1]
     \/ UNCHANGED guessRound
  /\ Ends(g)
  /\ UNCHANGED <<guessHour, guessWins, rounds, named, crossed>>

\* The number is named: whatever round the chat has now is deleted.  When that
\* fails, the command fails and the round goes on.
EndRound(g) ==
  /\ command[g].at = "hit"
  /\ \/ /\ named[command[g].read.id] < MaxNamed
        /\ guessRound' = NoRound
        /\ Proceeds(g, [command[g] EXCEPT !.at = "credit"])
        /\ named' = [named EXCEPT ![command[g].read.id] = @ + 1]
     \/ Ends(g) /\ UNCHANGED <<guessRound, named>>
  /\ UNCHANGED <<guessHour, guessWins, rounds, crossed>>

\* The leaderboard, at best.
IncrementWin(g) ==
  /\ command[g].at = "credit"
  /\ guessWins' \in {guessWins, [guessWins EXCEPT ![command[g].by] = @ + 1]}
  /\ Ends(g)
  /\ UNCHANGED <<guessHour, guessRound, rounds, named, crossed>>

GuessTick ==
  /\ guessHour < MaxHour /\ guessHour' = guessHour + 1
  /\ UNCHANGED <<guessRound, guessWins, rounds, command, named, crossed>>

\* The process dies with its commands.
GuessRestart ==
  /\ command' = [g \in Guesses |-> NoCommand]
  /\ UNCHANGED <<guessHour, guessRound, guessWins, rounds, named, crossed>>

GuessNext ==
  \/ \E g \in Guesses :
       \/ StartGuess(g) \/ PutNewRound(g) \/ PutAttempt(g) \/ EndRound(g) \/ IncrementWin(g)
       \/ \E u \in Guessers : ReadGuess(g, u)
  \/ GuessTick \/ GuessRestart

GuessSpec == GuessInit /\ [][GuessNext]_guessVars

----------------------------------------------------------------------------
\* Unless two commands held a round at once, it has one winner and does not
\* come back to the store after that, whatever became of other rounds; and the
\* leaderboard never shows more wins than there were right answers.
FirstGuessWins ==
  /\ \A r \in 1..MaxRound \ crossed :
       named[r] > 0 => /\ named[r] = 1
                       /\ guessRound # NoRound => guessRound.id # r
  /\ SumFunction(guessWins) <= SumFunction(named)
=============================================================================
