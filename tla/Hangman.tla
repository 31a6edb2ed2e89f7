------------------------------ MODULE Hangman -------------------------------
(***************************************************************************)
(* /hangman in one chat (games/hangman/service.go, storage/hangman_repo.go,*)
(* bot/games_hangman.go).  As in Guess, a round is read in one transaction *)
(* and written back whole or deleted in another.                           *)
(*                                                                         *)
(* A word is the set of its letters; the repository's words have no other  *)
(* characters.  A stored round is always active.                           *)
(***************************************************************************)
EXTENDS Integers, FiniteSets

CONSTANTS
  Letters,       \* after NormalizeLetter
  Words,         \* the words, as sets of letters
  Players,       \* commands handled at once
  NoBoard,
  MaxWrong,      \* the miss that loses
  StaleFor,      \* hours an idle round holds up the next
  LastHour, LastBoard, \* bounds of the model
  MostEnds             \* of the announcements of one word

ASSUME HangmanAssumption == /\ Words \subseteq (SUBSET Letters) \ {{}}
                            /\ {MaxWrong, StaleFor, LastBoard} \subseteq Nat \ {0}
                            /\ {LastHour, MostEnds} \subseteq Nat
                            /\ IsFiniteSet(Letters)

VARIABLES
  hangHour,   \* the clock
  board,      \* bucket hangman_round: the chat's round or NoBoard
  boards,     \* history: rounds begun so far
  turn,       \* what a goroutine is at, and the round as it would write it
  revealed,   \* history: rounds whose word was announced, and how often
  mixed       \* history: rounds read by a command while another held them

hangmanVars == <<hangHour, board, boards, turn, revealed, mixed>>

Boards == [id : 1..LastBoard, word : Words, used : SUBSET Letters,
           wrong : 0..Cardinality(Letters), started : 0..LastHour]
NoTurn == [at |-> "idle"]

HangmanTypeOK ==
  /\ hangHour \in 0..LastHour
  /\ board \in Boards \cup {NoBoard}
  /\ boards \in 0..LastBoard
  /\ turn \in [Players -> {NoTurn} \cup [at : {"start"}, date : 0..LastHour]
                          \cup [at : {"put", "end"}, next : Boards]]
  /\ revealed \in [1..LastBoard -> 0..MostEnds]
  /\ mixed \subseteq 1..LastBoard

HangmanInit ==
  /\ hangHour = 0 /\ board = NoBoard /\ boards = 0
  /\ turn = [p \in Players |-> NoTurn]
  /\ revealed = [r \in 1..LastBoard |-> 0]
  /\ mixed = {}

----------------------------------------------------------------------------
Moves(p, t) == turn' = [turn EXCEPT ![p] = t]
Rests(p) == Moves(p, NoTurn)

\* "/hangman": a round in play is shown and left alone.
StartHangman(p) ==
  /\ turn[p] = NoTurn
  /\ \E date \in 0..hangHour :
       /\ board # NoBoard => date - board.started >= StaleFor
       /\ Moves(p, [at |-> "start", date |-> date])
  /\ UNCHANGED <<hangHour, board, boards, revealed, mixed>>

PutNewBoard(p) ==
  /\ turn[p].at = "start"
  /\ \/ /\ boards < LastBoard
        /\ boards' = boards + 1
        /\ \E w \in Words :
             board' = [id |-> boards', word |-> w, used |-> {}, wrong |-> 0,
                       started |-> turn[p].date]
     \/ UNCHANGED <<board, boards>>
  /\ Rests(p)
  /\ UNCHANGED <<hangHour, revealed, mixed>>

fullyRevealed(b) == b.word \subseteq b.used
AfterLetter(b, l) == [b EXCEPT !.used = @ \cup {l},
                               !.wrong = IF l \in b.word THEN @ ELSE @ + 1]

\* The guess that ends the round: the last miss, or the last hidden letter.
Over(b, l) == IF l \in b.word THEN fullyRevealed(b) ELSE b.wrong >= MaxWrong

\* "/hangman x": a letter not used so far; a used one costs nothing.
GuessLetter(p, l) ==
  /\ turn[p] = NoTurn /\ board # NoBoard /\ l \notin board.used
  /\ LET next == AfterLetter(board, l)
     IN Moves(p, [at |-> IF Over(next, l) THEN "end" ELSE "put", next |-> next])
  /\ LET held == {turn[q].next.id : q \in {q \in Players : turn[q].at \in {"put", "end"}}}
     IN mixed' = mixed \cup (held \cap {board.id})
  /\ UNCHANGED <<hangHour, board, boards, revealed>>

\* The round goes back as this goroutine saw it.
PutBoard(p) ==
  /\ turn[p].at = "put"
  /\ board' \in {board, turn[p].next}
  /\ Rests(p)
  /\ UNCHANGED <<hangHour, boards, revealed, mixed>>

\* Won or lost: the chat's round is deleted and the word announced.
EndBoard(p) ==
  /\ turn[p].at = "end"
  /\ \/ /\ revealed[turn[p].next.id] < MostEnds
        /\ board' = NoBoard
        /\ revealed' = [revealed EXCEPT ![turn[p].next.id] = @ + 1]
     \/ UNCHANGED <<board, revealed>>
  /\ Rests(p)
  /\ UNCHANGED <<hangHour, boards, mixed>>

HangmanTick ==
  /\ hangHour < LastHour /\ hangHour' = hangHour + 1
  /\ UNCHANGED <<board, boards, turn, revealed, mixed>>

HangmanRestart ==
  /\ turn' = [p \in Players |-> NoTurn]
  /\ UNCHANGED <<hangHour, board, boards, revealed, mixed>>

HangmanNext ==
  \/ \E p \in Players :
       \/ StartHangman(p) \/ PutNewBoard(p) \/ PutBoard(p) \/ EndBoard(p)
       \/ \E l \in Letters : GuessLetter(p, l)
  \/ HangmanTick \/ HangmanRestart

HangmanSpec == HangmanInit /\ [][HangmanNext]_hangmanVars

----------------------------------------------------------------------------
\* The board of a chat can always be played on: the misses shown are the used
\* letters the word lacks, there are fewer of them than lose the game, and
\* something is still hidden, whichever of two commands wrote last.  Unless two
\* held it at once, a round whose word was announced stays over.
BoardPlayable ==
  /\ board # NoBoard => /\ board.wrong = Cardinality(board.used \ board.word)
                        /\ board.wrong < MaxWrong
                        /\ ~fullyRevealed(board)
  /\ \A r \in 1..LastBoard \ mixed :
       revealed[r] > 0 => revealed[r] = 1 /\ (board # NoBoard => board.id # r)
=============================================================================
