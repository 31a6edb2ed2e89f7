-------------------------------- MODULE Quiz --------------------------------
(***************************************************************************)
(* /quiz and /trivia (bot/games_quiz.go, games/quiz/store.go,              *)
(* bot/games_trivia.go): a question with buttons, whose first right tap    *)
(* wins.  Each game keeps the questions in play in a table in memory; the  *)
(* two share the leaderboard in the database (storage/quiz_repo.go).       *)
(*                                                                         *)
(* Every tap has a goroutine of its own.  A handler keeps a pointer to the *)
(* question it looked up and reads the winner from it without the lock:    *)
(* it may see the one or the other side of a MarkSolved, which the         *)
(* interleaving shows.  A button says whether it is right.                 *)
(***************************************************************************)
EXTENDS Naturals, FiniteSets

CONSTANTS
  Questions,   \* messages
  Verb,        \* the game each belongs to: "q" or "t", as in callback data
  Solvers,     \* people
  Taps,        \* taps handled at once
  Nobody

ASSUME QuizAssumption == /\ Verb \in [Questions -> {"q", "t"}] /\ Nobody \notin Solvers
                         /\ IsFiniteSet(Questions)

VARIABLES
  posted,     \* Telegram: questions whose buttons can be tapped
  asking,     \* posted by a handler that has not registered them yet
  inPlay,     \* the two tables, by message
  winner,     \* WinnerID of the question, in memory
  tap,        \* what a goroutine is at
  correct,    \* bucket of the leaderboard: CorrectCount of each
  declared,   \* Telegram: questions edited to show a winner
  credited    \* history: winners the leaderboard was told of

quizVars == <<posted, asking, inPlay, winner, tap, correct, declared, credited>>

NoTap == [at |-> "idle"]
Solutions == Questions \X Solvers

QuizTypeOK ==
  /\ posted \subseteq Questions /\ asking \subseteq posted /\ inPlay \subseteq posted
  /\ winner \in [Questions -> Solvers \cup {Nobody}]
  /\ tap \in [Taps -> {NoTap} \cup [at : {"look", "mark", "credit", "forget", "edit"},
                                     q : Questions, by : Solvers, right : BOOLEAN]]
  /\ correct \in [Solvers -> 0..Cardinality(Questions)]
  /\ declared \subseteq Solutions /\ credited \subseteq Solutions

QuizInit ==
  /\ posted = {} /\ asking = {} /\ inPlay = {} /\ declared = {} /\ credited = {}
  /\ winner = [q \in Questions |-> Nobody]
  /\ tap = [t \in Taps |-> NoTap]
  /\ correct = [u \in Solvers |-> 0]

----------------------------------------------------------------------------
\* The message first; when it cannot be sent there is no question.
Post(q) ==
  /\ q \notin posted
  /\ posted' = posted \cup {q} /\ asking' = asking \cup {q}
  /\ UNCHANGED <<inPlay, winner, tap, correct, declared, credited>>

PostQuiz(q) == Verb[q] = "q" /\ Post(q)
PostTrivia(q) == Verb[q] = "t" /\ Post(q)

\* Only then the table: taps in between find nothing.
Register(q) ==
  /\ q \in asking
  /\ asking' = asking \ {q} /\ inPlay' = inPlay \cup {q}
  /\ UNCHANGED <<posted, winner, tap, correct, declared, credited>>

At(t, s) == tap' = [tap EXCEPT ![t].at = s]
Leaves(t) == tap' = [tap EXCEPT ![t] = NoTap]

\* The predicates are tried in the order of registration: that of the trivia
\* takes its own taps, that of the quiz all that are left, and an unfamiliar
\* verb is an old button to either.
TriviaTakes(q) == Verb[q] = "t"
QuizTakes(q) == ~TriviaTakes(q) /\ Verb[q] = "q"

\* A tap on a question the table has; on any other it is answered and done.
TapButton(t, u, q) ==
  /\ tap[t] = NoTap /\ q \in inPlay
  /\ \E b \in BOOLEAN : tap' = [tap EXCEPT ![t] = [at |-> "look", q |-> q, by |-> u, right |-> b]]
  /\ UNCHANGED <<posted, asking, inPlay, winner, correct, declared, credited>>

\* A solved question and a wrong button are answered with a toast.
Look(t) ==
  /\ tap[t].at = "look"
  /\ IF winner[tap[t].q] = Nobody /\ tap[t].right THEN At(t, "mark") ELSE Leaves(t)
  /\ UNCHANGED <<posted, asking, inPlay, winner, correct, declared, credited>>

TapQuiz(t, u, q) == QuizTakes(q) /\ TapButton(t, u, q)
TapTrivia(t, u, q) == TriviaTakes(q) /\ TapButton(t, u, q)

\* Mutation: the winner is looked at before the lock only.
MarkUnchecked(t) ==
  /\ tap[t].at = "mark"
  /\ LET q == tap[t].q
     IN IF q \in inPlay
        THEN winner' = [winner EXCEPT ![q] = tap[t].by] /\ At(t, "credit")
        ELSE Leaves(t) /\ UNCHANGED winner
  /\ UNCHANGED <<posted, asking, inPlay, correct, declared, credited>>

\* MarkSolved: the first of those who saw no winner.
MarkSolved(t) ==
  /\ tap[t].at = "mark"
  /\ LET q == tap[t].q
     IN IF q \in inPlay /\ winner[q] = Nobody
        THEN winner' = [winner EXCEPT ![q] = tap[t].by] /\ At(t, "credit")
        ELSE Leaves(t) /\ UNCHANGED winner
  /\ UNCHANGED <<posted, asking, inPlay, correct, declared, credited>>

\* One transaction; its failure does not take the win back.
IncrementCorrect(t) ==
  /\ tap[t].at = "credit"
  /\ At(t, "forget")
  /\ \/ /\ correct' = [correct EXCEPT ![tap[t].by] = @ + 1]
        /\ credited' = credited \cup {<<tap[t].q, tap[t].by>>}
     \/ UNCHANGED <<correct, credited>>
  /\ UNCHANGED <<posted, asking, inPlay, winner, declared>>

Forget(t) ==
  /\ tap[t].at = "forget"
  /\ inPlay' = inPlay \ {tap[t].q}
  /\ At(t, "edit")
  /\ UNCHANGED <<posted, asking, winner, correct, declared, credited>>

\* The question shows its winner, if Telegram takes the edit.
ShowWinner(t) ==
  /\ tap[t].at = "edit"
  /\ declared' \in {declared, declared \cup {<<tap[t].q, tap[t].by>>}}
  /\ Leaves(t)
  /\ UNCHANGED <<posted, asking, inPlay, winner, correct, credited>>

\* The tables are gone, the buttons are not.
QuizRestart ==
  /\ asking' = {} /\ inPlay' = {}
  /\ winner' = [q \in Questions |-> Nobody]
  /\ tap' = [t \in Taps |-> NoTap]
  /\ UNCHANGED <<posted, correct, declared, credited>>

QuizNext ==
  \/ \E q \in Questions : PostQuiz(q) \/ PostTrivia(q) \/ Register(q)
  \/ \E t \in Taps :
       \/ Look(t) \/ MarkSolved(t) \/ IncrementCorrect(t) \/ Forget(t) \/ ShowWinner(t)
       \/ \E u \in Solvers, q \in Questions : TapQuiz(t, u, q) \/ TapTrivia(t, u, q)
  \/ QuizRestart

QuizSpec == QuizInit /\ [][QuizNext]_quizVars

----------------------------------------------------------------------------
\* A question, of either game, has one winner: the leaderboard is told of one
\* person once, and it is the one the message shows, however the taps ran
\* together and whatever failed.
OneWinner ==
  /\ \A a, b \in credited \cup declared : a[1] = b[1] => a = b
  /\ \A u \in Solvers : correct[u] = Cardinality({c \in credited : c[2] = u})
=============================================================================
