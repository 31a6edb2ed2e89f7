----------------------------- MODULE Once_proofs -----------------------------
(***************************************************************************)
(* Proofs about what happens once, or so many times, whatever overlaps,    *)
(* fails or is done again after a restart.                                 *)
(*                                                                         *)
(* A question of /quiz or /trivia has one winner, for any number of        *)
(* questions, people and taps handled at once.  Nobody is greeted twice in *)
(* a year, for any people and any stretch of the calendar around the end   *)
(* of February.  And the gates hold, for any strangers, changes of status, *)
(* commands, windows and callers: an unauthorized admission is undone and  *)
(* tells the owner of it so many times at most, a cooldown remembers what  *)
(* it has to, and who administers a chat is no older than what was heard.  *)
(*                                                                         *)
(* Of the other games, for any players, rounds, letters, sides and rolls:  *)
(* a battle is decided by the votes of its window, the best roll is kept   *)
(* and never made worse, a board can be played on until its word is        *)
(* announced, and nobody is given more wins at /guess than numbers named.  *)
(*                                                                         *)
(* And a message is counted in its month once, in the buffer, with a flush *)
(* or in the database, for any messages, writers, months and flushes.      *)
(***************************************************************************)
EXTENDS Quiz, Birthdays, Gates, Guess, Hangman, Battle, Dice, MonthStats, Sums_proofs, TLAPS

(* The quiz.                                                               *)

TapRecords == [at : {"look", "mark", "credit", "forget", "edit"},
               q : Questions, by : Solvers, right : BOOLEAN]

\* QuizTypeOK without the bound of the counts, which the rest implies.
Types ==
  /\ posted \subseteq Questions /\ asking \subseteq posted /\ inPlay \subseteq posted
  /\ winner \in [Questions -> Solvers \cup {Nobody}]
  /\ tap \in [Taps -> {NoTap} \cup TapRecords]
  /\ correct \in [Solvers -> Nat]
  /\ declared \subseteq Solutions /\ credited \subseteq Solutions

\* The taps whose MarkSolved succeeded, on their way to the leaderboard and to
\* the message.
Claims == {t \in Taps : tap[t].at \in {"credit", "forget", "edit"}}

\* The table knows of a claim, and nobody else has one.
ClaimsHeld ==
  /\ inPlay \cap asking = {}
  /\ \A t \in Claims : /\ winner[tap[t].q] = tap[t].by
                       /\ tap[t].q \in posted \ asking
  /\ \A s, t \in Claims : tap[s].q = tap[t].q => s = t

\* What was told agrees with the table while the question is in it, and with the
\* claim after that; and the question does not come back.
ToldOf(c) ==
  /\ c[1] \in posted \ asking
  /\ c[1] \in inPlay => winner[c[1]] = c[2]
  /\ \A t \in Claims : tap[t].q = c[1] => tap[t].by = c[2]

ToldAgree == \A c \in credited \cup declared : ToldOf(c)

\* A win is on its way to the leaderboard before the leaderboard has it.
NotYetCredited ==
  \A t \in Taps : tap[t].at = "credit" => \A c \in credited : c[1] # tap[t].q

OnePerQuestion == \A a, b \in credited \cup declared : a[1] = b[1] => a = b

Of(C, u) == {c \in C : c[2] = u}
Tallied == IsFiniteSet(credited) /\ \A u \in Solvers : correct[u] = Cardinality(Of(credited, u))

Agreed == Types /\ ClaimsHeld /\ ToldAgree /\ NotYetCredited /\ OnePerQuestion
QuizInv == Agreed /\ Tallied

----------------------------------------------------------------------------
\* A tally grows with the solution that is added to it.
LEMMA TallyGrows ==
  ASSUME NEW C, IsFiniteSet(C), NEW c, c \notin C, NEW u
  PROVE  Cardinality(Of(C \cup {c}, u)) = Cardinality(Of(C, u)) + (IF c[2] = u THEN 1 ELSE 0)
<1>1. IsFiniteSet(Of(C, u))
  BY FS_Subset DEF Of
<1>2. CASE c[2] = u
  <2>1. Of(C \cup {c}, u) = Of(C, u) \cup {c} /\ c \notin Of(C, u)
    BY <1>2 DEF Of
  <2>2. Cardinality(Of(C, u) \cup {c}) = Cardinality(Of(C, u)) + 1
    BY <1>1, <2>1, FS_AddElement
  <2> QED BY <1>2, <2>1, <2>2
<1>3. CASE c[2] # u
  <2>1. Of(C \cup {c}, u) = Of(C, u)
    BY <1>3 DEF Of
  <2>2. Cardinality(Of(C, u)) \in Nat
    BY <1>1, FS_CardinalityType
  <2> QED BY <1>3, <2>1, <2>2
<1> QED BY <1>2, <1>3

\* A tap moves on by itself.
LEMMA OneTapMoves ==
  ASSUME Types, NEW t \in Taps, NEW s, tap[t] # NoTap, At(t, s)
  PROVE  /\ tap'[t] = [tap[t] EXCEPT !.at = s]
         /\ tap'[t].at = s /\ tap'[t].q = tap[t].q /\ tap'[t].by = tap[t].by
         /\ \A r \in Taps \ {t} : tap'[r] = tap[r]
BY DEF Types, At, TapRecords

LEMMA OneTapLeaves ==
  ASSUME Types, NEW t \in Taps, Leaves(t)
  PROVE  tap'[t] = NoTap /\ \A r \in Taps \ {t} : tap'[r] = tap[r]
BY DEF Types, Leaves

----------------------------------------------------------------------------
\* Types.
LEMMA TypesHold == ASSUME Types, [QuizNext]_quizVars PROVE Types'
<1> USE DEF Types
<1>1. ASSUME NEW q \in Questions, PostQuiz(q) \/ PostTrivia(q) \/ Register(q) PROVE Types'
  BY <1>1 DEF PostQuiz, PostTrivia, Post, Register
<1>2. ASSUME NEW t \in Taps, NEW u \in Solvers, NEW q \in Questions, TapButton(t, u, q)
      PROVE  Types'
  BY <1>2 DEF TapButton, TapRecords
<1>3. ASSUME NEW t \in Taps, Look(t) PROVE Types'
  BY <1>3 DEF Look, At, Leaves, TapRecords, NoTap
<1>4. ASSUME NEW t \in Taps, MarkSolved(t) PROVE Types'
  <2>1. tap[t] \in TapRecords
    BY <1>4 DEF MarkSolved, NoTap
  <2> QED BY <1>4, <2>1 DEF MarkSolved, At, Leaves, TapRecords, NoTap
<1>5. ASSUME NEW t \in Taps, IncrementCorrect(t) PROVE Types'
  <2>1. tap[t] \in TapRecords
    BY <1>5 DEF IncrementCorrect, NoTap
  <2>2. tap' \in [Taps -> {NoTap} \cup TapRecords]
    BY <1>5, <2>1 DEF IncrementCorrect, At, TapRecords
  <2>3. correct' \in [Solvers -> Nat] /\ credited' \subseteq Solutions
    BY <1>5, <2>1 DEF IncrementCorrect, TapRecords, Solutions
  <2> QED BY <1>5, <2>2, <2>3 DEF IncrementCorrect
<1>6. ASSUME NEW t \in Taps, Forget(t) PROVE Types'
  BY <1>6 DEF Forget, At, TapRecords, NoTap
<1>7. ASSUME NEW t \in Taps, ShowWinner(t) PROVE Types'
  <2>1. tap[t] \in TapRecords
    BY <1>7 DEF ShowWinner, NoTap
  <2>2. declared' \subseteq Solutions
    BY <1>7, <2>1 DEF ShowWinner, TapRecords, Solutions
  <2> QED BY <1>7, <2>2 DEF ShowWinner, Leaves, NoTap
<1>8. ASSUME QuizRestart PROVE Types'
  BY <1>8 DEF QuizRestart
<1>9. CASE UNCHANGED quizVars
  BY <1>9 DEF quizVars
<1> QED BY <1>1, <1>2, <1>3, <1>4, <1>5, <1>6, <1>7, <1>8, <1>9
        DEF QuizNext, TapQuiz, TapTrivia

\* A step that makes no claim, tells nothing, puts no old question into the table
\* and takes back nobody's win keeps the agreement.
LEMMA Settles ==
  ASSUME Agreed, Types',
         \A t \in Claims' : /\ t \in Claims
                            /\ tap'[t].q = tap[t].q /\ tap'[t].by = tap[t].by
                            /\ tap'[t].at = "credit" => tap[t].at = "credit"
                            /\ winner'[tap[t].q] = winner[tap[t].q],
         \A q \in posted : q \in asking' => q \in asking,
         \A q \in inPlay' : q \in inPlay \cup asking /\ winner'[q] = winner[q],
         inPlay' \cap asking' = {},
         posted \subseteq posted', credited' = credited, declared' = declared
  PROVE  Agreed'
<1> USE DEF Agreed, Types
<1>1. ClaimsHeld'
  BY DEF ClaimsHeld
<1>2. ToldAgree'
  <2> SUFFICES ASSUME NEW c \in credited \cup declared PROVE ToldOf(c)'
    BY DEF ToldAgree
  <2>1. ToldOf(c)
    BY DEF ToldAgree
  <2>2. c[1] \in posted' \ asking'
    BY <2>1 DEF ToldOf
  <2>3. c[1] \in inPlay' => c[1] \in inPlay /\ winner'[c[1]] = winner[c[1]]
    BY <2>1 DEF ToldOf
  <2>4. \A t \in Claims' : tap'[t].q = c[1] => tap'[t].by = c[2]
    BY <2>1 DEF ToldOf
  <2> QED BY <2>1, <2>2, <2>3, <2>4 DEF ToldOf
<1>3. NotYetCredited'
  BY DEF NotYetCredited, Claims
<1>4. OnePerQuestion'
  BY DEF OnePerQuestion
<1> QED BY <1>1, <1>2, <1>3, <1>4

\* Nobody is told of a new winner while another is known.
LEMMA ClaimsWon ==
  ASSUME Agreed, NEW t \in Taps, MarkSolved(t), Types' PROVE Agreed'
<1> USE DEF Agreed
<1>1. tap[t] \in TapRecords /\ tap[t] # NoTap
  BY DEF Types, MarkSolved, NoTap
<1>2. CASE ~(tap[t].q \in inPlay /\ winner[tap[t].q] = Nobody)
  <2>1. Leaves(t) /\ UNCHANGED <<posted, asking, inPlay, winner, declared, credited>>
    BY <1>2 DEF MarkSolved
  <2>2. \A r \in Claims' : r \in Claims /\ tap'[r] = tap[r]
    BY <2>1, OneTapLeaves DEF Claims, NoTap
  <2> QED BY <2>1, <2>2, Settles DEF ClaimsHeld
<1>3. CASE tap[t].q \in inPlay /\ winner[tap[t].q] = Nobody
  <2> DEFINE q == tap[t].q
  <2>1. /\ At(t, "credit") /\ winner' = [winner EXCEPT ![q] = tap[t].by]
        /\ UNCHANGED <<posted, asking, inPlay, declared, credited>>
    BY <1>3 DEF MarkSolved
  <2>2. q \in Questions /\ winner'[q] = tap[t].by /\ \A p \in Questions \ {q} : winner'[p] = winner[p]
    BY <1>1, <2>1 DEF Types, TapRecords
  <2>3. /\ tap'[t].at = "credit" /\ tap'[t].q = q /\ tap'[t].by = tap[t].by
        /\ \A r \in Taps \ {t} : tap'[r] = tap[r]
    BY <1>1, <2>1, OneTapMoves
  <2>4. \A r \in Claims : tap[r].q # q /\ tap[r].q \in Questions
    <3> SUFFICES ASSUME NEW r \in Claims PROVE tap[r].q # q /\ tap[r].q \in Questions
      OBVIOUS
    <3>1. tap[r] \in TapRecords
      BY DEF Claims, Types, NoTap
    <3> QED BY <1>3, <3>1, QuizAssumption DEF ClaimsHeld, TapRecords
  <2>5. Claims' = Claims \cup {t}
    BY <2>3, <1>1 DEF Claims, MarkSolved
  <2>6. \A c \in credited \cup declared : c[1] # q
    BY <1>3, QuizAssumption DEF ToldAgree, ToldOf, Types, Solutions
  <2>7. ClaimsHeld'
    <3>1. t \notin Claims
      BY DEF MarkSolved, Claims
    <3>2. q \in posted \ asking
      BY <1>3 DEF ClaimsHeld, Types
    <3> QED BY <2>1, <2>2, <2>3, <2>4, <2>5, <3>1, <3>2 DEF ClaimsHeld, Claims
  <2>8. ToldAgree'
    BY <2>1, <2>2, <2>3, <2>4, <2>5, <2>6 DEF ToldAgree, ToldOf, Claims, Types, Solutions
  <2>9. NotYetCredited' /\ OnePerQuestion'
    BY <2>1, <2>3, <2>6 DEF NotYetCredited, OnePerQuestion
  <2> QED BY <2>7, <2>8, <2>9
<1> QED BY <1>2, <1>3

\* What a claim tells is what has been told of its question.
LEMMA ClaimTells ==
  ASSUME Agreed, NEW t \in Claims, NEW D, D = credited \cup declared \cup {<<tap[t].q, tap[t].by>>}
  PROVE  /\ \A a, b \in D : a[1] = b[1] => a = b
         /\ \A c \in D : ToldOf(c)
<1> USE DEF Agreed
<1> DEFINE d == <<tap[t].q, tap[t].by>>
<1>1. ToldOf(d)
  BY DEF ToldOf, ClaimsHeld
<1>2. \A c \in credited \cup declared : c[1] = d[1] => c = d
  <2> SUFFICES ASSUME NEW c \in credited \cup declared, c[1] = d[1] PROVE c = d
    OBVIOUS
  <2>1. c[2] = d[2]
    BY DEF ToldAgree, ToldOf
  <2>2. c = <<c[1], c[2]>>
    BY DEF Types, Solutions
  <2> QED BY <2>1, <2>2
<1>3. \A c \in D : ToldOf(c)
  BY <1>1 DEF ToldAgree
<1> QED BY <1>2, <1>3 DEF OnePerQuestion

LEMMA CreditAgrees ==
  ASSUME Agreed, NEW t \in Taps, IncrementCorrect(t), Types' PROVE Agreed'
<1> USE DEF Agreed
<1>1. t \in Claims /\ tap[t] # NoTap /\ tap[t].at = "credit"
  BY DEF IncrementCorrect, Claims, NoTap
<1>2. /\ tap'[t].at = "forget" /\ tap'[t].q = tap[t].q /\ tap'[t].by = tap[t].by
      /\ \A r \in Taps \ {t} : tap'[r] = tap[r]
  BY <1>1, OneTapMoves DEF IncrementCorrect
<1>3. UNCHANGED <<posted, asking, inPlay, winner, declared>>
  BY DEF IncrementCorrect
<1>4. credited' \in {credited, credited \cup {<<tap[t].q, tap[t].by>>}}
  BY DEF IncrementCorrect
<1>5. Claims' = Claims
  BY <1>1, <1>2 DEF Claims
<1>6. \A r \in Claims : tap'[r].q = tap[r].q /\ tap'[r].by = tap[r].by
  BY <1>1, <1>2 DEF Claims
<1>7. ClaimsHeld'
  BY <1>3, <1>5, <1>6 DEF ClaimsHeld
<1>8. ToldAgree' /\ OnePerQuestion'
  <2> DEFINE D == credited \cup declared \cup {<<tap[t].q, tap[t].by>>}
  <2>1. (credited \cup declared)' \subseteq D
    BY <1>3, <1>4
  <2>2. \A c \in D : ToldOf(c)
    BY <1>1, ClaimTells
  <2>3. \A c \in D : ToldOf(c)'
    BY <1>3, <1>5, <1>6, <2>2 DEF ToldOf
  <2>4. \A a, b \in D : a[1] = b[1] => a = b
    BY <1>1, ClaimTells
  <2> QED BY <2>1, <2>3, <2>4 DEF ToldAgree, OnePerQuestion
<1>9. NotYetCredited'
  <2> SUFFICES ASSUME NEW r \in Taps, tap'[r].at = "credit", NEW c \in credited'
               PROVE  c[1] # tap'[r].q
    BY DEF NotYetCredited
  <2>1. r # t /\ tap'[r] = tap[r] /\ r \in Claims
    BY <1>2 DEF Claims
  <2>2. tap[r].q # tap[t].q
    BY <1>1, <2>1 DEF ClaimsHeld
  <2> QED BY <1>4, <2>1, <2>2 DEF NotYetCredited
<1> QED BY <1>7, <1>8, <1>9

LEMMA ShowAgrees ==
  ASSUME Agreed, NEW t \in Taps, ShowWinner(t), Types' PROVE Agreed'
<1> USE DEF Agreed
<1>1. t \in Claims
  BY DEF ShowWinner, Claims
<1>2. tap'[t] = NoTap /\ \A r \in Taps \ {t} : tap'[r] = tap[r]
  BY OneTapLeaves DEF ShowWinner
<1>3. UNCHANGED <<posted, asking, inPlay, winner, credited>>
  BY DEF ShowWinner
<1>4. Claims' \subseteq Claims /\ \A r \in Claims' : tap'[r] = tap[r]
  BY <1>2 DEF Claims, NoTap
<1>5. ClaimsHeld'
  BY <1>3, <1>4 DEF ClaimsHeld
<1>6. ToldAgree' /\ OnePerQuestion'
  <2> DEFINE D == credited \cup declared \cup {<<tap[t].q, tap[t].by>>}
  <2>1. (credited \cup declared)' \subseteq D
    BY <1>3 DEF ShowWinner
  <2>2. \A c \in D : ToldOf(c)
    BY <1>1, ClaimTells
  <2>3. \A c \in D : ToldOf(c)'
    BY <1>3, <1>4, <2>2 DEF ToldOf
  <2>4. \A a, b \in D : a[1] = b[1] => a = b
    BY <1>1, ClaimTells
  <2> QED BY <2>1, <2>3, <2>4 DEF ToldAgree, OnePerQuestion
<1>7. NotYetCredited'
  BY <1>2, <1>3 DEF NotYetCredited, NoTap
<1> QED BY <1>5, <1>6, <1>7

LEMMA AgreedHolds == ASSUME Agreed, [QuizNext]_quizVars PROVE Agreed'
<1>1. Types'
  BY TypesHold DEF Agreed
<1> USE <1>1
<1>2. ASSUME NEW q \in Questions, PostQuiz(q) \/ PostTrivia(q) PROVE Agreed'
  <2>1. /\ q \notin posted /\ posted' = posted \cup {q} /\ asking' = asking \cup {q}
        /\ UNCHANGED <<inPlay, winner, tap, declared, credited>>
    BY <1>2 DEF PostQuiz, PostTrivia, Post
  <2>2. q \notin inPlay
    BY <2>1 DEF Agreed, Types
  <2> QED BY <2>1, <2>2, Settles DEF Claims, Agreed, ClaimsHeld
<1>3. ASSUME NEW q \in Questions, Register(q) PROVE Agreed'
  BY <1>3, Settles DEF Register, Claims, Agreed, ClaimsHeld
<1>4. ASSUME NEW t \in Taps, NEW u \in Solvers, NEW q \in Questions, TapButton(t, u, q)
      PROVE  Agreed'
  <2>1. /\ tap'[t].at = "look" /\ \A r \in Taps \ {t} : tap'[r] = tap[r]
        /\ UNCHANGED <<posted, asking, inPlay, winner, declared, credited>>
    BY <1>4 DEF TapButton, Agreed, Types
  <2> QED BY <2>1, Settles DEF Claims, Agreed, ClaimsHeld
<1>5. ASSUME NEW t \in Taps, Look(t) PROVE Agreed'
  <2>1. UNCHANGED <<posted, asking, inPlay, winner, declared, credited>>
    BY <1>5 DEF Look
  <2>2. tap[t] # NoTap
    BY <1>5 DEF Look, NoTap
  <2>3. /\ tap'[t].at \notin {"credit", "forget", "edit"}
        /\ \A r \in Taps \ {t} : tap'[r] = tap[r]
    <3>1. CASE At(t, "mark")
      <4>1. tap'[t].at = "mark" /\ \A r \in Taps \ {t} : tap'[r] = tap[r]
        BY <2>2, <3>1, OneTapMoves DEF Agreed
      <4> QED BY <4>1
    <3>2. CASE Leaves(t)
      <4>1. tap'[t] = NoTap /\ \A r \in Taps \ {t} : tap'[r] = tap[r]
        BY <3>2, OneTapLeaves DEF Agreed
      <4> QED BY <4>1 DEF NoTap
    <3> QED BY <1>5, <3>1, <3>2 DEF Look
  <2> QED BY <2>1, <2>3, Settles DEF Claims, Agreed, ClaimsHeld
<1>6. ASSUME NEW t \in Taps, Forget(t) PROVE Agreed'
  <2>1. inPlay' \subseteq inPlay /\ UNCHANGED <<posted, asking, winner, declared, credited>>
    BY <1>6 DEF Forget
  <2>2. tap[t] # NoTap /\ t \in Claims
    BY <1>6 DEF Forget, NoTap, Claims
  <2>3. /\ tap'[t].at = "edit" /\ tap'[t].q = tap[t].q /\ tap'[t].by = tap[t].by
        /\ \A r \in Taps \ {t} : tap'[r] = tap[r]
    BY <1>6, <2>2, OneTapMoves DEF Forget, Agreed
  <2> QED BY <2>1, <2>2, <2>3, Settles DEF Claims, Agreed, ClaimsHeld
<1>7. ASSUME QuizRestart PROVE Agreed'
  <2>1. Claims' = {} /\ inPlay' = {} /\ asking' = {}
    BY <1>7 DEF QuizRestart, Claims, NoTap
  <2> QED BY <1>7, <2>1, Settles DEF QuizRestart
<1>8. CASE UNCHANGED quizVars
  BY <1>8, Settles DEF quizVars, Claims, Agreed, ClaimsHeld
<1> QED BY <1>2, <1>3, <1>4, <1>5, <1>6, <1>7, <1>8, ClaimsWon, CreditAgrees, ShowAgrees
        DEF QuizNext, TapQuiz, TapTrivia

\* The leaderboard counts what it was told of.
LEMMA TalliedHolds ==
  ASSUME Agreed, Tallied, [QuizNext]_quizVars PROVE Tallied'
<1>1. ASSUME NEW t \in Taps, IncrementCorrect(t) PROVE Tallied'
  <2> DEFINE c == <<tap[t].q, tap[t].by>>
  <2>1. CASE UNCHANGED <<correct, credited>>
    BY <2>1 DEF Tallied
  <2>2. CASE correct' = [correct EXCEPT ![tap[t].by] = @ + 1] /\ credited' = credited \cup {c}
    <3>1. tap[t] \in TapRecords /\ c \notin credited
      BY <1>1 DEF IncrementCorrect, Agreed, Types, NotYetCredited, NoTap
    <3>2. IsFiniteSet(credited')
      BY <2>2, FS_AddElement DEF Tallied
    <3>3. ASSUME NEW u \in Solvers PROVE correct'[u] = Cardinality(Of(credited', u))
      <4>1. Cardinality(Of(credited', u)) = Cardinality(Of(credited, u)) + (IF c[2] = u THEN 1 ELSE 0)
        BY <2>2, <3>1, TallyGrows DEF Tallied
      <4>2. correct'[u] = correct[u] + (IF c[2] = u THEN 1 ELSE 0)
        BY <2>2, <3>1 DEF Agreed, Types, TapRecords
      <4> QED BY <4>1, <4>2 DEF Tallied
    <3> QED BY <3>2, <3>3 DEF Tallied
  <2> QED BY <1>1, <2>1, <2>2 DEF IncrementCorrect
<1>2. CASE UNCHANGED <<correct, credited>>
  BY <1>2 DEF Tallied
<1> QED BY <1>1, <1>2 DEF QuizNext, quizVars, PostQuiz, PostTrivia, Post, Register, TapQuiz,
        TapTrivia, TapButton, Look, MarkSolved, Forget, ShowWinner, QuizRestart

----------------------------------------------------------------------------
\* The agreement holds whatever taps overlap, fail or are cut off.
THEOREM QuizInvCorrect == QuizSpec => []QuizInv
<1>1. QuizInit => QuizInv
  <2> SUFFICES ASSUME QuizInit PROVE QuizInv
    OBVIOUS
  <2>1. Types
    BY DEF QuizInit, Types
  <2>2. Claims = {} /\ inPlay = {} /\ credited = {} /\ declared = {}
    BY DEF QuizInit, Claims, NoTap
  <2>3. Tallied
    <3>1. \A u \in Solvers : Of(credited, u) = {} /\ correct[u] = 0
      BY DEF QuizInit, Of
    <3> QED BY <2>2, <3>1, FS_EmptySet DEF Tallied
  <2> QED BY <2>1, <2>2, <2>3
          DEF QuizInv, Agreed, ClaimsHeld, ToldAgree, NotYetCredited, OnePerQuestion
<1>2. QuizInv /\ [QuizNext]_quizVars => QuizInv'
  BY AgreedHolds, TalliedHolds DEF QuizInv
<1> QED BY <1>1, <1>2, PTL DEF QuizSpec

\* One winner per question in the leaderboard and in the message
\* (MarkSolved, games/quiz/store.go:86-99).
THEOREM OneWinnerCorrect == QuizSpec => []OneWinner
<1>1. QuizInv => OneWinner
  BY DEF QuizInv, Agreed, OnePerQuestion, Tallied, Of, OneWinner
<1> QED BY <1>1, QuizInvCorrect, PTL

\* A person's solutions are of different questions.
LEMMA QuizTypesCorrect == QuizSpec => []QuizTypeOK
<1>1. ASSUME QuizInv PROVE QuizTypeOK
  <2> USE <1>1 DEF QuizInv, Agreed
  <2>1. ASSUME NEW u \in Solvers PROVE correct[u] \in 0..Cardinality(Questions)
    <3> DEFINE mine == Of(credited, u)
    <3>1. IsFiniteSet(mine) /\ correct[u] = Cardinality(mine)
      BY FS_Subset DEF Tallied, Of
    <3>2. mine \subseteq credited /\ mine \subseteq Solutions
      BY DEF Of, Types
    <3>3. \A a, b \in mine : a[1] = b[1] => a = b
      BY <3>2 DEF OnePerQuestion
    <3>4. [c \in mine |-> c[1]] \in Injection(mine, Questions)
      BY <3>2, <3>3 DEF Solutions, Injection, IsInjective
    <3> HIDE DEF mine
    <3> QED BY <3>1, <3>4, FS_Injection, FS_CardinalityType, QuizAssumption
  <2>2. correct \in [Solvers -> 0..Cardinality(Questions)]
    BY <2>1 DEF Types
  <2> QED BY <2>2 DEF QuizTypeOK, Types, TapRecords
<1> QED BY <1>1, QuizInvCorrect, PTL

----------------------------------------------------------------------------
(* Birthdays.                                                              *)

\* matches, of any day.
MatchesOn(p, d) ==
  \/ Born[p] = Calendar[d].date
  \/ Calendar[d].date = "Feb 28" /\ ~Calendar[d].leap /\ Born[p] = "Feb 29"

\* A run needs a process.  Between runs nothing is in hand, and a message goes when all are marked.
BirthdayInHand ==
  /\ ~process => runs = "asleep"
  /\ runs \in {"asleep", "list"} => greet = {} /\ chunk = {} /\ done = {}
  /\ runs = "send" => done = chunk
  /\ greet \cap chunk = {}

\* Who is to be greeted was born on the day, and has not been greeted, as far
\* as Telegram has said.
Deserved == \A p \in greet \cup chunk : matches(p) /\ (greeted[p] = 0 \/ p \in misheard)

\* Markers are of days gone by and of those in hand, and a marker that could
\* not be cleared is on record.
MarkersKnown ==
  /\ \A m \in markers : m[2] <= day
  /\ \A p \in greet : ~Marked(p)
  /\ \A p \in done : Marked(p)
  /\ \A p \in chunk \ done : Marked(p) => p \in cut

\* Who was greeted this year had a birthday, and if it is today the marker is
\* there.
Remembered ==
  \A p \in People : greeted[p] > 0 /\ p \notin misheard =>
    \E d \in 1..day : /\ Calendar[d].year = Calendar[day].year
                      /\ MatchesOn(p, d)
                      /\ d = day => Marked(p)

BirthdaysInv == /\ BirthdaysTypeOK /\ BirthdayInHand /\ Deserved /\ MarkersKnown /\ Remembered
                /\ GreetedOnce

----------------------------------------------------------------------------
\* Nobody has two birthdays in a year.
LEMMA OneBirthday ==
  ASSUME NEW p \in People, NEW d \in DOMAIN Calendar, NEW e \in DOMAIN Calendar,
         Calendar[d].year = Calendar[e].year, MatchesOn(p, d), MatchesOn(p, e)
  PROVE  d = e
<1>1. Calendar[d].leap = Calendar[e].leap
  BY CalendarAssumption
<1>2. CASE Calendar[d].date = Calendar[e].date
  BY <1>2, CalendarAssumption
<1>3. CASE Calendar[d].date # Calendar[e].date
  <2>1. /\ Calendar[d].date = "Feb 29" => Calendar[d].leap
        /\ Calendar[e].date = "Feb 29" => Calendar[e].leap
    BY CalendarAssumption
  <2> QED BY <1>1, <1>3, <2>1 DEF MatchesOn
<1> QED BY <1>2, <1>3

LEMMA DaysOfCalendar ==
  /\ DOMAIN Calendar = 1..Len(Calendar) /\ Len(Calendar) \in Nat \ {0}
<1> DEFINE S == [year : Nat, leap : BOOLEAN, date : Dates]
<1>1. Calendar \in Seq(S)
  BY CalendarAssumption
<1> HIDE DEF S
<1>2. DOMAIN Calendar = 1..Len(Calendar) /\ Len(Calendar) \in Nat
  BY <1>1
<1> QED BY <1>2, BirthdaysAssumption

LEMMA InvInit == BirthdaysInit => BirthdaysInv
<1> SUFFICES ASSUME BirthdaysInit PROVE BirthdaysInv
  OBVIOUS
<1>1. BirthdaysTypeOK
  <2>1. 1 \in DOMAIN Calendar
    BY DaysOfCalendar
  <2>2. greeted \in [People -> 0..Enough]
    BY DEF BirthdaysInit, Enough
  <2> QED BY <2>1, <2>2, Zenon DEF BirthdaysInit, BirthdaysTypeOK, Hours
<1>2. BirthdayInHand /\ Deserved /\ MarkersKnown /\ Remembered /\ GreetedOnce
  BY DEF BirthdaysInit, BirthdayInHand, Deserved, MarkersKnown, Remembered, GreetedOnce, Marked
<1> QED BY <1>1, <1>2 DEF BirthdaysInv

\* Starts, the hours, and the run's list.
LEMMA DayKeeps ==
  ASSUME BirthdaysInv, Start \/ Daily \/ Evening
  PROVE  BirthdaysInv'
<1> USE DEF BirthdaysInv
<1>1. BirthdaysTypeOK'
  BY DEF Start, Daily, Evening, BirthdaysTypeOK, Hours
<1>2. runs' = runs \/ (greet = {} /\ chunk = {} /\ done = {} /\ runs' # "send")
  <2>1. CASE Start \/ Daily
    BY <2>1 DEF Start, Daily, BirthdayInHand
  <2>2. CASE Evening
    BY <2>2 DEF Evening
  <2> QED BY <2>1, <2>2
<1>3. UNCHANGED <<day, greet, chunk, done, markers, greeted, misheard, cut>>
  BY DEF Start, Daily, Evening
<1>4. BirthdayInHand'
  BY <1>2, <1>3 DEF BirthdayInHand, Start, Daily, Evening
<1>5. Deserved' /\ MarkersKnown' /\ Remembered' /\ GreetedOnce'
  BY <1>3 DEF Deserved, MarkersKnown, Remembered, GreetedOnce, Marked, matches
<1> QED BY <1>1, <1>4, <1>5

LEMMA NextDayKeeps ==
  ASSUME BirthdaysInv, NextDay
  PROVE  BirthdaysInv'
<1> USE DEF BirthdaysInv
<1>1. day' = day + 1 /\ day' \in DOMAIN Calendar /\ day \in Nat /\ day' \in Nat
  BY DaysOfCalendar DEF NextDay, BirthdaysTypeOK
<1>2. greet = {} /\ chunk = {} /\ done = {} /\ runs = "asleep"
      /\ UNCHANGED <<process, runs, greet, chunk, done, markers>>
  BY DEF NextDay, BirthdayInHand
<1>3. CASE UNCHANGED <<greeted, misheard, cut>> /\ Calendar[day'].year = Calendar[day].year
  <2>1. BirthdaysTypeOK'
    BY <1>1, <1>2, <1>3 DEF NextDay, BirthdaysTypeOK, Hours
  <2>2. BirthdayInHand' /\ Deserved'
    BY <1>2 DEF BirthdayInHand, Deserved
  <2>3. \A p \in People : ~Marked(p)'
    BY <1>1, <1>2 DEF Marked, MarkersKnown
  <2>4. MarkersKnown'
    <3>1. \A m \in markers : m[2] <= day'
      <4> SUFFICES ASSUME NEW m \in markers PROVE m[2] <= day'
        OBVIOUS
      <4>1. m[2] \in DOMAIN Calendar /\ m[2] <= day
        BY DEF BirthdaysTypeOK, MarkersKnown
      <4> QED BY <1>1, <4>1, DaysOfCalendar
    <3> QED BY <1>2, <3>1 DEF MarkersKnown
  <2>5. Remembered'
    <3> SUFFICES ASSUME NEW p \in People, greeted[p] > 0, p \notin misheard
                 PROVE  \E d \in 1..day' : /\ Calendar[d].year = Calendar[day'].year
                                           /\ MatchesOn(p, d)
                                           /\ d = day' => Marked(p)'
      BY <1>3 DEF Remembered
    <3>1. PICK d \in 1..day : Calendar[d].year = Calendar[day].year /\ MatchesOn(p, d)
      BY DEF Remembered
    <3> QED BY <1>1, <1>3, <3>1
  <2>6. GreetedOnce'
    BY <1>3, <2>3 DEF GreetedOnce
  <2> QED BY <2>1, <2>2, <2>4, <2>5, <2>6
<1>4. CASE greeted' = [p \in People |-> 0] /\ misheard' = {} /\ cut' = {}
  <2>1. BirthdaysTypeOK'
    BY <1>1, <1>2, <1>4 DEF NextDay, BirthdaysTypeOK, Hours, Enough
  <2>2. BirthdayInHand' /\ Deserved'
    BY <1>2 DEF BirthdayInHand, Deserved
  <2>3. \A p \in People : ~Marked(p)'
    BY <1>1, <1>2 DEF Marked, MarkersKnown
  <2>4. MarkersKnown'
    <3>1. \A m \in markers : m[2] <= day'
      <4> SUFFICES ASSUME NEW m \in markers PROVE m[2] <= day'
        OBVIOUS
      <4>1. m[2] \in DOMAIN Calendar /\ m[2] <= day
        BY DEF BirthdaysTypeOK, MarkersKnown
      <4> QED BY <1>1, <4>1, DaysOfCalendar
    <3> QED BY <1>2, <3>1 DEF MarkersKnown
  <2>5. Remembered' /\ GreetedOnce'
    BY <1>4, <2>3 DEF Remembered, GreetedOnce
  <2> QED BY <2>1, <2>2, <2>4, <2>5
<1> QED BY <1>1, <1>3, <1>4 DEF NextDay

\* A run lists those who were not greeted, unless Telegram said they were not.
LEMMA ListKeeps ==
  ASSUME BirthdaysInv, List
  PROVE  BirthdaysInv'
<1> USE DEF BirthdaysInv
<1>1. PICK few \in SUBSET {p \in People : matches(p) /\ ~Marked(p)} :
        greet' = few /\ runs' = IF few = {} THEN "asleep" ELSE "mark"
  BY DEF List
<1>2. chunk = {} /\ done = {} /\ UNCHANGED <<day, hour, process, chunk, done, greeted, misheard, cut>>
  BY DEF List, BirthdayInHand
<1>3. markers' \subseteq markers
  BY DEF List
<1>4. day \in Nat /\ \A p \in People : Marked(p)' <=> Marked(p)
  <2>1. day \in Nat
    BY DaysOfCalendar DEF BirthdaysTypeOK
  <2> SUFFICES ASSUME NEW p \in People PROVE Marked(p)' <=> Marked(p)
    BY <2>1
  <2>2. CASE markers' = {m \in markers : m[2] + 2 >= day}
    BY <1>2, <2>1, <2>2 DEF Marked
  <2>3. CASE markers' = {m \in markers : m[2] + 1 >= day}
    BY <1>2, <2>1, <2>3 DEF Marked
  <2> QED BY <2>2, <2>3 DEF List
<1>5. BirthdaysTypeOK'
  BY <1>1, <1>2, <1>3 DEF BirthdaysTypeOK
<1>6. BirthdayInHand'
  BY <1>1, <1>2 DEF BirthdayInHand, List
<1>7. Deserved'
  <2> SUFFICES ASSUME NEW p \in few PROVE matches(p) /\ (greeted[p] = 0 \/ p \in misheard)
    BY <1>1, <1>2 DEF Deserved, matches
  <2>1. p \in People /\ matches(p) /\ ~Marked(p)
    BY <1>1
  <2>2. ASSUME greeted[p] # 0, p \notin misheard PROVE FALSE
    <3>1. greeted[p] > 0
      BY <2>1, <2>2 DEF BirthdaysTypeOK, Enough
    <3>2. PICK d \in 1..day : /\ Calendar[d].year = Calendar[day].year
                              /\ MatchesOn(p, d)
                              /\ d = day => Marked(p)
      BY <2>1, <2>2, <3>1 DEF Remembered
    <3>3. d \in DOMAIN Calendar /\ day \in DOMAIN Calendar
      BY DaysOfCalendar, <1>4 DEF BirthdaysTypeOK
    <3>4. MatchesOn(p, day)
      BY <2>1 DEF MatchesOn, matches
    <3>5. d = day
      BY <2>1, <3>2, <3>3, <3>4, OneBirthday
    <3> QED BY <2>1, <3>2, <3>5
  <2> QED BY <2>1, <2>2
<1>8. MarkersKnown'
  BY <1>1, <1>2, <1>3, <1>4 DEF MarkersKnown
<1>9. Remembered' /\ GreetedOnce'
  BY <1>2, <1>4 DEF Remembered, GreetedOnce
<1> QED BY <1>5, <1>6, <1>7, <1>8, <1>9

LEMMA TakeChunkKeeps ==
  ASSUME BirthdaysInv, TakeChunk
  PROVE  BirthdaysInv'
<1> USE DEF BirthdaysInv
<1>1. PICK few \in SUBSET greet : chunk' = few /\ greet' = greet \ few
  BY DEF TakeChunk
<1>2. runs = "mark" /\ chunk = {} /\ done = {}
      /\ UNCHANGED <<day, hour, process, runs, done, markers, greeted, misheard, cut>>
  BY DEF TakeChunk, BirthdaysTypeOK
<1>3. BirthdaysTypeOK'
  BY <1>1, <1>2 DEF BirthdaysTypeOK
<1>4. BirthdayInHand' /\ Deserved'
  BY <1>1, <1>2 DEF BirthdayInHand, Deserved, matches
<1>5. MarkersKnown' /\ Remembered' /\ GreetedOnce'
  BY <1>1, <1>2 DEF MarkersKnown, Remembered, GreetedOnce, Marked
<1> QED BY <1>3, <1>4, <1>5

\* The end of a chunk leaves no marker without a greeting behind.
LEMMA ChunkEnds ==
  ASSUME BirthdaysInv, ChunkDone, process, runs # "asleep",
         UNCHANGED <<day, hour, process, greet>>,
         markers' \subseteq People \X DOMAIN Calendar,
         \A m \in markers' : m[2] <= day,
         greeted' \in [People -> 0..Enough],
         misheard' \subseteq People, cut' \subseteq People,
         \A p \in greet : ~Marked(p)' /\ (greeted'[p] = 0 \/ p \in misheard'),
         Remembered', GreetedOnce'
  PROVE  BirthdaysInv'
<1> USE DEF BirthdaysInv
<1>1. chunk' = {} /\ done' = {} /\ runs' = IF greet = {} THEN "asleep" ELSE "mark"
  BY DEF ChunkDone
<1>2. BirthdaysTypeOK'
  BY <1>1 DEF BirthdaysTypeOK
<1>3. BirthdayInHand' /\ Deserved' /\ MarkersKnown'
  BY <1>1 DEF BirthdayInHand, Deserved, MarkersKnown, matches
<1> QED BY <1>2, <1>3

LEMMA MarkKeeps ==
  ASSUME BirthdaysInv, MarkGreeted
  PROVE  BirthdaysInv'
<1> USE DEF BirthdaysInv
<1>0. runs = "mark" /\ process /\ day \in DOMAIN Calendar /\ day \in Nat
      /\ UNCHANGED <<day, hour, process, greet, greeted, misheard, cut>>
  BY DaysOfCalendar DEF MarkGreeted, BirthdayInHand, BirthdaysTypeOK
<1>1. ASSUME NEW p \in chunk \ done,
             markers' = markers \cup {<<p, day>>}, done' = done \cup {p},
             runs' = IF done' = chunk THEN "send" ELSE "mark", UNCHANGED chunk
      PROVE  BirthdaysInv'
  <2>1. \A q \in People : Marked(q)' <=> Marked(q) \/ q = p
    BY <1>0, <1>1 DEF Marked
  <2>2. BirthdaysTypeOK'
    BY <1>0, <1>1 DEF BirthdaysTypeOK
  <2>3. BirthdayInHand' /\ Deserved'
    BY <1>0, <1>1 DEF BirthdayInHand, Deserved, matches
  <2>4. \A m \in markers' : m[2] <= day
    BY <1>0, <1>1 DEF MarkersKnown
  <2>5. MarkersKnown'
    BY <1>0, <1>1, <2>1, <2>4 DEF MarkersKnown, BirthdayInHand, BirthdaysTypeOK
  <2>6. Remembered'
    BY <1>0, <2>1 DEF Remembered
  <2>7. GreetedOnce'
    BY <1>0, <1>1, <2>1 DEF GreetedOnce
  <2> QED BY <2>2, <2>3, <2>5, <2>6, <2>7
<1>2. ASSUME done = {}, ChunkDone, UNCHANGED markers PROVE BirthdaysInv'
  <2>1. Remembered' /\ \A p \in People : Marked(p)' <=> Marked(p)
    BY <1>0, <1>2 DEF Remembered, Marked
  <2>2. GreetedOnce'
    BY <1>0, <1>2, <2>1 DEF GreetedOnce, MarkersKnown, ChunkDone
  <2>3. \A p \in greet : ~Marked(p)' /\ (greeted'[p] = 0 \/ p \in misheard')
    BY <1>0, <2>1 DEF MarkersKnown, Deserved, BirthdaysTypeOK
  <2> QED BY <1>0, <1>2, <2>1, <2>2, <2>3, ChunkEnds DEF MarkersKnown, BirthdaysTypeOK
<1>3. ASSUME runs' = "clear", UNCHANGED <<chunk, done, markers>> PROVE BirthdaysInv'
  <2>1. BirthdaysTypeOK'
    BY <1>0, <1>3 DEF BirthdaysTypeOK
  <2>2. BirthdayInHand' /\ Deserved' /\ MarkersKnown' /\ Remembered' /\ GreetedOnce'
    BY <1>0, <1>3 DEF BirthdayInHand, Deserved, MarkersKnown, Remembered, GreetedOnce, Marked, matches
  <2> QED BY <2>1, <2>2
<1> QED BY <1>1, <1>2, <1>3 DEF MarkGreeted

LEMMA SendKeeps ==
  ASSUME BirthdaysInv, Send
  PROVE  BirthdaysInv'
<1> USE DEF BirthdaysInv
<1>0. runs = "send" /\ process /\ day \in DOMAIN Calendar /\ day \in Nat /\ done = chunk
      /\ UNCHANGED <<day, hour, process, greet, markers, cut>>
  BY DaysOfCalendar DEF Send, BirthdayInHand, BirthdaysTypeOK
<1>m. \A p \in People : Marked(p)' <=> Marked(p)
  BY <1>0 DEF Marked
<1>c. ASSUME greeted' = Count(chunk)
      PROVE  /\ greeted' \in [People -> 0..Enough]
             /\ \A p \in People \ chunk : greeted'[p] = greeted[p]
             /\ \A p \in chunk : greeted'[p] > 0
             /\ \A p \in chunk : p \notin misheard => greeted'[p] = 1
  BY <1>c DEF Count, BirthdaysTypeOK, Enough, Deserved
<1>r. ASSUME greeted' = Count(chunk), misheard \subseteq misheard' PROVE Remembered'
  <2> SUFFICES ASSUME NEW p \in People, greeted'[p] > 0, p \notin misheard'
               PROVE  \E d \in 1..day : /\ Calendar[d].year = Calendar[day].year
                                        /\ MatchesOn(p, d)
                                        /\ d = day => Marked(p)'
    BY <1>0 DEF Remembered
  <2>1. CASE p \in chunk
    <3>1. MatchesOn(p, day) /\ Marked(p)'
      BY <1>0, <1>m, <2>1 DEF Deserved, MatchesOn, matches, MarkersKnown
    <3>2. day \in 1..day
      BY <1>0, DaysOfCalendar
    <3> QED BY <3>1, <3>2
  <2>2. CASE p \notin chunk
    BY <1>0, <1>m, <1>c, <1>r, <2>2 DEF Remembered
  <2> QED BY <2>1, <2>2
<1>1. ASSUME greeted' = Count(chunk), ChunkDone, UNCHANGED misheard PROVE BirthdaysInv'
  <2>1. GreetedOnce'
    BY <1>0, <1>m, <1>c, <1>1 DEF GreetedOnce, BirthdaysTypeOK, ChunkDone
  <2>2. \A p \in greet : ~Marked(p)' /\ (greeted'[p] = 0 \/ p \in misheard')
    BY <1>0, <1>m, <1>c, <1>1 DEF MarkersKnown, Deserved, BirthdaysTypeOK, BirthdayInHand
  <2> QED BY <1>0, <1>1, <1>c, <1>r, <2>1, <2>2, ChunkEnds DEF MarkersKnown, BirthdaysTypeOK
<1>2. ASSUME runs' = "clear", UNCHANGED <<chunk, done>>,
             greeted' = Count(chunk), misheard' = misheard \cup chunk
      PROVE  BirthdaysInv'
  <2>1. BirthdaysTypeOK'
    BY <1>0, <1>2, <1>c DEF BirthdaysTypeOK
  <2>2. BirthdayInHand' /\ MarkersKnown'
    BY <1>0, <1>2, <1>m DEF BirthdayInHand, MarkersKnown, BirthdaysTypeOK
  <2>3. Deserved'
    BY <1>0, <1>2, <1>c DEF Deserved, BirthdayInHand, matches, BirthdaysTypeOK
  <2>4. GreetedOnce'
    BY <1>0, <1>2, <1>c, <1>m DEF GreetedOnce
  <2> QED BY <1>2, <1>r, <2>1, <2>2, <2>3, <2>4
<1>3. ASSUME runs' = "clear", UNCHANGED <<chunk, done, greeted, misheard>> PROVE BirthdaysInv'
  <2>1. BirthdaysTypeOK'
    BY <1>0, <1>3 DEF BirthdaysTypeOK
  <2>2. BirthdayInHand' /\ Deserved' /\ MarkersKnown' /\ Remembered' /\ GreetedOnce'
    BY <1>0, <1>3 DEF BirthdayInHand, Deserved, MarkersKnown, Remembered, GreetedOnce, Marked, matches
  <2> QED BY <2>1, <2>2
<1> QED BY <1>1, <1>2, <1>3 DEF Send

LEMMA ClearKeeps ==
  ASSUME BirthdaysInv, ClearGreeted
  PROVE  BirthdaysInv'
<1> USE DEF BirthdaysInv
<1>0. runs = "clear" /\ process /\ day \in DOMAIN Calendar /\ day \in Nat
      /\ UNCHANGED <<day, hour, process, greet, greeted, misheard>>
  BY DaysOfCalendar DEF ClearGreeted, BirthdayInHand, BirthdaysTypeOK
<1>1. PICK p \in done :
        /\ \/ markers' = markers \ {<<p, day>>} /\ UNCHANGED cut
           \/ cut' = cut \cup {p} /\ UNCHANGED markers
        /\ IF done = {p} THEN ChunkDone ELSE done' = done \ {p} /\ UNCHANGED <<chunk, runs>>
  BY DEF ClearGreeted
<1>2. /\ p \in chunk /\ p \in People /\ markers' \subseteq markers
      /\ cut \subseteq cut' /\ cut' \subseteq People
  BY <1>1 DEF BirthdaysTypeOK
<1>3. /\ \A q \in People : q # p => (Marked(q)' <=> Marked(q))
      /\ Marked(p)' => p \in cut'
  BY <1>0, <1>1 DEF Marked
<1>4. Remembered'
  <2> SUFFICES ASSUME NEW q \in People, greeted[q] > 0, q \notin misheard
               PROVE  \E d \in 1..day : /\ Calendar[d].year = Calendar[day].year
                                        /\ MatchesOn(q, d)
                                        /\ d = day => Marked(q)'
    BY <1>0 DEF Remembered
  <2>1. q # p
    BY <1>2 DEF Deserved
  <2> QED BY <1>3, <2>1 DEF Remembered
<1>5. \A q \in chunk \ (done \ {p}) : Marked(q)' => q \in cut'
  BY <1>2, <1>3 DEF MarkersKnown, BirthdaysTypeOK
<1>6. \A q \in greet : ~Marked(q)' /\ (greeted'[q] = 0 \/ q \in misheard')
  BY <1>0, <1>2, <1>3 DEF MarkersKnown, Deserved, BirthdayInHand, BirthdaysTypeOK
<1>7. CASE done = {p}
  <2>1. GreetedOnce'
    <3>1. chunk' = {} /\ \A q \in chunk : Marked(q)' => q \in cut'
      BY <1>1, <1>5, <1>7 DEF ChunkDone
    <3> QED BY <1>0, <1>2, <1>3, <3>1 DEF GreetedOnce
  <2> QED BY <1>0, <1>1, <1>2, <1>4, <1>6, <1>7, <2>1, ChunkEnds DEF MarkersKnown, BirthdaysTypeOK
<1>8. CASE done # {p}
  <2>1. BirthdaysTypeOK'
    BY <1>0, <1>1, <1>2, <1>8 DEF BirthdaysTypeOK
  <2>2. BirthdayInHand' /\ Deserved'
    BY <1>0, <1>1, <1>8 DEF BirthdayInHand, Deserved, matches
  <2>3. MarkersKnown'
    BY <1>0, <1>1, <1>2, <1>3, <1>5, <1>6, <1>8 DEF MarkersKnown, BirthdaysTypeOK
  <2>4. GreetedOnce'
    BY <1>0, <1>1, <1>2, <1>3, <1>8 DEF GreetedOnce
  <2> QED BY <1>4, <2>1, <2>2, <2>3, <2>4
<1> QED BY <1>7, <1>8

LEMMA StopKeeps ==
  ASSUME BirthdaysInv, Stop
  PROVE  BirthdaysInv'
<1> USE DEF BirthdaysInv
<1>1. /\ runs' = "asleep" /\ greet' = {} /\ chunk' = {} /\ done' = {} /\ process' = FALSE
      /\ cut' = cut \cup {p \in done : Marked(p)}
      /\ UNCHANGED <<day, hour, markers, greeted, misheard>>
  BY DEF Stop
<1>2. \A p \in People : Marked(p)' <=> Marked(p)
  BY <1>1 DEF Marked
<1>3. BirthdaysTypeOK'
  BY <1>1 DEF BirthdaysTypeOK
<1>4. BirthdayInHand' /\ Deserved' /\ MarkersKnown' /\ Remembered'
  BY <1>1, <1>2 DEF BirthdayInHand, Deserved, MarkersKnown, Remembered
<1>5. GreetedOnce'
  BY <1>1, <1>2 DEF GreetedOnce, MarkersKnown
<1> QED BY <1>3, <1>4, <1>5

\* However runs fail and the process is stopped, the invariant holds.
THEOREM BirthdaysInvCorrect == BirthdaysSpec => []BirthdaysInv
<1>1. BirthdaysInv /\ [BirthdaysNext]_birthdayVars => BirthdaysInv'
  <2> SUFFICES ASSUME BirthdaysInv, [BirthdaysNext]_birthdayVars PROVE BirthdaysInv'
    OBVIOUS
  <2>1. CASE BirthdaysNext
    BY <2>1, DayKeeps, NextDayKeeps, ListKeeps, TakeChunkKeeps, MarkKeeps, SendKeeps, ClearKeeps,
       StopKeeps DEF BirthdaysNext
  <2>2. CASE UNCHANGED birthdayVars
    BY <2>2 DEF birthdayVars, BirthdaysInv, BirthdaysTypeOK, BirthdayInHand, Deserved, MarkersKnown,
                Remembered, GreetedOnce, Marked, matches
  <2> QED BY <2>1, <2>2
<1> QED BY InvInit, <1>1, PTL DEF BirthdaysSpec

\* One greeting a year, whatever the bot is restarted in the midst of, unless a
\* message was posted that Telegram reported as failed (birthday/service.go:
\* the marker goes before the message).
THEOREM GreetedOnceCorrect == BirthdaysSpec => []GreetedOnce
BY BirthdaysInvCorrect, PTL DEF BirthdaysInv

----------------------------------------------------------------------------
(* The cooldown.                                                           *)

\* What is remembered of a run is the run, and of the notices after it the one.
Remembers(g) ==
  /\ last[g] \in {0, ranAt[g]} /\ ranAt[g] <= tick
  /\ notified[g] # 0 /\ Within(g, ranAt[g]) => ranAt[g] <= notified[g] /\ notified[g] <= tick
  /\ Within(g, ranAt[g]) => last[g] = ranAt[g]

\* Nobody turned away has heard nothing, nor heard of it twice.
HeardOnce(g) ==
  /\ ~refused[g] => notified[g] = 0 /\ warnings[g] = 0
  /\ refused[g] => warnings[g] = 1
  /\ refused[g] /\ Within(g, ranAt[g]) => notified[g] # 0

CooldownInv == CooldownTypeOK /\ \A g \in Gates : Remembers(g) /\ HeardOnce(g)

USE CooldownAssumption DEF Ticks

\* What a sweep leaves of a gate whose window is open is all of it.
LEMMA SweepKeeps ==
  ASSUME CooldownInv, NEW g \in Gates
  PROVE  /\ SweptLast[g] \in {0, last[g]} /\ SweptNotified[g] \in {0, notified[g]}
         /\ Within(g, ranAt[g]) => SweptLast[g] = last[g] /\ SweptNotified[g] = notified[g]
         /\ Within(g, SweptLast[g]) => Within(g, ranAt[g])
<1> USE DEF CooldownInv, CooldownTypeOK, Remembers
<1>1. Every[g] \in Nat /\ Every[g] <= EvictAfter /\ EvictAfter \in Nat /\ tick \in Nat
  OBVIOUS
<1>2. /\ last[g] \in Nat /\ ranAt[g] \in Nat /\ notified[g] \in Nat
  OBVIOUS
<1>3. SweptLast[g] \in {0, last[g]} /\ SweptNotified[g] \in {0, notified[g]}
  BY DEF SweptLast, SweptNotified
<1>4. ASSUME Within(g, ranAt[g]) PROVE SweptLast[g] = last[g] /\ SweptNotified[g] = notified[g]
  <2>1. last[g] = ranAt[g] /\ ~Old(last[g])
    BY <1>1, <1>2, <1>4 DEF Within, Old
  <2>2. notified[g] # 0 => ~Old(notified[g])
    BY <1>1, <1>2, <1>4 DEF Within, Old
  <2> QED BY <2>1, <2>2 DEF SweptLast, SweptNotified
<1>5. Within(g, SweptLast[g]) => Within(g, ranAt[g])
  BY <1>3 DEF Within
<1> QED BY <1>3, <1>4, <1>5

LEMMA CooldownStep ==
  ASSUME CooldownInv, [CooldownNext]_cooldownVars PROVE CooldownInv'
<1> USE DEF CooldownInv
<1>1. ASSUME NEW g \in Gates, Gate(g) PROVE CooldownInv'
  <2>1. \A h \in Gates : SweptLast[h] \in 0..LastTick /\ SweptNotified[h] \in 0..LastTick
    BY SweepKeeps DEF CooldownTypeOK
  <2>2. SweptLast \in [Gates -> Ticks] /\ SweptNotified \in [Gates -> Ticks]
    BY <2>1 DEF SweptLast, SweptNotified
  <2>3. CooldownTypeOK'
    <3> USE DEF CooldownTypeOK
    <3>1. tick' = tick /\ lastSweep' \in Ticks
      BY <1>1 DEF Gate
    <3>2. CASE Allow(g)
      BY <2>2, <3>1, <3>2 DEF Allow
    <3>3. CASE Refuse(g)
      <4>1. notified' \in [Gates -> Ticks]
        BY <2>2, <3>3 DEF Refuse
      <4>2. warnings' \in [Gates -> Nat]
        BY <3>3 DEF Refuse
      <4>3. last' \in [Gates -> Ticks] /\ refused' \in [Gates -> BOOLEAN] /\ ranAt' = ranAt
        BY <2>2, <3>3 DEF Refuse
      <4> QED BY <3>1, <4>1, <4>2, <4>3
    <3> QED BY <1>1, <3>2, <3>3 DEF Gate
  <2>4. ASSUME NEW h \in Gates PROVE Remembers(h)' /\ HeardOnce(h)'
    <3> USE DEF CooldownTypeOK
    <3>0. /\ SweptLast[h] \in {0, last[h]} /\ SweptNotified[h] \in {0, notified[h]}
          /\ Within(h, ranAt[h]) => SweptLast[h] = last[h] /\ SweptNotified[h] = notified[h]
          /\ Within(h, SweptLast[h]) => Within(h, ranAt[h])
          /\ tick' = tick /\ tick \in Nat /\ tick # 0 /\ Every[h] \in Nat \ {0}
      BY <1>1, SweepKeeps DEF Gate
    <3>1. CASE h # g
      <4>1. /\ last'[h] = SweptLast[h] /\ notified'[h] = SweptNotified[h] /\ ranAt'[h] = ranAt[h]
            /\ refused'[h] = refused[h] /\ warnings'[h] = warnings[h]
        BY <1>1, <2>2, <3>1 DEF Gate, Allow, Refuse
      <4> QED BY <3>0, <4>1 DEF Remembers, HeardOnce, Within
    <3>2. CASE h = g /\ Allow(g)
      <4>1. /\ last'[h] = tick /\ notified'[h] = 0 /\ ranAt'[h] = tick
            /\ refused'[h] = FALSE /\ warnings'[h] = 0
        BY <2>2, <3>2 DEF Allow
      <4> QED BY <3>0, <4>1 DEF Remembers, HeardOnce, Within
    <3>3. CASE h = g /\ Refuse(g)
      <4>1. /\ last'[h] = SweptLast[h] /\ ranAt'[h] = ranAt[h] /\ refused'[h] = TRUE
            /\ Within(h, ranAt[h])
        BY <2>2, <3>0, <3>3 DEF Refuse
      <4>2. CASE Within(h, SweptNotified[h])
        <5>1. notified'[h] = SweptNotified[h] /\ warnings'[h] = warnings[h]
          BY <2>2, <3>3, <4>2 DEF Refuse
        <5> QED BY <3>0, <4>1, <4>2, <5>1 DEF Remembers, HeardOnce, Within
      <4>3. CASE ~Within(h, SweptNotified[h])
        <5>1. notified'[h] = tick /\ warnings'[h] = warnings[h] + 1
          BY <2>2, <3>3, <4>3 DEF Refuse
        <5>2. ~refused[h]
          BY <3>0, <4>1, <4>3 DEF Remembers, HeardOnce, Within
        <5> QED BY <3>0, <4>1, <5>1, <5>2 DEF Remembers, HeardOnce, Within
      <4> QED BY <4>2, <4>3
    <3> QED BY <1>1, <3>1, <3>2, <3>3 DEF Gate
  <2> QED BY <2>3, <2>4
<1>2. CASE TimePasses
  BY <1>2 DEF TimePasses, CooldownTypeOK, Remembers, HeardOnce, Within
<1>3. CASE CooldownRestart
  BY <1>3 DEF CooldownRestart, CooldownTypeOK, Remembers, HeardOnce, Within, NotYet
<1>4. CASE UNCHANGED cooldownVars
  BY <1>4 DEF cooldownVars, CooldownTypeOK, Remembers, HeardOnce, Within
<1> QED BY <1>1, <1>2, <1>3, <1>4 DEF CooldownNext

LEMMA CooldownInvCorrect == CooldownSpec => []CooldownInv
<1>1. CooldownInit => CooldownInv
  BY DEF CooldownInit, CooldownInv, CooldownTypeOK, Remembers, HeardOnce, Within, NotYet
<1> QED BY <1>1, CooldownStep, PTL DEF CooldownSpec

\* A run is remembered as long as it keeps the next one out, and whoever is turned
\* away hears of it once.
THEOREM CooldownKeptCorrect == CooldownSpec => []CooldownKept
<1>1. CooldownInv => CooldownKept
  BY DEF CooldownInv, CooldownKept, Remembers, HeardOnce, CooldownTypeOK
<1> QED BY <1>1, CooldownInvCorrect, PTL

----------------------------------------------------------------------------
(* The admission.                                                          *)

\* Updates whose handlers may still tell the owner of stranger s.
Tells(s) == {u \in news : u.allowed /\ u.by = s}

\* A notice was counted before it was sent.
NoticesBacked ==
  \A s \in Strangers :
    /\ notices[s] + Cardinality(Tells(s)) <= attempts[s]
    /\ notices[s] + Cardinality(Tells(s)) <= NoticeLimit

\* An update under way: only strangers are turned away, only after counting
\* is the owner told, and the latest update is about the status as it is.
UpdateFits(u) ==
  /\ u.no \in 1..moves
  /\ u.at # "record" => u.by \in Strangers /\ u.new # "left"
  /\ u.allowed => u.at \in {"leave", "notice"}
  /\ u.at = "notice" => u.allowed /\ u.no < moves
  /\ u.no = moves => u.new = botStatus

UpdatesFit == IsFiniteSet(news) /\ \A u \in news : UpdateFits(u)

\* Where the bot does not belong, a handler is about to take it out.
ExpulsionDue ==
  ~mishap /\ botStatus # "left" /\ adder # BotOwner /\ entered # "restricted" =>
    \E u \in news : u.at \in {"count", "leave"}

\* The latest update is under way, or it is what the record says.
RecordFollows ==
  ~mishap /\ ~disordered =>
    \/ moves = 0 /\ botRecord = NoRecord /\ botStatus = "left"
    \/ \E u \in news : u.no = moves
    \/ applied = moves /\ botRecord = botStatus

AdmissionInv == AdmissionTypeOK /\ UpdatesFit /\ NoticesBacked /\ ExpulsionDue /\ RecordFollows

USE AdmissionAssumption

LEMMA Fewer ==
  ASSUME NEW S, IsFiniteSet(S), NEW T \in SUBSET S
  PROVE  IsFiniteSet(T) /\ Cardinality(T) \in Nat /\ Cardinality(T) <= Cardinality(S)
BY FS_Subset, FS_CardinalityType

LEMMA OneLess ==
  ASSUME NEW S, IsFiniteSet(S), NEW u \in S, NEW T \in SUBSET (S \ {u})
  PROVE  IsFiniteSet(T) /\ Cardinality(T) \in Nat /\ Cardinality(T) + 1 <= Cardinality(S)
<1>1. IsFiniteSet(S \ {u}) /\ Cardinality(S \ {u}) = Cardinality(S) - 1
  BY FS_RemoveElement
<1> QED BY <1>1, Fewer, FS_CardinalityType

LEMMA OneMore ==
  ASSUME NEW S, IsFiniteSet(S), NEW v, NEW T \in SUBSET (S \cup {v})
  PROVE  IsFiniteSet(T) /\ Cardinality(T) \in Nat /\ Cardinality(T) <= Cardinality(S) + 1
<1>1. IsFiniteSet(S \cup {v}) /\ Cardinality(S \cup {v}) <= Cardinality(S) + 1 /\ Cardinality(S) \in Nat
  BY FS_AddElement, FS_CardinalityType
<1> QED BY <1>1, Fewer

LEMMA Exchanged ==
  ASSUME NEW S, IsFiniteSet(S), NEW u \in S, NEW v, NEW T \in SUBSET ((S \ {u}) \cup {v})
  PROVE  IsFiniteSet(T) /\ Cardinality(T) \in Nat /\ Cardinality(T) <= Cardinality(S)
<1>1. IsFiniteSet(S \ {u}) /\ Cardinality(S \ {u}) + 1 <= Cardinality(S) /\ Cardinality(S) \in Nat
  BY OneLess, FS_CardinalityType
<1> QED BY <1>1, OneMore

\* As long as no update begins to be told of and nobody is told, notices stay backed.
LEMMA BackedIfFewer ==
  ASSUME AdmissionTypeOK, UpdatesFit, NoticesBacked, notices' = notices,
         attempts' \in [Strangers -> Nat],
         \A s \in Strangers : attempts[s] <= attempts'[s] /\ Tells(s)' \subseteq Tells(s)
  PROVE  NoticesBacked'
<1>1. ASSUME NEW s \in Strangers
      PROVE  Cardinality(Tells(s)') \in Nat /\ Cardinality(Tells(s)') <= Cardinality(Tells(s))
             /\ Cardinality(Tells(s)) \in Nat
  <2>1. IsFiniteSet(Tells(s))
    BY Fewer DEF Tells, UpdatesFit
  <2> QED BY <2>1, Fewer, FS_CardinalityType
<1>2. ASSUME NEW s \in Strangers
      PROVE  /\ notices'[s] + Cardinality(Tells(s)') <= attempts'[s]
             /\ notices'[s] + Cardinality(Tells(s)') <= NoticeLimit
  <2>1. notices[s] \in Nat /\ attempts[s] \in Nat /\ attempts'[s] \in Nat /\ NoticeLimit \in Nat
    BY DEF AdmissionTypeOK
  <2>2. /\ notices[s] + Cardinality(Tells(s)) <= attempts[s]
        /\ notices[s] + Cardinality(Tells(s)) <= NoticeLimit
    BY DEF NoticesBacked
  <2> QED BY <1>1, <2>1, <2>2
<1> QED BY <1>2 DEF NoticesBacked

LEMMA CountKeeps ==
  ASSUME AdmissionInv, NEW u \in news, CountAttempt(u)
  PROVE  AdmissionInv'
<1> USE DEF AdmissionInv
<1>0. /\ u \in News /\ u.at = "count" /\ UpdateFits(u) /\ ~u.allowed /\ u.by \in Strangers
      /\ u.allowed \in BOOLEAN
  BY DEF CountAttempt, AdmissionTypeOK, UpdatesFit, UpdateFits, News
<1>1. PICK flag \in BOOLEAN :
        /\ news' = (news \ {u}) \cup {[u EXCEPT !.at = "leave", !.allowed = flag]}
        /\ \/ flag = FALSE /\ attempts' = attempts
           \/ /\ attempts' = [attempts EXCEPT ![u.by] = @ + 1]
              /\ flag = (attempts'[u.by] <= NoticeLimit)
  <2>1. CASE attempts' = [attempts EXCEPT ![u.by] = @ + 1]
             /\ Becomes(u, [u EXCEPT !.at = "leave", !.allowed = attempts'[u.by] <= NoticeLimit])
    <3> DEFINE f == attempts'[u.by] <= NoticeLimit
    <3>1. news' = (news \ {u}) \cup {[u EXCEPT !.at = "leave", !.allowed = f]}
      BY <2>1 DEF Becomes
    <3>2. f \in BOOLEAN /\ f = (attempts'[u.by] <= NoticeLimit)
      OBVIOUS
    <3> HIDE DEF f
    <3> QED BY <2>1, <3>1, <3>2
  <2>2. CASE attempts' = attempts /\ Becomes(u, [u EXCEPT !.at = "leave"])
    <3>1. [u EXCEPT !.at = "leave"] = [u EXCEPT !.at = "leave", !.allowed = FALSE]
      BY <1>0 DEF News
    <3> QED BY <2>2, <3>1 DEF Becomes
  <2> QED BY <2>1, <2>2 DEF CountAttempt
<1> DEFINE v == [u EXCEPT !.at = "leave", !.allowed = flag]
<1>2. /\ v \in News /\ v.no = u.no /\ v.by = u.by /\ v.new = u.new /\ v.at = "leave"
      /\ v.allowed = flag
  BY <1>0 DEF News
<1> HIDE DEF v
<1>3. /\ news' = (news \ {u}) \cup {v}
      /\ UNCHANGED <<botStatus, adder, entered, moves, botRecord, notices, buttons, desk, applied,
                     disordered, mishap>>
  BY <1>1 DEF CountAttempt, v
<1>4. attempts' \in [Strangers -> Nat]
  BY <1>1 DEF AdmissionTypeOK
<1>5. AdmissionTypeOK'
  BY <1>2, <1>3, <1>4 DEF AdmissionTypeOK
<1>6. UpdatesFit'
  <2>1. IsFiniteSet(news')
    BY <1>3, Exchanged DEF UpdatesFit
  <2>2. UpdateFits(v)'
    BY <1>0, <1>2, <1>3 DEF UpdateFits
  <2>3. ASSUME NEW w \in news PROVE UpdateFits(w)'
    BY <1>3 DEF UpdatesFit, UpdateFits
  <2> QED BY <1>3, <2>1, <2>2, <2>3 DEF UpdatesFit
<1>7. NoticesBacked'
  <2>1. CASE flag = FALSE
    <3>1. \A s \in Strangers : attempts[s] <= attempts'[s]
      BY <1>1 DEF AdmissionTypeOK
    <3>2. \A s \in Strangers : Tells(s)' \subseteq Tells(s)
      BY <1>2, <1>3, <2>1 DEF Tells
    <3> QED BY <1>3, <1>4, <3>1, <3>2, BackedIfFewer
  <2>2. CASE flag = TRUE
    <3>1. ASSUME NEW s \in Strangers
          PROVE  /\ notices'[s] + Cardinality(Tells(s)') <= attempts'[s]
                 /\ notices'[s] + Cardinality(Tells(s)') <= NoticeLimit
      <4>1. /\ IsFiniteSet(Tells(s)) /\ Cardinality(Tells(s)) \in Nat
        BY Fewer DEF Tells, UpdatesFit
      <4>2. /\ notices[s] \in Nat /\ attempts[s] \in Nat /\ NoticeLimit \in Nat /\ notices'[s] = notices[s]
            /\ notices[s] + Cardinality(Tells(s)) <= attempts[s]
            /\ notices[s] + Cardinality(Tells(s)) <= NoticeLimit
        BY <1>3 DEF AdmissionTypeOK, NoticesBacked
      <4>3. CASE s = u.by
        <5>1. attempts'[s] = attempts[s] + 1 /\ attempts'[s] <= NoticeLimit
          BY <1>1, <2>2, <4>3 DEF AdmissionTypeOK
        <5>2. Tells(s)' \subseteq Tells(s) \cup {v}
          BY <1>3 DEF Tells
        <5>3. Cardinality(Tells(s)') \in Nat /\ Cardinality(Tells(s)') <= Cardinality(Tells(s)) + 1
          BY <4>1, <5>2, OneMore
        <5> QED BY <4>1, <4>2, <5>1, <5>3
      <4>4. CASE s # u.by
        <5>1. attempts'[s] = attempts[s]
          BY <1>1, <4>4 DEF AdmissionTypeOK
        <5>2. Tells(s)' \subseteq Tells(s)
          BY <1>2, <1>3, <4>4 DEF Tells
        <5>3. Cardinality(Tells(s)') \in Nat /\ Cardinality(Tells(s)') <= Cardinality(Tells(s))
          BY <4>1, <5>2, Fewer
        <5> QED BY <4>1, <4>2, <5>1, <5>3
      <4> QED BY <4>3, <4>4
    <3> QED BY <3>1 DEF NoticesBacked
  <2> QED BY <2>1, <2>2
<1>8. ExpulsionDue'
  BY <1>2, <1>3 DEF ExpulsionDue
<1>9. RecordFollows'
  BY <1>2, <1>3 DEF RecordFollows
<1> QED BY <1>5, <1>6, <1>7, <1>8, <1>9

LEMMA NotifyKeeps ==
  ASSUME AdmissionInv, NEW u \in news, Notify(u)
  PROVE  AdmissionInv'
<1> USE DEF AdmissionInv
<1>1. /\ u \in News /\ u.at = "notice" /\ UpdateFits(u) /\ u.allowed /\ u.by \in Strangers
      /\ news' = news \ {u}
      /\ UNCHANGED <<botStatus, adder, entered, moves, botRecord, attempts, buttons, desk, applied, disordered,
                     mishap>>
      /\ notices' \in {notices, [notices EXCEPT ![u.by] = @ + 1]}
  BY DEF Notify, Done, AdmissionTypeOK, UpdatesFit, UpdateFits
<1>2. AdmissionTypeOK'
  BY <1>1 DEF AdmissionTypeOK
<1>3. UpdatesFit'
  BY <1>1, Fewer DEF UpdatesFit, UpdateFits
<1>4. ASSUME NEW s \in Strangers
      PROVE  /\ notices'[s] + Cardinality(Tells(s)') <= attempts'[s]
             /\ notices'[s] + Cardinality(Tells(s)') <= NoticeLimit
  <2>1. /\ IsFiniteSet(Tells(s)) /\ Cardinality(Tells(s)) \in Nat
    BY Fewer DEF Tells, UpdatesFit
  <2>2. /\ notices[s] \in Nat /\ attempts[s] \in Nat /\ NoticeLimit \in Nat /\ attempts'[s] = attempts[s]
        /\ notices[s] + Cardinality(Tells(s)) <= attempts[s]
        /\ notices[s] + Cardinality(Tells(s)) <= NoticeLimit
    BY <1>1 DEF AdmissionTypeOK, NoticesBacked
  <2>3. CASE s = u.by
    <3>1. u \in Tells(s) /\ Tells(s)' \subseteq Tells(s) \ {u}
      BY <1>1, <2>3 DEF Tells
    <3>2. Cardinality(Tells(s)') \in Nat /\ Cardinality(Tells(s)') + 1 <= Cardinality(Tells(s))
      BY <2>1, <3>1, OneLess
    <3>3. notices'[s] \in Nat /\ notices'[s] <= notices[s] + 1
      BY <1>1, <2>2 DEF AdmissionTypeOK
    <3> QED BY <2>1, <2>2, <3>2, <3>3
  <2>4. CASE s # u.by
    <3>1. Tells(s)' \subseteq Tells(s)
      BY <1>1 DEF Tells
    <3>2. Cardinality(Tells(s)') \in Nat /\ Cardinality(Tells(s)') <= Cardinality(Tells(s))
      BY <2>1, <3>1, Fewer
    <3>3. notices'[s] = notices[s]
      BY <1>1, <2>4 DEF AdmissionTypeOK
    <3> QED BY <2>1, <2>2, <3>2, <3>3
  <2> QED BY <2>3, <2>4
<1>5. ExpulsionDue'
  BY <1>1 DEF ExpulsionDue
<1>6. RecordFollows'
  BY <1>1 DEF RecordFollows, UpdateFits
<1> QED BY <1>2, <1>3, <1>4, <1>5, <1>6 DEF NoticesBacked

\* What every change of the bot's status keeps, whoever makes it: the update
\* about it is the latest, and a handler of an earlier one may go on to tell.
LEMMA StatusKeeps ==
  ASSUME AdmissionInv, NEW by \in Adders, NEW new \in BotStatuses, new # botStatus,
         StatusIs(by, new),
         UNCHANGED <<botRecord, attempts, notices, applied, disordered, mishap>>,
         IsFiniteSet(news'), Update(by, new) \in news',
         new = "left" \/ news \subseteq news',
         \A w \in news' : \/ w \in news \/ w = Update(by, new)
                          \/ \E u \in news : /\ u.at = "leave" /\ u.allowed
                                             /\ w = [u EXCEPT !.at = "notice"]
  PROVE  UpdatesFit' /\ ExpulsionDue' /\ RecordFollows' /\ moves' \in Nat /\ news' \subseteq News
         /\ botStatus' \in BotStatuses /\ adder' \in Adders /\ entered' \in BotStatuses
         /\ applied' \in 0..moves'
<1> USE DEF AdmissionInv
<1>1. /\ moves' = moves + 1 /\ moves \in Nat /\ moves' \in Nat /\ botStatus' = new
      /\ botStatus' \in BotStatuses /\ adder' \in Adders /\ entered' \in BotStatuses
      /\ applied' \in 0..moves'
      /\ IF botStatus = "left" THEN adder' = by /\ entered' = new ELSE UNCHANGED <<adder, entered>>
  BY DEF StatusIs, AdmissionTypeOK
<1>0. PICK latest : latest = Update(by, new)
  OBVIOUS
<1>2. /\ latest \in News /\ latest.no = moves' /\ latest.new = new /\ latest.by = by /\ ~latest.allowed
      /\ latest.at \in {"count", "record"}
      /\ latest.at = "count" <=> Rejected(by, botStatus, new)
  BY <1>0, <1>1 DEF Update, News, AdmissionTypeOK
<1>3. UpdateFits(latest)'
  <2>1. latest.at = "count" => by \in Strangers /\ new # "left"
    BY <1>2 DEF Rejected, Adders
  <2> QED BY <1>1, <1>2, <2>1 DEF UpdateFits
<1>4. ASSUME NEW w \in news PROVE w \in News /\ UpdateFits(w)'
  BY <1>1 DEF UpdatesFit, UpdateFits, AdmissionTypeOK
<1>5. ASSUME NEW u \in news, u.at = "leave", u.allowed,
             NEW w, w = [u EXCEPT !.at = "notice"]
      PROVE  w \in News /\ UpdateFits(w)'
  <2>1. u \in News /\ UpdateFits(u)
    BY DEF UpdatesFit, AdmissionTypeOK
  <2>2. /\ w \in News /\ w.at = "notice" /\ w.allowed /\ w.by = u.by /\ w.no = u.no
        /\ w.new = u.new
    BY <1>5, <2>1 DEF News
  <2> QED BY <1>1, <1>5, <2>1, <2>2 DEF UpdateFits
<1>6. \A w \in news' : w \in News /\ UpdateFits(w)'
  <2>1. ASSUME NEW w \in news' PROVE w \in News /\ UpdateFits(w)'
    <3>1. CASE w \in news
      BY <1>4, <3>1
    <3>2. CASE w = latest
      BY <1>2, <1>3, <3>2
    <3>3. CASE \E u \in news : u.at = "leave" /\ u.allowed /\ w = [u EXCEPT !.at = "notice"]
      BY <1>5, <3>3
    <3> QED BY <1>0, <3>1, <3>2, <3>3
  <2> QED BY <2>1
<1>7. ExpulsionDue'
  <2>1. SUFFICES ASSUME ~mishap, new # "left", adder' # BotOwner, entered' # "restricted"
                 PROVE  \E u \in news' : u.at \in {"count", "leave"}
    BY <1>1 DEF ExpulsionDue
  <2>2. CASE botStatus = "left"
    BY <1>0, <1>1, <1>2, <2>1, <2>2 DEF Rejected, BotStatuses
  <2>3. CASE botStatus # "left"
    BY <1>1, <2>1, <2>3 DEF ExpulsionDue
  <2> QED BY <2>2, <2>3
<1>8. RecordFollows'
  BY <1>0, <1>2 DEF RecordFollows
<1> QED BY <1>1, <1>6, <1>7, <1>8 DEF UpdatesFit

\* An update that tells nobody, added to the others.
LEMMA UpdateAdded ==
  ASSUME AdmissionInv, NEW by, NEW new, notices' = notices, attempts' = attempts,
         news' = news \cup {Update(by, new)}
  PROVE  IsFiniteSet(news') /\ NoticesBacked'
<1>1. IsFiniteSet(news')
  BY OneMore DEF AdmissionInv, UpdatesFit
<1>2. ~Update(by, new).allowed
  BY DEF Update
<1>3. \A s \in Strangers : Tells(s)' \subseteq Tells(s)
  BY <1>2 DEF Tells
<1>4. \A s \in Strangers : attempts[s] <= attempts'[s]
  BY DEF AdmissionInv, AdmissionTypeOK
<1> QED BY <1>1, <1>3, <1>4, BackedIfFewer DEF AdmissionInv, AdmissionTypeOK

LEMMA ChangeKeeps ==
  ASSUME AdmissionInv, NEW by \in Adders, NEW new \in BotStatuses, ChangeStatus(by, new)
  PROVE  AdmissionInv'
<1> USE DEF AdmissionInv
<1>1. /\ new # botStatus /\ StatusIs(by, new) /\ news' = news \cup {Update(by, new)}
      /\ UNCHANGED <<botRecord, attempts, notices, buttons, desk, applied, disordered, mishap>>
  BY DEF ChangeStatus
<1>2. IsFiniteSet(news') /\ NoticesBacked'
  BY <1>1, UpdateAdded
<1>3. UpdatesFit' /\ ExpulsionDue' /\ RecordFollows' /\ moves' \in Nat /\ news' \subseteq News
      /\ botStatus' \in BotStatuses /\ adder' \in Adders /\ entered' \in BotStatuses
      /\ applied' \in 0..moves'
  BY <1>1, <1>2, StatusKeeps
<1> QED BY <1>1, <1>2, <1>3 DEF AdmissionTypeOK

LEMMA OwnerLeavesKeeps ==
  ASSUME AdmissionInv, NEW d \in Desks, OwnerLeaves(d)
  PROVE  AdmissionInv'
<1> USE DEF AdmissionInv
<1>1. /\ desk' \in [Desks -> {"idle", "verify", "leave", "mark"}]
      /\ UNCHANGED <<botRecord, attempts, notices, buttons, applied, disordered, mishap>>
  BY DEF OwnerLeaves, Sits, AdmissionTypeOK
<1>2. CASE UNCHANGED updateVars
  BY <1>1, <1>2 DEF updateVars, AdmissionTypeOK, UpdatesFit, UpdateFits, NoticesBacked, Tells,
                    ExpulsionDue, RecordFollows
<1>3. CASE botStatus # "left" /\ StatusIs(BotOwner, "left")
           /\ news' = news \cup {Update(BotOwner, "left")}
  <2>1. IsFiniteSet(news') /\ NoticesBacked'
    BY <1>1, <1>3, UpdateAdded
  <2>2. BotOwner \in Adders /\ "left" \in BotStatuses
    BY DEF Adders, BotStatuses
  <2>3. UpdatesFit' /\ ExpulsionDue' /\ RecordFollows' /\ moves' \in Nat /\ news' \subseteq News
        /\ botStatus' \in BotStatuses /\ adder' \in Adders /\ entered' \in BotStatuses
        /\ applied' \in 0..moves'
    BY <1>1, <1>3, <2>1, <2>2, StatusKeeps
  <2> QED BY <1>1, <2>1, <2>3 DEF AdmissionTypeOK
<1> QED BY <1>2, <1>3 DEF OwnerLeaves

LEMMA LeaveKeeps ==
  ASSUME AdmissionInv, NEW u \in news, LeaveChat(u)
  PROVE  AdmissionInv'
<1> USE DEF AdmissionInv
<1>1. /\ u \in News /\ u.at = "leave" /\ UpdateFits(u) /\ u.by \in Strangers
      /\ UNCHANGED <<botRecord, attempts, notices, buttons, desk, applied, disordered>>
  BY DEF LeaveChat, AdmissionTypeOK, UpdatesFit, UpdateFits
<1>2. ASSUME botStatus # "left", StatusIs(u.by, "left"), UNCHANGED mishap,
             NEW notice \in SUBSET {v \in {[u EXCEPT !.at = "notice"]} : u.allowed},
             news' = (news \ {u}) \cup {Update(u.by, "left")} \cup notice
      PROVE  AdmissionInv'
  <2>1. PICK v, w : v = [u EXCEPT !.at = "notice"] /\ w = Update(u.by, "left")
    OBVIOUS
  <2>2. news' \subseteq ((news \ {u}) \cup {v}) \cup {w}
    BY <1>2, <2>1
  <2>3. IsFiniteSet((news \ {u}) \cup {v})
    BY FS_RemoveElement, FS_AddElement DEF UpdatesFit
  <2>4. IsFiniteSet(news')
    BY <2>2, <2>3, OneMore
  <2>5. u.by \in Adders /\ "left" \in BotStatuses
    BY <1>1 DEF Adders, BotStatuses
  <2>6. UpdatesFit' /\ ExpulsionDue' /\ RecordFollows' /\ moves' \in Nat /\ news' \subseteq News
        /\ botStatus' \in BotStatuses /\ adder' \in Adders /\ entered' \in BotStatuses
        /\ applied' \in 0..moves'
    BY <1>1, <1>2, <2>4, <2>5, StatusKeeps
  <2>7. ASSUME NEW s \in Strangers
        PROVE  Cardinality(Tells(s)') \in Nat /\ Cardinality(Tells(s)') <= Cardinality(Tells(s))
    <3>1. IsFiniteSet(Tells(s)) /\ ~w.allowed
      BY <2>1, Fewer DEF Tells, UpdatesFit, Update
    <3>2. CASE u \in Tells(s)
      <4>1. Tells(s)' \subseteq (Tells(s) \ {u}) \cup {v}
        BY <2>2, <3>1 DEF Tells
      <4> QED BY <3>1, <3>2, <4>1, Exchanged
    <3>3. CASE u \notin Tells(s)
      <4>1. v \in notice => ~(v.by = s)
        BY <1>1, <2>1, <3>3 DEF Tells, News
      <4>2. Tells(s)' \subseteq Tells(s)
        BY <1>2, <2>1, <3>1, <4>1 DEF Tells
      <4> QED BY <3>1, <4>2, Fewer
    <3> QED BY <3>2, <3>3
  <2>8. NoticesBacked'
    <3>1. ASSUME NEW s \in Strangers
          PROVE  /\ notices'[s] + Cardinality(Tells(s)') <= attempts'[s]
                 /\ notices'[s] + Cardinality(Tells(s)') <= NoticeLimit
      <4>1. /\ notices[s] \in Nat /\ attempts[s] \in Nat /\ NoticeLimit \in Nat
            /\ notices[s] + Cardinality(Tells(s)) <= attempts[s]
            /\ notices[s] + Cardinality(Tells(s)) <= NoticeLimit
        BY DEF AdmissionTypeOK, NoticesBacked
      <4>2. Cardinality(Tells(s)) \in Nat
        BY Fewer DEF Tells, UpdatesFit
      <4> QED BY <1>1, <2>7, <4>1, <4>2
    <3> QED BY <3>1 DEF NoticesBacked
  <2> QED BY <1>1, <1>2, <2>6, <2>8 DEF AdmissionTypeOK
<1>3. ASSUME Done(u), mishap' = (mishap \/ botStatus # "left"),
             UNCHANGED <<botStatus, adder, entered, moves>>
      PROVE  AdmissionInv'
  <2>1. news' = news \ {u}
    BY <1>3 DEF Done
  <2>2. AdmissionTypeOK' /\ UpdatesFit'
    BY <1>1, <1>3, <2>1, Fewer DEF AdmissionTypeOK, UpdatesFit, UpdateFits
  <2>3. \A s \in Strangers : Tells(s)' \subseteq Tells(s) /\ attempts[s] <= attempts'[s]
    BY <1>1, <2>1 DEF Tells, AdmissionTypeOK
  <2>4. NoticesBacked'
    BY <1>1, <2>3, BackedIfFewer DEF AdmissionTypeOK
  <2>5. ExpulsionDue'
    BY <1>3 DEF ExpulsionDue
  <2>6. RecordFollows'
    BY <1>1, <1>3, <2>1 DEF RecordFollows, UpdateFits
  <2> QED BY <2>2, <2>4, <2>5, <2>6
<1> QED BY <1>1, <1>2, <1>3 DEF LeaveChat

LEMMA RecordKeeps ==
  ASSUME AdmissionInv, NEW u \in news, RecordMyChatMember(u)
  PROVE  AdmissionInv'
<1> USE DEF AdmissionInv
<1>1. /\ u \in News /\ u.at = "record" /\ UpdateFits(u) /\ news' = news \ {u}
      /\ UNCHANGED <<botStatus, adder, entered, moves, attempts, notices, buttons, desk>>
  BY DEF RecordMyChatMember, Done, AdmissionTypeOK, UpdatesFit
<1>2. u.no \in Nat /\ u.no <= moves /\ moves \in Nat /\ u.no # 0 /\ applied \in Nat
      /\ applied <= moves
  BY <1>1 DEF UpdateFits, AdmissionTypeOK
<1>3. /\ botRecord' \in BotStatuses \cup {NoRecord} /\ applied' \in 0..moves
      /\ disordered' \in BOOLEAN /\ mishap' \in BOOLEAN /\ (mishap => mishap')
  <2>1. u.new \in BotStatuses
    BY <1>1 DEF News
  <2>2. CASE /\ botRecord' = u.new /\ disordered' = (disordered \/ u.no < applied)
             /\ applied' = (IF u.no < applied THEN applied ELSE u.no) /\ UNCHANGED mishap
    <3>1. applied' \in 0..moves
      BY <1>2, <2>2 DEF AdmissionTypeOK
    <3>2. disordered' \in BOOLEAN
      BY <2>2 DEF AdmissionTypeOK
    <3> QED BY <2>1, <2>2, <3>1, <3>2 DEF AdmissionTypeOK
  <2>3. CASE mishap' = TRUE /\ UNCHANGED <<botRecord, disordered, applied>>
    BY <2>3 DEF AdmissionTypeOK
  <2> QED BY <2>2, <2>3 DEF RecordMyChatMember
<1>4. AdmissionTypeOK' /\ UpdatesFit'
  BY <1>1, <1>3, Fewer DEF AdmissionTypeOK, UpdatesFit, UpdateFits
<1>5. \A s \in Strangers : Tells(s)' \subseteq Tells(s) /\ attempts[s] <= attempts'[s]
  BY <1>1 DEF Tells, AdmissionTypeOK
<1>6. NoticesBacked'
  BY <1>1, <1>5, BackedIfFewer DEF AdmissionTypeOK
<1>7. ExpulsionDue'
  BY <1>1, <1>3 DEF ExpulsionDue
<1>8. RecordFollows'
  <2>1. SUFFICES ASSUME ~mishap', ~disordered'
                 PROVE  (\E v \in news' : v.no = moves) \/ (applied' = moves /\ botRecord' = botStatus)
    BY <1>1 DEF RecordFollows
  <2>2. /\ botRecord' = u.new /\ ~disordered /\ u.no >= applied /\ applied' = u.no
    <3>1. /\ botRecord' = u.new /\ disordered' = (disordered \/ u.no < applied)
          /\ applied' = IF u.no < applied THEN applied ELSE u.no
      BY <2>1 DEF RecordMyChatMember
    <3>2. ~disordered /\ ~(u.no < applied)
      BY <2>1, <3>1
    <3> QED BY <1>2, <3>1, <3>2
  <2>3. CASE u.no = moves
    BY <1>1, <2>2, <2>3 DEF UpdateFits
  <2>4. CASE u.no # moves
    BY <1>1, <1>2, <1>3, <2>1, <2>2, <2>4 DEF RecordFollows
  <2> QED BY <2>3, <2>4
<1> QED BY <1>4, <1>6, <1>7, <1>8

LEMMA RestartKeeps ==
  ASSUME AdmissionInv, AdmissionRestart
  PROVE  AdmissionInv'
<1> USE DEF AdmissionInv
<1>1. /\ news' \subseteq news /\ mishap' = (mishap \/ news' # news)
      /\ desk' \in [Desks -> {"idle", "verify", "leave", "mark"}]
      /\ UNCHANGED <<botStatus, adder, entered, moves, botRecord, attempts, notices, buttons, applied,
                     disordered>>
  BY DEF AdmissionRestart
<1>2. AdmissionTypeOK' /\ UpdatesFit'
  BY <1>1, Fewer DEF AdmissionTypeOK, UpdatesFit, UpdateFits
<1>3. \A s \in Strangers : Tells(s)' \subseteq Tells(s) /\ attempts[s] <= attempts'[s]
  BY <1>1 DEF Tells, AdmissionTypeOK
<1>4. NoticesBacked'
  BY <1>1, <1>3, BackedIfFewer DEF AdmissionTypeOK
<1>5. ExpulsionDue' /\ RecordFollows'
  BY <1>1 DEF ExpulsionDue, RecordFollows
<1> QED BY <1>2, <1>4, <1>5

\* What the owner's commands and taps do short of leaving.
LEMMA DeskKeeps ==
  ASSUME AdmissionInv, NEW d \in Desks,
         ListChats(d) \/ VerifyChat(d) \/ AskLeave(d) \/ ConfirmLeave(d) \/ MarkBotLeft(d)
  PROVE  AdmissionInv'
<1> USE DEF AdmissionInv
<1>1. UNCHANGED updateVars /\ UNCHANGED <<attempts, notices, applied, mishap>>
  BY DEF ListChats, VerifyChat, AskLeave, ConfirmLeave, MarkBotLeft
<1>2. /\ desk' \in [Desks -> {"idle", "verify", "leave", "mark"}]
      /\ buttons' \subseteq {"ask", "leave"} /\ disordered' \in BOOLEAN
      /\ botRecord' \in BotStatuses \cup {NoRecord}
  BY DEF ListChats, VerifyChat, AskLeave, ConfirmLeave, MarkBotLeft, Sits, AdmissionTypeOK,
         BotStatuses
<1>3. AdmissionTypeOK' /\ UpdatesFit' /\ NoticesBacked' /\ ExpulsionDue'
  BY <1>1, <1>2 DEF updateVars, AdmissionTypeOK, UpdatesFit, UpdateFits, NoticesBacked, Tells,
                    ExpulsionDue
<1>4. RecordFollows'
  BY <1>1 DEF updateVars, RecordFollows, ListChats, VerifyChat, AskLeave, ConfirmLeave, MarkBotLeft
<1> QED BY <1>3, <1>4

LEMMA AdmissionStarts == AdmissionInit => AdmissionInv
<1> SUFFICES ASSUME AdmissionInit PROVE AdmissionInv
  OBVIOUS
<1>1. AdmissionTypeOK
  <2>1. attempts \in [Strangers -> Nat] /\ notices \in [Strangers -> Nat]
    BY DEF AdmissionInit
  <2>2. desk \in [Desks -> {"idle", "verify", "leave", "mark"}]
    BY DEF AdmissionInit
  <2>3. moves \in Nat /\ applied \in 0..moves
    BY DEF AdmissionInit
  <2> QED BY <2>1, <2>2, <2>3 DEF AdmissionInit, AdmissionTypeOK, BotStatuses, Adders
<1>2. IsFiniteSet({}) /\ Cardinality({}) = 0
  BY FS_EmptySet
<1>3. UpdatesFit
  BY <1>2 DEF AdmissionInit, UpdatesFit
<1>4. ExpulsionDue /\ RecordFollows
  BY DEF AdmissionInit, ExpulsionDue, RecordFollows
<1>5. \A s \in Strangers : Tells(s) = {}
  BY DEF AdmissionInit, Tells
<1>6. NoticesBacked
  <2>1. ASSUME NEW s \in Strangers
        PROVE notices[s] = 0 /\ attempts[s] = 0 /\ Cardinality(Tells(s)) = 0
    BY <1>5, <1>2 DEF AdmissionInit
  <2>2. NoticeLimit \in Nat
    OBVIOUS
  <2>3. ASSUME NEW s \in Strangers
        PROVE  /\ notices[s] + Cardinality(Tells(s)) <= attempts[s]
               /\ notices[s] + Cardinality(Tells(s)) <= NoticeLimit
    BY <2>1, <2>2
  <2> QED BY <2>3 DEF NoticesBacked
<1> QED BY <1>1, <1>3, <1>4, <1>6 DEF AdmissionInv

\* What the promise about admissions rests on, for any strangers, handlers of
\* the owner's, changes of status and limit.
THEOREM AdmissionInvCorrect == AdmissionSpec => []AdmissionInv
<1>1. ASSUME AdmissionInv, [AdmissionNext]_admissionVars PROVE AdmissionInv'
  <2>1. CASE UNCHANGED admissionVars
    BY <1>1, <2>1 DEF admissionVars, updateVars, AdmissionInv, AdmissionTypeOK, UpdatesFit,
       UpdateFits, NoticesBacked, Tells, ExpulsionDue, RecordFollows
  <2> QED BY <1>1, <2>1, ChangeKeeps, CountKeeps, LeaveKeeps, NotifyKeeps, RecordKeeps, DeskKeeps,
             OwnerLeavesKeeps, RestartKeeps DEF AdmissionNext
<1> QED BY <1>1, AdmissionStarts, PTL DEF AdmissionSpec

\* Those who may not put the bot into a chat do not keep it there, nor reach its
\* owner more often than they may.
THEOREM AdmissionKeptCorrect == AdmissionSpec => []AdmissionKept
<1>1. ASSUME AdmissionInv PROVE AdmissionKept
  <2> USE <1>1 DEF AdmissionInv
  <2>1. ASSUME NEW s \in Strangers PROVE notices[s] <= NoticeLimit
    <3>1. Cardinality(Tells(s)) \in Nat
      BY Fewer DEF Tells, UpdatesFit
    <3> QED BY <3>1 DEF NoticesBacked, AdmissionTypeOK
  <2> QED BY <2>1 DEF AdmissionKept, Quiet, ExpulsionDue, RecordFollows
<1> QED BY <1>1, AdmissionInvCorrect, PTL

----------------------------------------------------------------------------
(* The administrators.                                                     *)

\* No update is handled before its change.
Heard(c) == handled[c] <= changes[c] /\ \A n \in toHandle[c] : n <= changes[c]

\* What is kept and would be used has the changes that have been handled.
Current(c) == FreshEntry(c) => cached[c].list >= handled[c]

\* A request is on its way under the lock, so that what it brings has them, too.
Guarded(p) ==
  /\ caller[p] \in {"fetch", "store"} <=> writer = p
  /\ caller[p] # "idle" => since[p] <= handled[about[p]]
  /\ caller[p] = "store" => list[p] >= handled[about[p]]
  /\ caller[p] = "answered" => list[p] >= since[p]

AdminCacheInv == /\ AdminCacheTypeOK
                 /\ \A c \in AdminChats : Heard(c) /\ Current(c)
                 /\ \A p \in Callers : Guarded(p)

HIDE AdmissionAssumption
HIDE CooldownAssumption DEF Ticks
USE AdminCacheAssumption DEF Lists

LEMMA CallerStep ==
  ASSUME AdminCacheInv, NEW p \in Callers,
         \/ LookAgain(p) \/ ServeList(p) \/ StoreList(p) \/ FetchFails(p)
         \/ \E c \in AdminChats : IsAdmin(p, c)
  PROVE  AdminCacheInv'
<1> USE DEF AdminCacheInv, AdminCacheTypeOK
<1>1. ASSUME NEW c \in AdminChats, IsAdmin(p, c) PROVE AdminCacheInv'
  <2>1. /\ caller[p] \in {"idle", "answered"} /\ writer = NoOne
        /\ about' = [about EXCEPT ![p] = c] /\ since' = [since EXCEPT ![p] = handled[c]]
        /\ UNCHANGED <<changes, toHandle, cached, handled, writer>>
    BY <1>1 DEF IsAdmin, AnswerFrom
  <2>2. CASE AnswerFrom(p, c)
    BY <2>1, <2>2 DEF AnswerFrom, Heard, Current, Guarded, FreshEntry
  <2>3. CASE caller' = [caller EXCEPT ![p] = "missed"] /\ list' = list
    BY <2>1, <2>3 DEF Heard, Current, Guarded, FreshEntry
  <2> QED BY <1>1, <2>2, <2>3 DEF IsAdmin
<1>2. CASE LookAgain(p)
  BY <1>2 DEF LookAgain, AnswerFrom, Heard, Current, Guarded, FreshEntry
<1>3. CASE ServeList(p)
  BY <1>3 DEF ServeList, Heard, Current, Guarded, FreshEntry
<1>4. CASE StoreList(p)
  BY <1>4 DEF StoreList, Heard, Current, Guarded, FreshEntry
<1>5. CASE FetchFails(p)
  BY <1>5 DEF FetchFails, Heard, Current, Guarded, FreshEntry
<1> QED BY <1>1, <1>2, <1>3, <1>4, <1>5

LEMMA AdminCacheStep ==
  ASSUME AdminCacheInv, [AdminCacheNext]_adminVars PROVE AdminCacheInv'
<1> USE DEF AdminCacheInv, AdminCacheTypeOK
<1>1. ASSUME NEW c \in AdminChats, Change(c) PROVE AdminCacheInv'
  BY <1>1 DEF Change, Heard, Current, Guarded, FreshEntry
<1>2. ASSUME NEW c \in AdminChats, NEW n \in toHandle[c], Invalidate(c, n) PROVE AdminCacheInv'
  BY <1>2 DEF Invalidate, NoEntry, Heard, Current, Guarded, FreshEntry
<1>3. ASSUME NEW c \in AdminChats, DropEntry(c) PROVE AdminCacheInv'
  BY <1>3 DEF DropEntry, NoEntry, Heard, Current, Guarded, FreshEntry
<1>4. CASE AgePasses
  BY <1>4 DEF AgePasses, Heard, Current, Guarded, FreshEntry
<1>5. CASE AdminCacheRestart
  BY <1>5 DEF AdminCacheRestart, NoEntry, Heard, Current, Guarded, FreshEntry
<1>6. CASE UNCHANGED adminVars
  BY <1>6 DEF adminVars, Heard, Current, Guarded, FreshEntry
<1> QED BY <1>1, <1>2, <1>3, <1>4, <1>5, <1>6, CallerStep DEF AdminCacheNext

LEMMA AdminCacheInvCorrect == AdminCacheSpec => []AdminCacheInv
<1>1. AdminCacheInit => AdminCacheInv
  BY DEF AdminCacheInit, AdminCacheInv, AdminCacheTypeOK, NoEntry, Heard, Current, Guarded, FreshEntry
<1> QED BY <1>1, AdminCacheStep, PTL DEF AdminCacheSpec

\* With the update of a demotion behind it, no command of that person passes.
THEOREM RightsCurrentCorrect == AdminCacheSpec => []RightsCurrent
<1>1. AdminCacheInv => RightsCurrent
  BY DEF AdminCacheInv, Guarded, RightsCurrent
<1> QED BY <1>1, AdminCacheInvCorrect, PTL

\* The three gates.
THEOREM GatesKeptCorrect == AdmissionSpec /\ CooldownSpec /\ AdminCacheSpec => []GatesKept
BY AdmissionKeptCorrect, CooldownKeptCorrect, RightsCurrentCorrect, PTL DEF GatesKept

HIDE AdminCacheAssumption DEF Lists

-----------------------------------------------------------------------------
(* /battle.                                                                *)

\* A person's votes on a side are one.
OnePerSide(set) ==
  \A v \in set, w \in set : v.fight = w.fight /\ v.side = w.side /\ v.by = w.by => v = w

(***************************************************************************)
(* BattleFair with what it rests on: only votes of the window are kept;    *)
(* the handler of a late one will notice, since the clock only goes on and *)
(* a window, once set, stays; and what is announced is over.               *)
(***************************************************************************)
WindowKept ==
  /\ \A v \in votes : ~v.late
  /\ \A o \in Observers : observer[o].at # "idle" =>
       /\ fight[observer[o].vote.fight] # "none"
       /\ observer[o].vote.late => moment > endsAt[observer[o].vote.fight]
       /\ observer[o].at = "record" => ~observer[o].vote.late

Announced ==
  \A r \in result :
    /\ fight[r.fight] \in {"tallied", "over"}
    /\ \A v \in r.votes : v.fight = r.fight

BattleInv == BattleTypeOK /\ OnePerSide(votes) /\ WindowKept /\ Announced /\ BattleFair

LEMMA BattleTypes ==
  ASSUME BattleTypeOK, [BattleNext]_battleVars
  PROVE  BattleTypeOK'
<1> USE BattleAssumption DEF BattleTypeOK
<1>1. ASSUME NEW f \in Fights, HandleBattle(f) PROVE BattleTypeOK'
  <2>1. moment + Duration \in Nat
    OBVIOUS
  <2> QED BY <1>1, <2>1 DEF HandleBattle, Stage, BattleStages
<1>2. ASSUME NEW f \in Fights, PostMessage(f) PROVE BattleTypeOK'
  <2>1. fight' \in [Fights -> BattleStages] /\ byID' \subseteq Fights /\ byMsg' \subseteq byID'
    BY <1>2 DEF PostMessage, NextMessage, Stage, BattleStages, Unregister
  <2> QED BY <1>2, <2>1 DEF PostMessage
<1>3. ASSUME NEW f \in Fights, SetMessageIDs(f) PROVE BattleTypeOK'
  <2>1. moment + Duration \in Nat
    OBVIOUS
  <2> QED BY <1>3, <2>1 DEF SetMessageIDs, Stage, BattleStages
<1>4. ASSUME NEW f \in Fights, Tally(f) PROVE BattleTypeOK'
  <2>1. fight' \in [Fights -> BattleStages]
    BY <1>4 DEF Tally, Stage, BattleStages
  <2>2. \A r \in result' : r.fight \in Fights /\ r.votes \subseteq Votes
    BY <1>4 DEF Tally
  <2> QED BY <1>4, <2>1, <2>2 DEF Tally
<1>5. ASSUME NEW f \in Fights, RemoveTallied(f) PROVE BattleTypeOK'
  BY <1>5 DEF RemoveTallied, Stage, BattleStages, Unregister
<1>6. ASSUME NEW o \in Observers, NEW f \in Fights, NEW s \in Sides, NEW u \in Voters,
             LookupReaction(o, f, s, u)
      PROVE  BattleTypeOK'
  <2>1. [fight |-> f, side |-> s, by |-> u, late |-> moment > endsAt[f]] \in Votes
    BY DEF Votes
  <2> QED BY <1>6, <2>1 DEF LookupReaction
<1>7. ASSUME NEW o \in Observers, CheckWindow(o) PROVE BattleTypeOK'
  <2>1. observer[o] \in [at : {"check", "record"}, vote : Votes]
    BY <1>7 DEF CheckWindow, NoReaction
  <2>2. [observer[o] EXCEPT !.at = "record"] \in [at : {"check", "record"}, vote : Votes]
    BY <2>1
  <2>3. observer' \in [Observers -> {NoReaction} \cup [at : {"check", "record"}, vote : Votes]]
    BY <1>7, <2>2 DEF CheckWindow
  <2> QED BY <1>7, <2>3 DEF CheckWindow
<1>8. ASSUME NEW o \in Observers, RecordVote(o) PROVE BattleTypeOK'
  <2>1. observer[o].vote \in Votes
    BY <1>8 DEF RecordVote, NoReaction
  <2>2. votes' \subseteq Votes
    BY <1>8, <2>1 DEF RecordVote
  <2>3. observer' \in [Observers -> {NoReaction} \cup [at : {"check", "record"}, vote : Votes]]
    BY <1>8 DEF RecordVote
  <2> QED BY <1>8, <2>2, <2>3 DEF RecordVote
<1>9. CASE BattleTick
  BY <1>9 DEF BattleTick
<1>10. CASE BattleRestart
  BY <1>10 DEF BattleRestart, BattleStages
<1>11. CASE UNCHANGED battleVars
  BY <1>11 DEF battleVars
<1> QED BY <1>1, <1>2, <1>3, <1>4, <1>5, <1>6, <1>7, <1>8, <1>9, <1>10, <1>11 DEF BattleNext

\* A battle that has begun stays begun, its window does not move, and the clock
\* does not go back.
Begun(f) == fight[f] # "none" => fight'[f] # "none" /\ endsAt'[f] = endsAt[f]

LEMMA BattleGoesOn ==
  ASSUME BattleTypeOK, [BattleNext]_battleVars
  PROVE  moment <= moment' /\ \A f \in Fights : Begun(f)
<1> USE DEF BattleTypeOK, Begun
<1>1. ASSUME NEW f \in Fights,
             HandleBattle(f) \/ PostMessage(f) \/ SetMessageIDs(f) \/ Tally(f) \/ RemoveTallied(f)
      PROVE  moment <= moment' /\ \A g \in Fights : Begun(g)
  BY <1>1 DEF HandleBattle, PostMessage, NextMessage, SetMessageIDs, Tally, RemoveTallied, Stage
<1>2. ASSUME NEW o \in Observers,
             \/ CheckWindow(o) \/ RecordVote(o)
             \/ \E f \in Fights, s \in Sides, u \in Voters : LookupReaction(o, f, s, u)
      PROVE  moment <= moment' /\ \A g \in Fights : Begun(g)
  BY <1>2 DEF CheckWindow, RecordVote, LookupReaction
<1>3. CASE BattleTick
  BY <1>3, BattleAssumption DEF BattleTick
<1>4. CASE BattleRestart
  BY <1>4 DEF BattleRestart
<1>5. CASE UNCHANGED battleVars
  BY <1>5 DEF battleVars
<1> QED BY <1>1, <1>2, <1>3, <1>4, <1>5 DEF BattleNext

\* Steps of a battle leave the handlers of reactions as they were, and add no
\* vote.
LEMMA OthersKeepWindow ==
  ASSUME BattleTypeOK, WindowKept, [BattleNext]_battleVars,
         observer' = observer, votes' \subseteq votes
  PROVE  WindowKept'
<1>1. /\ moment \in Nat /\ moment' \in Nat /\ endsAt \in [Fights -> Nat]
      /\ moment <= moment' /\ \A f \in Fights : Begun(f)
  BY BattleTypes, BattleGoesOn, BattleAssumption DEF BattleTypeOK
<1>2. ASSUME NEW o \in Observers, observer[o].at # "idle"
      PROVE  /\ fight'[observer[o].vote.fight] # "none"
             /\ observer[o].vote.late => moment' > endsAt'[observer[o].vote.fight]
             /\ observer[o].at = "record" => ~observer[o].vote.late
  <2>1. observer[o].vote \in Votes
    BY <1>2 DEF BattleTypeOK, NoReaction
  <2>2. PICK g \in Fights : g = observer[o].vote.fight
    BY <2>1 DEF Votes
  <2>3. /\ fight[g] # "none" /\ (observer[o].vote.late => moment > endsAt[g])
        /\ observer[o].at = "record" => ~observer[o].vote.late
    BY <1>2, <2>2 DEF WindowKept
  <2>4. fight'[g] # "none" /\ endsAt'[g] = endsAt[g]
    BY <1>1, <2>3 DEF Begun
  <2>5. moment > endsAt[g] => moment' > endsAt[g]
    BY <1>1
  <2> QED BY <2>2, <2>3, <2>4, <2>5
<1>3. \A v \in votes' : ~v.late
  BY DEF WindowKept
<1> QED BY <1>2, <1>3 DEF WindowKept

LEMMA BattleWindow ==
  ASSUME BattleTypeOK, WindowKept, BattleFair, [BattleNext]_battleVars
  PROVE  WindowKept'
<1>1. ASSUME NEW f \in Fights,
             HandleBattle(f) \/ PostMessage(f) \/ SetMessageIDs(f) \/ Tally(f) \/ RemoveTallied(f)
      PROVE  observer' = observer /\ votes' \subseteq votes
  BY <1>1 DEF HandleBattle, PostMessage, SetMessageIDs, Tally, RemoveTallied
<1>2. ASSUME NEW o \in Observers, NEW f \in Fights, NEW s \in Sides, NEW u \in Voters,
             LookupReaction(o, f, s, u)
      PROVE  WindowKept'
  <2> DEFINE v == [fight |-> f, side |-> s, by |-> u, late |-> moment > endsAt[f]]
  <2>1. fight[f] # "none"
    BY <1>2 DEF LookupReaction, BattleFair
  <2>2. observer' = [observer EXCEPT ![o] = [at |-> "check", vote |-> v]]
    BY <1>2 DEF LookupReaction
  <2>3. /\ observer'[o].vote.fight = f /\ observer'[o].at = "check"
        /\ observer'[o].vote.late <=> moment > endsAt[f]
    BY <2>2 DEF BattleTypeOK
  <2>4. \A q \in Observers : q # o => observer'[q] = observer[q]
    BY <2>2 DEF BattleTypeOK
  <2>5. moment' = moment /\ fight' = fight /\ endsAt' = endsAt /\ votes' = votes
    BY <1>2 DEF LookupReaction
  <2> QED BY <2>1, <2>3, <2>4, <2>5 DEF WindowKept
<1>3. ASSUME NEW o \in Observers, CheckWindow(o) PROVE WindowKept'
  <2>1. moment' = moment /\ fight' = fight /\ endsAt' = endsAt /\ votes' = votes
    BY <1>3 DEF CheckWindow
  <2>2. \A q \in Observers : q # o => observer'[q] = observer[q]
    BY <1>3 DEF CheckWindow, BattleTypeOK
  <2>3. observer'[o].at # "idle" =>
          /\ moment <= endsAt[observer[o].vote.fight]
          /\ observer'[o].vote = observer[o].vote
    <3>1. observer[o] \in [at : {"check", "record"}, vote : Votes]
      BY <1>3 DEF CheckWindow, BattleTypeOK, NoReaction
    <3>2. endsAt[observer[o].vote.fight] \in Nat /\ moment \in Nat
      BY <3>1, BattleAssumption DEF Votes, BattleTypeOK
    <3>3. CASE moment > endsAt[observer[o].vote.fight]
      <4>1. observer'[o] = NoReaction
        BY <1>3, <3>3 DEF CheckWindow, BattleTypeOK
      <4> QED BY <4>1 DEF NoReaction
    <3>4. CASE ~(moment > endsAt[observer[o].vote.fight])
      <4>1. observer'[o] = [observer[o] EXCEPT !.at = "record"]
        BY <1>3, <3>4 DEF CheckWindow, BattleTypeOK
      <4> QED BY <3>1, <3>2, <3>4, <4>1
    <3> QED BY <3>3, <3>4
  <2>4. /\ fight[observer[o].vote.fight] # "none"
        /\ observer[o].vote.late => moment > endsAt[observer[o].vote.fight]
    BY <1>3 DEF CheckWindow, WindowKept
  <2>5. endsAt[observer[o].vote.fight] \in Nat /\ moment \in Nat
    BY <1>3, BattleAssumption DEF CheckWindow, BattleTypeOK, NoReaction, Votes
  <2>6. observer'[o].at # "idle" =>
          /\ observer'[o].vote = observer[o].vote
          /\ ~observer[o].vote.late
    BY <2>3, <2>4, <2>5
  <2> QED BY <2>1, <2>2, <2>4, <2>6 DEF WindowKept
<1>4. ASSUME NEW o \in Observers, RecordVote(o) PROVE WindowKept'
  <2>1. ~observer[o].vote.late
    BY <1>4 DEF RecordVote, WindowKept
  <2>2. votes' \subseteq votes \cup {observer[o].vote}
    BY <1>4 DEF RecordVote
  <2>3. moment' = moment /\ fight' = fight /\ endsAt' = endsAt
    BY <1>4 DEF RecordVote
  <2>4. \A q \in Observers : observer'[q] = observer[q] \/ observer'[q].at = "idle"
    BY <1>4 DEF RecordVote, BattleTypeOK, NoReaction
  <2> QED BY <2>1, <2>2, <2>3, <2>4 DEF WindowKept
<1>5. CASE BattleTick
  BY <1>5, OthersKeepWindow DEF BattleTick
<1>6. CASE BattleRestart
  BY <1>6 DEF BattleRestart, WindowKept, NoReaction
<1>7. CASE UNCHANGED battleVars
  BY <1>7 DEF battleVars, WindowKept
<1> QED BY <1>1, <1>2, <1>3, <1>4, <1>5, <1>6, <1>7, OthersKeepWindow DEF BattleNext

LEMMA BattleVotes ==
  ASSUME BattleTypeOK, OnePerSide(votes), [BattleNext]_battleVars
  PROVE  OnePerSide(votes')
<1>1. CASE votes' \subseteq votes
  BY <1>1 DEF OnePerSide
<1>2. ASSUME NEW o \in Observers, RecordVote(o) PROVE OnePerSide(votes')
  <2> DEFINE v == observer[o].vote
             same == {w \in votes : w.fight = v.fight /\ w.side = v.side /\ w.by = v.by}
  <2>1. votes' = votes \/ (same = {} /\ votes' = votes \cup {v})
    BY <1>2 DEF RecordVote
  <2>2. CASE same = {} /\ votes' = votes \cup {v}
    BY <2>2 DEF OnePerSide
  <2> QED BY <1>1, <2>1, <2>2
<1>3. [BattleNext]_battleVars => votes' \subseteq votes \/ \E o \in Observers : RecordVote(o)
  BY DEF BattleNext, battleVars, HandleBattle, PostMessage, SetMessageIDs, Tally, RemoveTallied,
         LookupReaction, CheckWindow, BattleTick, BattleRestart
<1> QED BY <1>1, <1>2, <1>3

LEMMA BattleAnnounced ==
  ASSUME BattleTypeOK, Announced, [BattleNext]_battleVars
  PROVE  Announced'
<1> USE DEF BattleTypeOK, Announced
<1>1. ASSUME NEW f \in Fights, HandleBattle(f) \/ PostMessage(f) \/ SetMessageIDs(f)
      PROVE  Announced'
  BY <1>1 DEF HandleBattle, PostMessage, NextMessage, SetMessageIDs, Stage
<1>2. ASSUME NEW f \in Fights, Tally(f) PROVE Announced'
  <2>1. fight' = [fight EXCEPT ![f] = "tallied"]
    BY <1>2 DEF Tally, Stage
  <2>2. \A r \in result' \ result : r.fight = f /\ \A v \in r.votes : v.fight = f
    BY <1>2 DEF Tally
  <2> QED BY <2>1, <2>2
<1>3. ASSUME NEW f \in Fights, RemoveTallied(f) PROVE Announced'
  BY <1>3 DEF RemoveTallied, Stage
<1>4. ASSUME NEW o \in Observers,
             \/ CheckWindow(o) \/ RecordVote(o)
             \/ \E f \in Fights, s \in Sides, u \in Voters : LookupReaction(o, f, s, u)
      PROVE  Announced'
  BY <1>4 DEF CheckWindow, RecordVote, LookupReaction
<1>5. CASE BattleTick \/ UNCHANGED battleVars
  BY <1>5 DEF BattleTick, battleVars
<1>6. CASE BattleRestart
  BY <1>6 DEF BattleRestart
<1> QED BY <1>1, <1>2, <1>3, <1>4, <1>5, <1>6 DEF BattleNext

\* The registry and the stages move together.
Registered == /\ byID = {f \in Fights : fight[f] \notin {"none", "over"}}
              /\ byMsg = {f \in Fights : fight[f] \in {"timer", "tallied"}}

LEMMA BattleRegistered ==
  ASSUME BattleTypeOK, Registered, [BattleNext]_battleVars
  PROVE  Registered'
<1> USE DEF BattleTypeOK, Registered
<1>1. ASSUME NEW f \in Fights, HandleBattle(f) PROVE Registered'
  BY <1>1 DEF HandleBattle, Stage
<1>2. ASSUME NEW f \in Fights, PostMessage(f) PROVE Registered'
  <2>1. fight[f] \in {"header", "left", "right"}
    BY <1>2 DEF PostMessage, NextMessage
  <2>2. CASE fight' = [fight EXCEPT ![f] = "over"] /\ byID' = byID \ {f} /\ byMsg' = byMsg \ {f}
    BY <2>1, <2>2
  <2>3. CASE /\ fight' = [fight EXCEPT ![f] = NextMessage[fight[f]]]
             /\ byID' = byID /\ byMsg' = byMsg
    <3>1. NextMessage[fight[f]] \in {"left", "right", "wire"}
      BY <2>1 DEF NextMessage
    <3> QED BY <2>1, <2>3, <3>1
  <2> QED BY <1>2, <2>2, <2>3 DEF PostMessage, Stage, Unregister
<1>3. ASSUME NEW f \in Fights, SetMessageIDs(f) PROVE Registered'
  BY <1>3 DEF SetMessageIDs, Stage
<1>4. ASSUME NEW f \in Fights, Tally(f) PROVE Registered'
  BY <1>4 DEF Tally, Stage
<1>5. ASSUME NEW f \in Fights, RemoveTallied(f) PROVE Registered'
  BY <1>5 DEF RemoveTallied, Stage, Unregister
<1>6. ASSUME NEW o \in Observers,
             \/ CheckWindow(o) \/ RecordVote(o)
             \/ \E f \in Fights, s \in Sides, u \in Voters : LookupReaction(o, f, s, u)
      PROVE  Registered'
  BY <1>6 DEF CheckWindow, RecordVote, LookupReaction
<1>7. CASE BattleTick \/ UNCHANGED battleVars
  BY <1>7 DEF BattleTick, battleVars
<1>8. CASE BattleRestart
  BY <1>8 DEF BattleRestart
<1> QED BY <1>1, <1>2, <1>3, <1>4, <1>5, <1>6, <1>7, <1>8 DEF BattleNext

LEMMA BattleStep ==
  ASSUME BattleInv, [BattleNext]_battleVars
  PROVE  BattleInv'
<1>1. /\ BattleTypeOK /\ OnePerSide(votes) /\ WindowKept /\ Announced /\ BattleFair /\ Registered
  BY DEF BattleInv, BattleFair, Registered
<1>2. BattleTypeOK' /\ OnePerSide(votes)' /\ WindowKept' /\ Announced' /\ Registered'
  BY <1>1, BattleTypes, BattleVotes, BattleWindow, BattleAnnounced, BattleRegistered
     DEF OnePerSide
<1>3. result' = result \/ \E f \in Fights :
        /\ fight[f] = "timer"
        /\ result' = result \cup {[fight |-> f, votes |-> {v \in votes : v.fight = f}]}
  BY DEF BattleNext, battleVars, HandleBattle, PostMessage, SetMessageIDs, Tally, RemoveTallied,
         LookupReaction, CheckWindow, RecordVote, BattleTick, BattleRestart
<1>4. \A r \in result', s \in result' : s.fight = r.fight => s = r
  <2>1. \A r \in result, s \in result : s.fight = r.fight => s = r
    BY <1>1 DEF BattleFair
  <2>2. ASSUME NEW f \in Fights, fight[f] = "timer"
        PROVE  \A r \in result : r.fight # f
    BY <1>1, <2>2 DEF Announced
  <2>3. CASE result' = result
    BY <2>1, <2>3
  <2>4. ASSUME NEW f \in Fights, fight[f] = "timer", NEW n, n.fight = f,
               result' = result \cup {n}
        PROVE  \A r \in result', s \in result' : s.fight = r.fight => s = r
    <3>1. \A r \in result : r.fight # n.fight
      BY <2>2, <2>4
    <3> QED BY <2>1, <2>4, <3>1
  <2> QED BY <1>3, <2>3, <2>4
<1>5. \A r \in result' : \A v \in r.votes :
        /\ ~v.late
        /\ \A w \in r.votes : w.side = v.side /\ w.by = v.by => w = v
  BY <1>1, <1>3 DEF BattleFair, WindowKept, OnePerSide
<1>6. BattleFair'
  BY <1>2, <1>4, <1>5 DEF BattleFair, Registered
<1> QED BY <1>2, <1>6 DEF BattleInv

LEMMA BattleInvCorrect == BattleSpec => []BattleInv
<1>1. ASSUME BattleInit PROVE BattleInv
  <2>1. BattleTypeOK
    BY <1>1, BattleAssumption DEF BattleInit, BattleTypeOK, BattleStages
  <2>2. OnePerSide(votes) /\ WindowKept /\ Announced
    BY <1>1 DEF BattleInit, OnePerSide, WindowKept, Announced, NoReaction
  <2>3. BattleFair
    BY <1>1 DEF BattleInit, BattleFair
  <2> QED BY <2>1, <2>2, <2>3 DEF BattleInv
<1> QED BY <1>1, BattleStep, PTL DEF BattleSpec

\* A battle is announced once, from the votes of its window, one of a person on
\* a side, for any battles, people and reactions handled at once
\* (games_battle.go, battle.go).
THEOREM BattleFairCorrect == BattleSpec => []BattleFair
  BY BattleInvCorrect, PTL DEF BattleInv
-----------------------------------------------------------------------------
(* /dice.                                                                  *)

\* A roll is about to be written because it improves on the record read.
WritesImprove ==
  \A t \in Throws : throw[t].at = "write" => Improves(throw[t].roll, throw[t].prev)

DiceInv == DiceTypeOK /\ WritesImprove /\ BestKept

LEMMA DiceStep ==
  ASSUME DiceInv, [DiceNext]_diceVars
  PROVE  DiceInv'
<1> USE DEF DiceInv
<1>1. ASSUME NEW t \in Throws, NEW u \in Throwers, HandleDice(t, u) PROVE DiceInv'
  <2>1. DiceTypeOK'
    BY <1>1 DEF HandleDice, DiceTypeOK, Results
  <2>2. WritesImprove'
    BY <1>1 DEF HandleDice, DiceTypeOK, WritesImprove, Improves
  <2> QED BY <1>1, <2>1, <2>2 DEF HandleDice, BestKept
<1>2. ASSUME NEW t \in Throws, LoadRecord(t) PROVE DiceInv'
  <2>1. throw[t].roll \in Results
    BY <1>2 DEF LoadRecord, DiceTypeOK, NoThrow
  <2>2. DiceTypeOK'
    BY <1>2, <2>1 DEF LoadRecord, Counts, DiceTypeOK
  <2>3. WritesImprove'
    BY <1>2 DEF LoadRecord, DiceTypeOK, WritesImprove, Improves, NoThrow
  <2>4. BestKept'
    BY <1>2, <2>1, DiceAssumption DEF LoadRecord, Counts, DiceTypeOK, Improves, BestKept, Results
  <2> QED BY <2>2, <2>3, <2>4
<1>3. ASSUME NEW t \in Throws, StoreRecord(t) PROVE DiceInv'
  <2>1. throw[t].roll \in Results /\ throw[t].prev \in Results \cup {NoBest}
    BY <1>3 DEF StoreRecord, DiceTypeOK, NoThrow
  <2>2. DiceTypeOK'
    BY <1>3, <2>1 DEF StoreRecord, Counts, DiceTypeOK
  <2>3. WritesImprove'
    BY <1>3 DEF StoreRecord, DiceTypeOK, WritesImprove, Improves, NoThrow
  <2>4. Improves(throw[t].roll, throw[t].prev)
    BY <1>3 DEF StoreRecord, WritesImprove
  <2>5. BestKept'
    <3>1. CASE UNCHANGED <<leader, best>>
      BY <3>1 DEF BestKept
    <3>2. CASE /\ leader' = throw[t].roll /\ leader = throw[t].prev
               /\ Counts(throw[t].roll)
      <4>1. best # NoBest => best.value < throw[t].roll.value
        BY <2>1, <2>4, <3>2 DEF BestKept, Improves, Results
      <4>2. best' = throw[t].roll
        BY <3>2, <4>1, Zenon DEF Counts
      <4> QED BY <3>2, <4>2 DEF BestKept
    <3>3. CASE leader' = throw[t].roll /\ best' = throw[t].roll
      BY <3>3 DEF BestKept
    <3> QED BY <1>3, <3>1, <3>2, <3>3 DEF StoreRecord
  <2> QED BY <2>2, <2>3, <2>5
<1>4. CASE DiceRestart
  BY <1>4 DEF DiceRestart, DiceTypeOK, WritesImprove, BestKept, NoThrow
<1>5. CASE UNCHANGED diceVars
  BY <1>5 DEF diceVars, DiceTypeOK, WritesImprove, BestKept
<1> QED BY <1>1, <1>2, <1>3, <1>4, <1>5 DEF DiceNext

LEMMA DiceInvCorrect == DiceSpec => []DiceInv
<1>1. DiceInit => DiceInv
  <2> SUFFICES ASSUME DiceInit PROVE DiceInv
    OBVIOUS
  <2>1. DiceTypeOK
    BY DEF DiceInit, DiceTypeOK
  <2>2. WritesImprove
    BY DEF DiceInit, WritesImprove, NoThrow
  <2>3. BestKept
    BY Zenon DEF DiceInit, BestKept
  <2> QED BY <2>1, <2>2, <2>3 DEF DiceInv
<1> QED BY <1>1, DiceStep, PTL DEF DiceSpec

\* The record is the best roll since a handler last replaced a record that it
\* had not read, and of the first to throw it, for any rolls, people and commands
\* (games/dice/service.go:52, dice_repo.go).  Nothing is said of the roll that
\* such a handler puts over another: it may be lower.
THEOREM BestKeptCorrect == DiceSpec => []BestKept
  BY DiceInvCorrect, PTL DEF DiceInv
-----------------------------------------------------------------------------
(* /hangman.                                                               *)

\* A board that can be played on.
Playable(b) ==
  /\ b.wrong = Cardinality(b.used \ b.word)
  /\ b.wrong < MaxWrong
  /\ ~fullyRevealed(b)

\* What a goroutine writes back can be played on too: the guess that ends the
\* round never writes.
BoardsPlayable ==
  /\ board # NoBoard => Playable(board)
  /\ \A p \in Players : turn[p].at = "put" => Playable(turn[p].next)

\* Goroutine p has read round r and has yet to act on it.
HoldsBoard(p, r) == turn[p].at \in {"put", "end"} /\ turn[p].next.id = r

\* Rounds are numbered as they begin.
BoardsNumbered ==
  \A r \in 1..LastBoard :
    (\/ revealed[r] > 0
     \/ board # NoBoard /\ board.id = r
     \/ \E p \in Players : HoldsBoard(p, r)) => r <= boards

(***************************************************************************)
(* A round no two goroutines held at once has one holder at most, and is   *)
(* nowhere any more once its word was announced.                           *)
(***************************************************************************)
EndsOnce ==
  \A r \in 1..LastBoard \ mixed :
    /\ \A p, q \in Players : HoldsBoard(p, r) /\ HoldsBoard(q, r) => p = q
    /\ revealed[r] > 0 => /\ revealed[r] = 1
                          /\ board # NoBoard => board.id # r
                          /\ \A p \in Players : ~HoldsBoard(p, r)

HangmanInv == HangmanTypeOK /\ BoardsPlayable /\ BoardsNumbered /\ EndsOnce

LEMMA AfterLetterKeeps ==
  ASSUME NEW b \in Boards, NEW l
  PROVE  AfterLetter(b, l).id = b.id
  BY DEF AfterLetter, Boards

\* A letter leaves a board with the misses it shows.
LEMMA LetterCounts ==
  ASSUME NEW b \in Boards, Playable(b), NEW l \in Letters, l \notin b.used
  PROVE  /\ AfterLetter(b, l) \in Boards
         /\ AfterLetter(b, l).id = b.id
         /\ ~Over(AfterLetter(b, l), l) => Playable(AfterLetter(b, l))
<1> DEFINE n == AfterLetter(b, l)
<1>1. /\ n.id = b.id /\ n.word = b.word /\ n.used = b.used \cup {l} /\ n.started = b.started
      /\ n.wrong = IF l \in b.word THEN b.wrong ELSE b.wrong + 1
  BY DEF AfterLetter, Boards
<1>2. b.used \ b.word \subseteq Letters /\ b.word \subseteq Letters /\ b.word \in Words
  BY HangmanAssumption DEF Boards
<1>3. IsFiniteSet(b.used \ b.word) /\ IsFiniteSet(n.used \ n.word)
  BY <1>1, <1>2, FS_Subset, HangmanAssumption
<1>4. n.wrong = Cardinality(n.used \ n.word)
  <2>1. CASE l \in b.word
    <3>1. n.used \ n.word = b.used \ b.word
      BY <1>1, <2>1
    <3> QED BY <1>1, <2>1, <3>1 DEF Playable
  <2>2. CASE l \notin b.word
    <3>1. n.used \ n.word = (b.used \ b.word) \cup {l} /\ l \notin b.used \ b.word
      BY <1>1, <2>2
    <3>2. Cardinality((b.used \ b.word) \cup {l}) = Cardinality(b.used \ b.word) + 1
      BY <1>3, <3>1, FS_AddElement
    <3> QED BY <1>1, <2>2, <3>1, <3>2 DEF Playable
  <2> QED BY <2>1, <2>2
<1>5. n.wrong \in 0..Cardinality(Letters)
  <2>1. n.used \ n.word \subseteq Letters
    BY <1>1, <1>2
  <2>2. Cardinality(n.used \ n.word) <= Cardinality(Letters) /\ Cardinality(n.used \ n.word) \in Nat
        /\ Cardinality(Letters) \in Nat
    BY <1>3, <2>1, FS_Subset, FS_CardinalityType, HangmanAssumption
  <2> QED BY <1>4, <2>2
<1>6. n \in Boards
  <2>1. n = [b EXCEPT !.used = b.used \cup {l}, !.wrong = n.wrong]
    BY <1>1 DEF AfterLetter, Boards
  <2>2. b.used \cup {l} \in SUBSET Letters
    BY DEF Boards
  <2> HIDE DEF n
  <2> QED BY <1>5, <2>1, <2>2 DEF Boards
<1>7. ASSUME ~Over(n, l) PROVE Playable(n)
  <2>1. CASE l \in b.word
    <3>1. ~fullyRevealed(n)
      BY <1>1, <1>7, <2>1 DEF Over
    <3>2. n.wrong < MaxWrong
      BY <1>1, <2>1 DEF Playable
    <3> QED BY <1>4, <3>1, <3>2 DEF Playable
  <2>2. CASE l \notin b.word
    <3>1. ~(n.wrong >= MaxWrong)
      BY <1>1, <1>7, <2>2 DEF Over
    <3>2. n.wrong < MaxWrong
      BY <3>1, <1>5, HangmanAssumption
    <3>3. ~fullyRevealed(n)
      BY <1>1, <2>2 DEF Playable, fullyRevealed
    <3> QED BY <1>4, <3>2, <3>3 DEF Playable
  <2> QED BY <2>1, <2>2
<1> QED BY <1>1, <1>6, <1>7

\* A board just drawn can be played on.
LEMMA NewBoardPlayable ==
  ASSUME NEW w \in Words, NEW b, b.word = w, b.used = {}, b.wrong = 0
  PROVE  Playable(b)
<1>1. w # {} /\ MaxWrong \in Nat \ {0}
  BY HangmanAssumption
<1>2. b.used \ b.word = {}
  OBVIOUS
<1> QED BY <1>1, <1>2, FS_EmptySet DEF Playable, fullyRevealed

LEMMA HangmanTypes ==
  ASSUME HangmanTypeOK, BoardsPlayable, [HangmanNext]_hangmanVars
  PROVE  HangmanTypeOK'
<1> USE DEF HangmanTypeOK, Moves, Rests
<1>1. ASSUME NEW p \in Players, StartHangman(p) PROVE HangmanTypeOK'
  BY <1>1, HangmanAssumption DEF StartHangman
<1>2. ASSUME NEW p \in Players, PutNewBoard(p) PROVE HangmanTypeOK'
  <2>1. turn[p].date \in 0..LastHour
    BY <1>2 DEF PutNewBoard, NoTurn
  <2>2. boards' \in 0..LastBoard /\ (boards' # boards => boards' \in 1..LastBoard)
    BY <1>2, HangmanAssumption DEF PutNewBoard
  <2>3. board' \in Boards \cup {NoBoard}
    <3>1. CASE board' = board
      BY <3>1
    <3>2. ASSUME NEW w \in Words, boards < LastBoard, boards' = boards + 1,
                 board' = [id |-> boards', word |-> w, used |-> {}, wrong |-> 0,
                           started |-> turn[p].date]
          PROVE  board' \in Boards
      <4>1. boards' \in 1..LastBoard
        BY <3>2, HangmanAssumption
      <4>2. 0 \in 0..Cardinality(Letters)
        BY FS_CardinalityType, HangmanAssumption
      <4> QED BY <2>1, <3>2, <4>1, <4>2 DEF Boards
    <3> QED BY <1>2, <3>1, <3>2 DEF PutNewBoard
  <2> QED BY <1>2, <2>2, <2>3 DEF PutNewBoard
<1>3. ASSUME NEW p \in Players, NEW l \in Letters, GuessLetter(p, l) PROVE HangmanTypeOK'
  <2>1. board \in Boards /\ Playable(board) /\ l \notin board.used
    BY <1>3 DEF GuessLetter, BoardsPlayable
  <2>2. AfterLetter(board, l) \in Boards
    BY <2>1, LetterCounts
  <2>3. mixed' \subseteq 1..LastBoard
    BY <1>3, <2>1 DEF GuessLetter, Boards
  <2>4. turn' \in [Players -> {NoTurn} \cup [at : {"start"}, date : 0..LastHour]
                                       \cup [at : {"put", "end"}, next : Boards]]
    BY <1>3, <2>2 DEF GuessLetter
  <2> QED BY <1>3, <2>3, <2>4 DEF GuessLetter
<1>4. ASSUME NEW p \in Players, PutBoard(p) PROVE HangmanTypeOK'
  BY <1>4 DEF PutBoard, NoTurn
<1>5. ASSUME NEW p \in Players, EndBoard(p) PROVE HangmanTypeOK'
  <2>1. turn[p].next \in Boards
    BY <1>5 DEF EndBoard, NoTurn
  <2>2. turn[p].next.id \in 1..LastBoard
    BY <2>1 DEF Boards
  <2>3. revealed' \in [1..LastBoard -> 0..MostEnds]
    <3>1. revealed[turn[p].next.id] < MostEnds => revealed[turn[p].next.id] + 1 \in 0..MostEnds
      <4>1. revealed[turn[p].next.id] \in 0..MostEnds /\ MostEnds \in Nat
        BY <2>2, HangmanAssumption
      <4> HIDE DEF HangmanTypeOK
      <4> QED BY <4>1
    <3> QED BY <1>5, <2>2, <3>1 DEF EndBoard
  <2> QED BY <1>5, <2>3 DEF EndBoard
<1>6. CASE HangmanTick
  BY <1>6, HangmanAssumption DEF HangmanTick
<1>7. CASE HangmanRestart
  BY <1>7 DEF HangmanRestart
<1>8. CASE UNCHANGED hangmanVars
  BY <1>8 DEF hangmanVars
<1> QED BY <1>1, <1>2, <1>3, <1>4, <1>5, <1>6, <1>7, <1>8 DEF HangmanNext

LEMMA HangmanPlayable ==
  ASSUME HangmanTypeOK, BoardsPlayable, [HangmanNext]_hangmanVars
  PROVE  BoardsPlayable'
<1> USE DEF BoardsPlayable, Playable, fullyRevealed
<1>1. ASSUME NEW p \in Players, StartHangman(p) PROVE BoardsPlayable'
  BY <1>1 DEF StartHangman, HangmanTypeOK, Moves
<1>2. ASSUME NEW p \in Players, PutNewBoard(p) PROVE BoardsPlayable'
  <2>1. board' = board \/ Playable(board)'
    <3>1. ASSUME NEW w \in Words, board'.word = w, board'.used = {}, board'.wrong = 0
          PROVE  Playable(board)'
      <4>1. PICK b : b = board'
        OBVIOUS
      <4>2. Playable(b)
        BY <3>1, <4>1, NewBoardPlayable
      <4> QED BY <4>1, <4>2
    <3> QED BY <1>2, <3>1 DEF PutNewBoard
  <2>2. \A q \in Players : turn'[q] = turn[q] \/ turn'[q].at = "idle"
    BY <1>2 DEF PutNewBoard, Rests, Moves, HangmanTypeOK, NoTurn
  <2> QED BY <2>1, <2>2
<1>3. ASSUME NEW p \in Players, NEW l \in Letters, GuessLetter(p, l) PROVE BoardsPlayable'
  <2>1. board \in Boards /\ Playable(board) /\ l \notin board.used
    BY <1>3 DEF GuessLetter, HangmanTypeOK
  <2> DEFINE n == AfterLetter(board, l)
  <2>2. ~Over(n, l) => Playable(n)
    BY <2>1, LetterCounts
  <2>3. turn' = [turn EXCEPT ![p] = [at |-> IF Over(n, l) THEN "end" ELSE "put", next |-> n]]
    BY <1>3 DEF GuessLetter, Moves
  <2> HIDE DEF n
  <2>4. turn'[p].at = "put" => Playable(turn'[p].next)
    BY <2>2, <2>3 DEF HangmanTypeOK
  <2>5. \A q \in Players : q # p => turn'[q] = turn[q]
    BY <2>3 DEF HangmanTypeOK
  <2>6. board' = board
    BY <1>3 DEF GuessLetter
  <2> QED BY <2>4, <2>5, <2>6
<1>4. ASSUME NEW p \in Players, PutBoard(p) \/ EndBoard(p) PROVE BoardsPlayable'
  <2>1. \A q \in Players : turn'[q] = turn[q] \/ turn'[q].at = "idle"
    BY <1>4 DEF PutBoard, EndBoard, Rests, Moves, HangmanTypeOK, NoTurn
  <2>2. board' \in {board, NoBoard} \/ (turn[p].at = "put" /\ board' = turn[p].next)
    BY <1>4 DEF PutBoard, EndBoard
  <2> QED BY <2>1, <2>2
<1>5. CASE HangmanTick \/ UNCHANGED hangmanVars
  BY <1>5 DEF HangmanTick, hangmanVars
<1>6. CASE HangmanRestart
  BY <1>6 DEF HangmanRestart, NoTurn
<1> QED BY <1>1, <1>2, <1>3, <1>4, <1>5, <1>6 DEF HangmanNext

\* What goroutines hold, after steps that read no round.
LEMMA HoldersShrink ==
  ASSUME HangmanTypeOK,
         \/ \E p \in Players : StartHangman(p) \/ PutNewBoard(p) \/ PutBoard(p) \/ EndBoard(p)
         \/ HangmanTick \/ HangmanRestart \/ UNCHANGED hangmanVars
  PROVE  /\ mixed' = mixed
         /\ \A q \in Players, r \in 1..LastBoard : HoldsBoard(q, r)' => HoldsBoard(q, r)
<1>1. mixed' = mixed
  BY DEF StartHangman, PutNewBoard, PutBoard, EndBoard, HangmanTick, HangmanRestart, hangmanVars
<1>2. \A q \in Players : turn'[q] = turn[q] \/ turn'[q].at \in {"idle", "start"}
  BY DEF StartHangman, PutNewBoard, PutBoard, EndBoard, HangmanTick, HangmanRestart, hangmanVars,
         Moves, Rests, HangmanTypeOK, NoTurn
<1> QED BY <1>1, <1>2 DEF HoldsBoard

LEMMA HangmanNumbered ==
  ASSUME HangmanTypeOK, BoardsNumbered, [HangmanNext]_hangmanVars
  PROVE  BoardsNumbered'
<1>0. boards \in Nat
  BY HangmanAssumption DEF HangmanTypeOK
<1>1. ASSUME NEW p \in Players, PutNewBoard(p) PROVE BoardsNumbered'
  <2>1. \A q \in Players, r \in 1..LastBoard : HoldsBoard(q, r)' => HoldsBoard(q, r)
    BY <1>1, HoldersShrink
  <2>2. \/ boards' = boards /\ board' = board
        \/ boards' = boards + 1 /\ board'.id = boards + 1
    BY <1>1 DEF PutNewBoard
  <2>3. revealed' = revealed
    BY <1>1 DEF PutNewBoard
  <2> QED BY <1>0, <2>1, <2>2, <2>3 DEF BoardsNumbered
<1>2. ASSUME NEW p \in Players, NEW l \in Letters, GuessLetter(p, l) PROVE BoardsNumbered'
  <2>1. \A q \in Players, r \in 1..LastBoard :
          HoldsBoard(q, r)' => HoldsBoard(q, r) \/ (board # NoBoard /\ board.id = r)
    BY <1>2, AfterLetterKeeps DEF GuessLetter, Moves, HoldsBoard, HangmanTypeOK
  <2> QED BY <1>2, <2>1 DEF GuessLetter, BoardsNumbered
<1>3. ASSUME NEW p \in Players, PutBoard(p) PROVE BoardsNumbered'
  <2>1. \A q \in Players, r \in 1..LastBoard : HoldsBoard(q, r)' => HoldsBoard(q, r)
    BY <1>3, HoldersShrink
  <2>2. \A r : board' # NoBoard /\ board'.id = r =>
          (board # NoBoard /\ board.id = r) \/ HoldsBoard(p, r)
    BY <1>3 DEF PutBoard, HoldsBoard
  <2> QED BY <1>3, <2>1, <2>2 DEF PutBoard, BoardsNumbered
<1>4. ASSUME NEW p \in Players, EndBoard(p) PROVE BoardsNumbered'
  <2>1. \A q \in Players, r \in 1..LastBoard : HoldsBoard(q, r)' => HoldsBoard(q, r)
    BY <1>4, HoldersShrink
  <2>2. \A r \in 1..LastBoard : revealed'[r] > 0 => revealed[r] > 0 \/ HoldsBoard(p, r)
    BY <1>4 DEF EndBoard, HoldsBoard, HangmanTypeOK
  <2>3. board' # NoBoard => board' = board
    BY <1>4 DEF EndBoard
  <2>4. boards' = boards
    BY <1>4 DEF EndBoard
  <2> QED BY <2>1, <2>2, <2>3, <2>4 DEF BoardsNumbered
<1>5. ASSUME (\E p \in Players : StartHangman(p)) \/ HangmanTick \/ HangmanRestart
               \/ UNCHANGED hangmanVars
      PROVE  BoardsNumbered'
  <2>1. \A q \in Players, r \in 1..LastBoard : HoldsBoard(q, r)' => HoldsBoard(q, r)
    BY <1>5, HoldersShrink
  <2>2. boards' = boards /\ board' = board /\ revealed' = revealed
    BY <1>5 DEF StartHangman, HangmanTick, HangmanRestart, hangmanVars
  <2> QED BY <2>1, <2>2 DEF BoardsNumbered
<1> QED BY <1>1, <1>2, <1>3, <1>4, <1>5 DEF HangmanNext

LEMMA HangmanEndsOnce ==
  ASSUME HangmanTypeOK, BoardsNumbered, EndsOnce, [HangmanNext]_hangmanVars
  PROVE  EndsOnce'
<1>0. revealed \in [1..LastBoard -> Nat] /\ boards \in Nat
  BY HangmanAssumption DEF HangmanTypeOK
<1>1. ASSUME NEW p \in Players, PutNewBoard(p) PROVE EndsOnce'
  <2>1. /\ mixed' = mixed
        /\ \A q \in Players, r \in 1..LastBoard : HoldsBoard(q, r)' => HoldsBoard(q, r)
    BY <1>1, HoldersShrink
  <2>2. revealed' = revealed
    BY <1>1 DEF PutNewBoard
  <2>3. board' = board \/ board'.id = boards + 1
    BY <1>1 DEF PutNewBoard
  <2>4. \A r \in 1..LastBoard : revealed[r] > 0 => r # boards + 1
    BY <1>0 DEF BoardsNumbered
  <2> QED BY <2>1, <2>2, <2>3, <2>4 DEF EndsOnce
<1>2. ASSUME NEW p \in Players, NEW l \in Letters, GuessLetter(p, l) PROVE EndsOnce'
  <2>1. /\ \A q \in Players, r \in 1..LastBoard : q # p /\ HoldsBoard(q, r)' => HoldsBoard(q, r)
        /\ \A r \in 1..LastBoard : HoldsBoard(p, r)' => board.id = r
    BY <1>2, AfterLetterKeeps DEF GuessLetter, Moves, HoldsBoard, HangmanTypeOK
  <2>2. board # NoBoard /\ board' = board /\ revealed' = revealed
    BY <1>2 DEF GuessLetter
  <2>3. /\ \A r : r \in mixed => r \in mixed'
        /\ \A q \in Players : HoldsBoard(q, board.id) => board.id \in mixed'
    BY <1>2 DEF GuessLetter, HoldsBoard
  <2> QED BY <2>1, <2>2, <2>3 DEF EndsOnce
<1>3. ASSUME NEW p \in Players, PutBoard(p) PROVE EndsOnce'
  <2>1. /\ mixed' = mixed
        /\ \A q \in Players, r \in 1..LastBoard : HoldsBoard(q, r)' => HoldsBoard(q, r)
    BY <1>3, HoldersShrink
  <2>2. \A r : board' # NoBoard /\ board'.id = r =>
          (board # NoBoard /\ board.id = r) \/ HoldsBoard(p, r)
    BY <1>3 DEF PutBoard, HoldsBoard
  <2>3. revealed' = revealed
    BY <1>3 DEF PutBoard
  <2> QED BY <2>1, <2>2, <2>3 DEF EndsOnce
<1>4. ASSUME NEW p \in Players, EndBoard(p) PROVE EndsOnce'
  <2>1. /\ mixed' = mixed
        /\ \A q \in Players, r \in 1..LastBoard : HoldsBoard(q, r)' => HoldsBoard(q, r)
    BY <1>4, HoldersShrink
  <2>2. CASE revealed' = revealed /\ board' = board
    BY <2>1, <2>2 DEF EndsOnce
  <2>3. CASE /\ board' = NoBoard
             /\ revealed' = [revealed EXCEPT ![turn[p].next.id] = @ + 1]
    <3>1. ASSUME NEW r \in 1..LastBoard \ mixed, HoldsBoard(p, r)
          PROVE  revealed'[r] = 1 /\ \A q \in Players : ~HoldsBoard(q, r)'
      <4>1. revealed[r] = 0
        BY <1>0, <3>1 DEF EndsOnce
      <4>2. revealed'[r] = 1
        BY <1>0, <2>3, <3>1, <4>1 DEF HoldsBoard
      <4>3. ~HoldsBoard(p, r)'
        BY <1>4 DEF EndBoard, Rests, Moves, HoldsBoard, HangmanTypeOK, NoTurn
      <4>4. \A q \in Players : HoldsBoard(q, r) => q = p
        BY <3>1 DEF EndsOnce
      <4> QED BY <2>1, <4>2, <4>3, <4>4
    <3>2. \A r \in 1..LastBoard : ~HoldsBoard(p, r) => revealed'[r] = revealed[r]
      BY <1>0, <1>4, <2>3 DEF EndBoard, HoldsBoard
    <3> QED BY <2>1, <2>3, <3>1, <3>2 DEF EndsOnce
  <2> QED BY <1>4, <2>2, <2>3 DEF EndBoard
<1>5. ASSUME (\E p \in Players : StartHangman(p)) \/ HangmanTick \/ HangmanRestart
               \/ UNCHANGED hangmanVars
      PROVE  EndsOnce'
  <2>1. /\ mixed' = mixed
        /\ \A q \in Players, r \in 1..LastBoard : HoldsBoard(q, r)' => HoldsBoard(q, r)
    BY <1>5, HoldersShrink
  <2>2. board' = board /\ revealed' = revealed
    BY <1>5 DEF StartHangman, HangmanTick, HangmanRestart, hangmanVars
  <2> QED BY <2>1, <2>2 DEF EndsOnce
<1> QED BY <1>1, <1>2, <1>3, <1>4, <1>5 DEF HangmanNext

LEMMA HangmanInvCorrect == HangmanSpec => []HangmanInv
<1>1. ASSUME HangmanInit PROVE HangmanInv
  <2>1. HangmanTypeOK
    BY <1>1, HangmanAssumption DEF HangmanInit, HangmanTypeOK
  <2>2. BoardsPlayable /\ BoardsNumbered /\ EndsOnce
    BY <1>1 DEF HangmanInit, BoardsPlayable, BoardsNumbered, EndsOnce, HoldsBoard, NoTurn
  <2> QED BY <2>1, <2>2 DEF HangmanInv
<1>2. HangmanInv /\ [HangmanNext]_hangmanVars => HangmanInv'
  BY HangmanTypes, HangmanPlayable, HangmanNumbered, HangmanEndsOnce DEF HangmanInv
<1> QED BY <1>1, <1>2, PTL DEF HangmanSpec

\* A board in the store can be played on, and a round that only one command at
\* a time held is over once its word was announced, for any words, letters,
\* players and number of misses (hangman/service.go, games_hangman.go).
THEOREM BoardPlayableCorrect == HangmanSpec => []BoardPlayable
<1>1. HangmanInv => BoardPlayable
  BY DEF HangmanInv, BoardsPlayable, Playable, EndsOnce, BoardPlayable
<1> QED BY <1>1, HangmanInvCorrect, PTL
-----------------------------------------------------------------------------
(* /guess.                                                                 *)

\* Goroutine g has read round r and has yet to act on it.
InHandOf(g, r) == command[g].at \in {"miss", "hit"} /\ command[g].read.id = r

\* Rounds are numbered as they begin.
RoundsNumbered ==
  \A r \in 1..MaxRound :
    (\/ named[r] > 0
     \/ guessRound # NoRound /\ guessRound.id = r
     \/ \E g \in Guesses : InHandOf(g, r)) => r <= rounds

(***************************************************************************)
(* A round no two commands held at once has one holder at most, and is     *)
(* nowhere any more once its number was named.                             *)
(***************************************************************************)
NamedOnce ==
  \A r \in 1..MaxRound \ crossed :
    /\ \A g, h \in Guesses : InHandOf(g, r) /\ InHandOf(h, r) => g = h
    /\ named[r] > 0 => /\ named[r] = 1
                       /\ guessRound # NoRound => guessRound.id # r
                       /\ \A g \in Guesses : ~InHandOf(g, r)

\* Commands that were right and are on their way to the leaderboard.
owed == [g \in Guesses |-> IF command[g].at = "credit" THEN 1 ELSE 0]

\* A win on the leaderboard, or on its way there, is a right answer.
WinsNamed == SumFunction(guessWins) + SumFunction(owed) <= SumFunction(named)

GuessInv == GuessTypeOK /\ RoundsNumbered /\ NamedOnce /\ WinsNamed

\* A miss writes back the round that was read.
LEMMA PutBack ==
  ASSUME GuessTypeOK, NEW g \in Guesses, PutAttempt(g)
  PROVE  \/ guessRound' = guessRound
         \/ guessRound' \in GuessRounds /\ InHandOf(g, guessRound'.id)
<1>1. PICK b \in GuessRounds : b = command[g].read
  BY DEF PutAttempt, GuessTypeOK, NoCommand
<1>2. CASE b.attempts < MaxAttempts /\ guessRound' = [b EXCEPT !.attempts = @ + 1]
  <2>1. b.attempts + 1 \in 0..MaxAttempts
    BY <1>2, GuessAssumption DEF GuessRounds
  <2>2. guessRound' \in GuessRounds /\ guessRound'.id = b.id
    BY <1>2, <2>1 DEF GuessRounds
  <2> QED BY <1>1, <2>2 DEF InHandOf, PutAttempt
<1> QED BY <1>1, <1>2 DEF PutAttempt

LEMMA GuessTypes ==
  ASSUME GuessTypeOK, [GuessNext]_guessVars
  PROVE  GuessTypeOK'
<1> USE DEF GuessTypeOK, Proceeds, Ends
<1>1. ASSUME NEW g \in Guesses, StartGuess(g) PROVE GuessTypeOK'
  BY <1>1, GuessAssumption DEF StartGuess
<1>2. ASSUME NEW g \in Guesses, PutNewRound(g) PROVE GuessTypeOK'
  <2>1. command[g].date \in 0..MaxHour
    BY <1>2 DEF PutNewRound, NoCommand
  <2>2. \/ rounds' = rounds /\ guessRound' = guessRound
        \/ rounds' \in 1..MaxRound /\ guessRound' \in GuessRounds
    BY <1>2, <2>1, GuessAssumption DEF PutNewRound, GuessRounds
  <2> QED BY <1>2, <2>2, GuessAssumption DEF PutNewRound
<1>3. ASSUME NEW g \in Guesses, NEW u \in Guessers, ReadGuess(g, u) PROVE GuessTypeOK'
  <2>1. guessRound \in GuessRounds /\ guessRound.id \in 1..MaxRound
    BY <1>3 DEF ReadGuess, GuessRounds
  <2>2. crossed' \subseteq 1..MaxRound
    BY <1>3, <2>1 DEF ReadGuess
  <2>3. \A verdict \in {"miss", "hit"} :
          [at |-> verdict, by |-> u, read |-> guessRound]
            \in [at : {"miss", "hit", "credit"}, by : Guessers, read : GuessRounds]
    BY <2>1
  <2> QED BY <1>3, <2>2, <2>3 DEF ReadGuess
<1>4. ASSUME NEW g \in Guesses, PutAttempt(g) PROVE GuessTypeOK'
  <2>1. guessRound' \in GuessRounds \cup {NoRound}
    BY <1>4, PutBack
  <2> QED BY <1>4, <2>1 DEF PutAttempt
<1>5. ASSUME NEW g \in Guesses, EndRound(g) PROVE GuessTypeOK'
  <2>1. command[g] \in [at : {"miss", "hit", "credit"}, by : Guessers, read : GuessRounds]
    BY <1>5 DEF EndRound, NoCommand
  <2>2. command[g].read.id \in 1..MaxRound
    BY <2>1 DEF GuessRounds
  <2>3. named[command[g].read.id] < MaxNamed => named[command[g].read.id] + 1 \in 0..MaxNamed
    <3>1. named[command[g].read.id] \in 0..MaxNamed /\ MaxNamed \in Nat
      BY <2>2, GuessAssumption
    <3> HIDE DEF GuessTypeOK
    <3> QED BY <3>1
  <2>4. named' \in [1..MaxRound -> 0..MaxNamed]
    BY <1>5, <2>2, <2>3 DEF EndRound
  <2>5. [command[g] EXCEPT !.at = "credit"]
          \in [at : {"miss", "hit", "credit"}, by : Guessers, read : GuessRounds]
    BY <2>1
  <2>6. command' \in [Guesses -> {NoCommand}
          \cup [at : {"start"}, date : 0..MaxHour]
          \cup [at : {"miss", "hit", "credit"}, by : Guessers, read : GuessRounds]]
    BY <1>5, <2>5 DEF EndRound
  <2>7. guessRound' \in GuessRounds \cup {NoRound}
    BY <1>5 DEF EndRound
  <2> QED BY <1>5, <2>4, <2>6, <2>7 DEF EndRound
<1>6. ASSUME NEW g \in Guesses, IncrementWin(g) PROVE GuessTypeOK'
  <2>1. command[g].by \in Guessers
    BY <1>6 DEF IncrementWin, NoCommand
  <2>2. guessWins' \in [Guessers -> Nat]
    BY <1>6, <2>1 DEF IncrementWin
  <2> QED BY <1>6, <2>2 DEF IncrementWin
<1>7. CASE GuessTick
  BY <1>7, GuessAssumption DEF GuessTick
<1>8. CASE GuessRestart
  BY <1>8 DEF GuessRestart
<1>9. CASE UNCHANGED guessVars
  BY <1>9 DEF guessVars
<1> QED BY <1>1, <1>2, <1>3, <1>4, <1>5, <1>6, <1>7, <1>8, <1>9 DEF GuessNext

\* What commands hold, after steps that read no round.
LEMMA InHandShrinks ==
  ASSUME GuessTypeOK,
         \/ \E g \in Guesses : \/ StartGuess(g) \/ PutNewRound(g) \/ PutAttempt(g)
                               \/ EndRound(g) \/ IncrementWin(g)
         \/ GuessTick \/ GuessRestart \/ UNCHANGED guessVars
  PROVE  /\ crossed' = crossed
         /\ \A g \in Guesses, r \in 1..MaxRound : InHandOf(g, r)' => InHandOf(g, r)
<1>1. crossed' = crossed
  BY DEF StartGuess, PutNewRound, PutAttempt, EndRound, IncrementWin, GuessTick, GuessRestart,
         guessVars
<1>2. \A g \in Guesses : command'[g] = command[g] \/ command'[g].at \in {"idle", "start", "credit"}
  BY DEF StartGuess, PutNewRound, PutAttempt, EndRound, IncrementWin, GuessTick, GuessRestart,
         guessVars, Proceeds, Ends, GuessTypeOK, NoCommand
<1> QED BY <1>1, <1>2 DEF InHandOf

LEMMA GuessNumbered ==
  ASSUME GuessTypeOK, RoundsNumbered, [GuessNext]_guessVars
  PROVE  RoundsNumbered'
<1>0. rounds \in Nat
  BY GuessAssumption DEF GuessTypeOK
<1>1. ASSUME NEW g \in Guesses, PutNewRound(g) PROVE RoundsNumbered'
  <2>1. \A h \in Guesses, r \in 1..MaxRound : InHandOf(h, r)' => InHandOf(h, r)
    BY <1>1, InHandShrinks
  <2>2. \/ rounds' = rounds /\ guessRound' = guessRound
        \/ rounds' = rounds + 1 /\ guessRound'.id = rounds + 1
    BY <1>1 DEF PutNewRound
  <2>3. named' = named
    BY <1>1 DEF PutNewRound
  <2> QED BY <1>0, <2>1, <2>2, <2>3 DEF RoundsNumbered
<1>2. ASSUME NEW g \in Guesses, NEW u \in Guessers, ReadGuess(g, u) PROVE RoundsNumbered'
  <2>1. \A h \in Guesses, r \in 1..MaxRound :
          InHandOf(h, r)' => InHandOf(h, r) \/ (guessRound # NoRound /\ guessRound.id = r)
    BY <1>2 DEF ReadGuess, Proceeds, InHandOf, GuessTypeOK
  <2> QED BY <1>2, <2>1 DEF ReadGuess, RoundsNumbered
<1>3. ASSUME NEW g \in Guesses, PutAttempt(g) PROVE RoundsNumbered'
  <2>1. \A h \in Guesses, r \in 1..MaxRound : InHandOf(h, r)' => InHandOf(h, r)
    BY <1>3, InHandShrinks
  <2>2. \A r : guessRound' # NoRound /\ guessRound'.id = r =>
          (guessRound # NoRound /\ guessRound.id = r) \/ InHandOf(g, r)
    BY <1>3, PutBack
  <2> QED BY <1>3, <2>1, <2>2 DEF PutAttempt, RoundsNumbered
<1>4. ASSUME NEW g \in Guesses, EndRound(g) PROVE RoundsNumbered'
  <2>1. \A h \in Guesses, r \in 1..MaxRound : InHandOf(h, r)' => InHandOf(h, r)
    BY <1>4, InHandShrinks
  <2>2. \A r \in 1..MaxRound : named'[r] > 0 => named[r] > 0 \/ InHandOf(g, r)
    BY <1>4 DEF EndRound, InHandOf, GuessTypeOK
  <2>3. guessRound' # NoRound => guessRound' = guessRound
    BY <1>4 DEF EndRound
  <2>4. rounds' = rounds
    BY <1>4 DEF EndRound
  <2> QED BY <2>1, <2>2, <2>3, <2>4 DEF RoundsNumbered
<1>5. ASSUME (\E g \in Guesses : StartGuess(g) \/ IncrementWin(g)) \/ GuessTick \/ GuessRestart
               \/ UNCHANGED guessVars
      PROVE  RoundsNumbered'
  <2>1. \A h \in Guesses, r \in 1..MaxRound : InHandOf(h, r)' => InHandOf(h, r)
    BY <1>5, InHandShrinks
  <2>2. rounds' = rounds /\ guessRound' = guessRound /\ named' = named
    BY <1>5 DEF StartGuess, IncrementWin, GuessTick, GuessRestart, guessVars
  <2> QED BY <2>1, <2>2 DEF RoundsNumbered
<1> QED BY <1>1, <1>2, <1>3, <1>4, <1>5 DEF GuessNext

LEMMA GuessNamedOnce ==
  ASSUME GuessTypeOK, RoundsNumbered, NamedOnce, [GuessNext]_guessVars
  PROVE  NamedOnce'
<1>0. named \in [1..MaxRound -> Nat] /\ rounds \in Nat
  BY GuessAssumption DEF GuessTypeOK
<1>1. ASSUME NEW g \in Guesses, PutNewRound(g) PROVE NamedOnce'
  <2>1. /\ crossed' = crossed
        /\ \A h \in Guesses, r \in 1..MaxRound : InHandOf(h, r)' => InHandOf(h, r)
    BY <1>1, InHandShrinks
  <2>2. named' = named
    BY <1>1 DEF PutNewRound
  <2>3. guessRound' = guessRound \/ guessRound'.id = rounds + 1
    BY <1>1 DEF PutNewRound
  <2>4. \A r \in 1..MaxRound : named[r] > 0 => r # rounds + 1
    BY <1>0 DEF RoundsNumbered
  <2> QED BY <2>1, <2>2, <2>3, <2>4 DEF NamedOnce
<1>2. ASSUME NEW g \in Guesses, NEW u \in Guessers, ReadGuess(g, u) PROVE NamedOnce'
  <2>1. /\ \A h \in Guesses, r \in 1..MaxRound : h # g /\ InHandOf(h, r)' => InHandOf(h, r)
        /\ \A r \in 1..MaxRound : InHandOf(g, r)' => guessRound.id = r
    BY <1>2 DEF ReadGuess, Proceeds, InHandOf, GuessTypeOK
  <2>2. guessRound # NoRound /\ guessRound' = guessRound /\ named' = named
    BY <1>2 DEF ReadGuess
  <2>3. /\ \A r : r \in crossed => r \in crossed'
        /\ \A h \in Guesses : InHandOf(h, guessRound.id) => guessRound.id \in crossed'
    BY <1>2 DEF ReadGuess, InHand, InHandOf
  <2> QED BY <2>1, <2>2, <2>3 DEF NamedOnce
<1>3. ASSUME NEW g \in Guesses, PutAttempt(g) PROVE NamedOnce'
  <2>1. /\ crossed' = crossed
        /\ \A h \in Guesses, r \in 1..MaxRound : InHandOf(h, r)' => InHandOf(h, r)
    BY <1>3, InHandShrinks
  <2>2. \A r : guessRound' # NoRound /\ guessRound'.id = r =>
          (guessRound # NoRound /\ guessRound.id = r) \/ InHandOf(g, r)
    BY <1>3, PutBack
  <2>3. named' = named
    BY <1>3 DEF PutAttempt
  <2> QED BY <2>1, <2>2, <2>3 DEF NamedOnce
<1>4. ASSUME NEW g \in Guesses, EndRound(g) PROVE NamedOnce'
  <2>1. /\ crossed' = crossed
        /\ \A h \in Guesses, r \in 1..MaxRound : InHandOf(h, r)' => InHandOf(h, r)
    BY <1>4, InHandShrinks
  <2>2. CASE named' = named /\ guessRound' = guessRound
    BY <2>1, <2>2 DEF NamedOnce
  <2>3. CASE /\ guessRound' = NoRound
             /\ named' = [named EXCEPT ![command[g].read.id] = @ + 1]
    <3>1. ASSUME NEW r \in 1..MaxRound \ crossed, InHandOf(g, r)
          PROVE  named'[r] = 1 /\ \A h \in Guesses : ~InHandOf(h, r)'
      <4>1. named[r] = 0
        BY <1>0, <3>1 DEF NamedOnce
      <4>2. named'[r] = 1
        BY <1>0, <2>3, <3>1, <4>1 DEF InHandOf
      <4>3. ~InHandOf(g, r)'
        BY <1>4 DEF EndRound, Proceeds, Ends, InHandOf, GuessTypeOK, NoCommand
      <4>4. \A h \in Guesses : InHandOf(h, r) => h = g
        BY <3>1 DEF NamedOnce
      <4> QED BY <2>1, <4>2, <4>3, <4>4
    <3>2. \A r \in 1..MaxRound : ~InHandOf(g, r) => named'[r] = named[r]
      BY <1>0, <1>4, <2>3 DEF EndRound, InHandOf
    <3> QED BY <2>1, <2>3, <3>1, <3>2 DEF NamedOnce
  <2> QED BY <1>4, <2>2, <2>3 DEF EndRound
<1>5. ASSUME (\E g \in Guesses : StartGuess(g) \/ IncrementWin(g)) \/ GuessTick \/ GuessRestart
               \/ UNCHANGED guessVars
      PROVE  NamedOnce'
  <2>1. /\ crossed' = crossed
        /\ \A h \in Guesses, r \in 1..MaxRound : InHandOf(h, r)' => InHandOf(h, r)
    BY <1>5, InHandShrinks
  <2>2. guessRound' = guessRound /\ named' = named
    BY <1>5 DEF StartGuess, IncrementWin, GuessTick, GuessRestart, guessVars
  <2> QED BY <2>1, <2>2 DEF NamedOnce
<1> QED BY <1>1, <1>2, <1>3, <1>4, <1>5 DEF GuessNext

\* No step but these two touches the leaderboard or the account of it.
LEMMA GuessWinsNamed ==
  ASSUME GuessTypeOK, WinsNamed, [GuessNext]_guessVars
  PROVE  WinsNamed'
<1> DEFINE Wins(f) == SumFunctionOnSet(f, Guessers)
           Owed(f) == SumFunctionOnSet(f, Guesses)
           Named(f) == SumFunctionOnSet(f, 1..MaxRound)
<1>1. guessWins \in [Guessers -> Nat] /\ named \in [1..MaxRound -> Nat]
  BY GuessAssumption DEF GuessTypeOK
<1>2. guessWins' \in [Guessers -> Nat] /\ named' \in [1..MaxRound -> Nat]
  <2>1. GuessTypeOK'
    BY GuessTypes
  <2> QED BY <2>1, GuessAssumption DEF GuessTypeOK
<1>3. owed \in [Guesses -> Nat] /\ owed' \in [Guesses -> Nat]
  BY DEF owed
<1>4. IsFiniteSet(Guessers) /\ IsFiniteSet(Guesses) /\ IsFiniteSet(1..MaxRound)
  BY GuessAssumption, FS_Interval
<1>5. Wins(guessWins) + Owed(owed) <= Named(named)
  <2>1. /\ SumFunction(guessWins) = Wins(guessWins) /\ SumFunction(owed) = Owed(owed)
        /\ SumFunction(named) = Named(named)
    <3>1. DOMAIN guessWins = Guessers /\ DOMAIN owed = Guesses /\ DOMAIN named = 1..MaxRound
      BY <1>1, <1>3
    <3> QED BY <3>1, Zenon DEF SumFunction
  <2> QED BY <2>1 DEF WinsNamed
<1>6. SUFFICES Wins(guessWins') + Owed(owed') <= Named(named')
  <2>1. /\ SumFunction(guessWins') = Wins(guessWins') /\ SumFunction(owed') = Owed(owed')
        /\ SumFunction(named') = Named(named')
    <3>1. DOMAIN guessWins' = Guessers /\ DOMAIN owed' = Guesses /\ DOMAIN named' = 1..MaxRound
      BY <1>2, <1>3
    <3> QED BY <3>1, Zenon DEF SumFunction
  <2> QED BY <2>1 DEF WinsNamed
<1>7. /\ Wins(guessWins) \in Nat /\ Owed(owed) \in Nat /\ Named(named) \in Nat
      /\ Wins(guessWins') \in Nat /\ Owed(owed') \in Nat /\ Named(named') \in Nat
  BY <1>1, <1>2, <1>3, <1>4, SumType
<1> HIDE DEF Wins, Owed, Named
<1>8. ASSUME guessWins' = guessWins, named' = named,
             \A g \in Guesses : command'[g] = command[g] \/ command'[g].at # "credit"
      PROVE  Wins(guessWins') + Owed(owed') <= Named(named')
  <2>1. \A g \in Guesses : owed'[g] <= owed[g]
    BY <1>8 DEF owed
  <2>2. Owed(owed') <= Owed(owed)
    BY <1>3, <1>4, <2>1, SumMonotone DEF Owed
  <2> QED BY <1>5, <1>7, <1>8, <2>2
<1>9. ASSUME NEW g \in Guesses, EndRound(g)
      PROVE  Wins(guessWins') + Owed(owed') <= Named(named')
  <2>1. command[g] \in [at : {"miss", "hit", "credit"}, by : Guessers, read : GuessRounds]
        /\ command[g].at = "hit"
    BY <1>9 DEF EndRound, GuessTypeOK, NoCommand
  <2>2. CASE Ends(g) /\ named' = named
    BY <1>8, <1>9, <2>2 DEF EndRound, Ends, Proceeds, GuessTypeOK, NoCommand
  <2>3. CASE /\ named' = [named EXCEPT ![command[g].read.id] = @ + 1]
             /\ command' = [command EXCEPT ![g] = [command[g] EXCEPT !.at = "credit"]]
    <3>1. PICK r \in 1..MaxRound : r = command[g].read.id
      BY <2>1 DEF GuessRounds
    <3>2. named'[r] = named[r] + 1 /\ \A s \in 1..MaxRound : s # r => named'[s] = named[s]
      BY <1>1, <2>3, <3>1
    <3>3. owed'[g] = owed[g] + 1 /\ \A h \in Guesses : h # g => owed'[h] = owed[h]
      BY <2>1, <2>3 DEF owed, GuessTypeOK
    <3>4. Named(named') = Named(named) + 1
      BY <1>1, <1>4, <3>2, SumOneMore DEF Named
    <3>5. Owed(owed') = Owed(owed) + 1
      BY <1>3, <1>4, <3>3, SumOneMore DEF Owed
    <3>6. guessWins' = guessWins
      BY <1>9 DEF EndRound
    <3> QED BY <1>5, <1>7, <3>4, <3>5, <3>6
  <2> QED BY <1>9, <2>2, <2>3 DEF EndRound, Proceeds
<1>10. ASSUME NEW g \in Guesses, IncrementWin(g)
       PROVE  Wins(guessWins') + Owed(owed') <= Named(named')
  <2>1. command[g].by \in Guessers /\ command[g].at = "credit"
    BY <1>10 DEF IncrementWin, GuessTypeOK, NoCommand
  <2>2. command' = [command EXCEPT ![g] = NoCommand] /\ named' = named
    BY <1>10 DEF IncrementWin, Ends, Proceeds
  <2>3. CASE guessWins' = guessWins
    BY <1>8, <2>2, <2>3 DEF GuessTypeOK, NoCommand
  <2>4. CASE guessWins' = [guessWins EXCEPT ![command[g].by] = @ + 1]
    <3>1. PICK u \in Guessers : u = command[g].by
      BY <2>1
    <3>2. guessWins'[u] = guessWins[u] + 1 /\ \A v \in Guessers : v # u => guessWins'[v] = guessWins[v]
      BY <1>1, <2>4, <3>1
    <3>3. owed[g] = owed'[g] + 1 /\ \A h \in Guesses : h # g => owed[h] = owed'[h]
      BY <2>1, <2>2 DEF owed, GuessTypeOK, NoCommand
    <3>4. Wins(guessWins') = Wins(guessWins) + 1
      BY <1>1, <1>4, <3>2, SumOneMore DEF Wins
    <3>5. Owed(owed) = Owed(owed') + 1
      BY <1>3, <1>4, <3>3, SumOneMore DEF Owed
    <3> QED BY <1>5, <1>7, <2>2, <3>4, <3>5
  <2> QED BY <1>10, <2>3, <2>4 DEF IncrementWin
<1>11. ASSUME \/ \E g \in Guesses : \/ StartGuess(g) \/ PutNewRound(g) \/ PutAttempt(g)
                                    \/ \E u \in Guessers : ReadGuess(g, u)
              \/ GuessTick \/ GuessRestart \/ UNCHANGED guessVars
       PROVE  Wins(guessWins') + Owed(owed') <= Named(named')
  <2>1. guessWins' = guessWins /\ named' = named
    BY <1>11 DEF StartGuess, PutNewRound, PutAttempt, ReadGuess, GuessTick, GuessRestart, guessVars
  <2>2. \A g \in Guesses : command'[g] = command[g] \/ command'[g].at # "credit"
    BY <1>11 DEF StartGuess, PutNewRound, PutAttempt, ReadGuess, GuessTick, GuessRestart, guessVars,
                 Proceeds, Ends, GuessTypeOK, NoCommand
  <2> QED BY <1>8, <2>1, <2>2
<1> QED BY <1>9, <1>10, <1>11 DEF GuessNext

LEMMA GuessInvCorrect == GuessSpec => []GuessInv
<1>1. ASSUME GuessInit PROVE GuessInv
  <2>1. GuessTypeOK
    BY <1>1, GuessAssumption DEF GuessInit, GuessTypeOK
  <2>2. RoundsNumbered /\ NamedOnce
    BY <1>1 DEF GuessInit, RoundsNumbered, NamedOnce, InHandOf, NoCommand
  <2>3. WinsNamed
    <3>1. IsFiniteSet(Guessers) /\ IsFiniteSet(Guesses) /\ IsFiniteSet(1..MaxRound)
      BY GuessAssumption, FS_Interval
    <3>2. /\ DOMAIN guessWins = Guessers /\ \A u \in Guessers : guessWins[u] = 0
          /\ DOMAIN owed = Guesses /\ \A g \in Guesses : owed[g] = 0
          /\ DOMAIN named = 1..MaxRound /\ \A r \in 1..MaxRound : named[r] = 0
      BY <1>1 DEF GuessInit, owed, NoCommand
    <3>3. /\ SumFunctionOnSet(guessWins, Guessers) = 0 /\ SumFunctionOnSet(owed, Guesses) = 0
          /\ SumFunctionOnSet(named, 1..MaxRound) = 0
      BY <3>1, <3>2, SumOfZeros
    <3>4. SumFunction(guessWins) = 0 /\ SumFunction(owed) = 0 /\ SumFunction(named) = 0
      BY <3>2, <3>3, Zenon DEF SumFunction
    <3> QED BY <3>4 DEF WinsNamed
  <2> QED BY <2>1, <2>2, <2>3 DEF GuessInv
<1>2. GuessInv /\ [GuessNext]_guessVars => GuessInv'
  BY GuessTypes, GuessNumbered, GuessNamedOnce, GuessWinsNamed DEF GuessInv
<1> QED BY <1>1, <1>2, PTL DEF GuessSpec

\* The number of a round that only one command at a time held is named once,
\* and the round does not come back; and the leaderboard has no more wins than
\* there were right answers, for any guessers, commands and rounds
\* (guess/service.go, games_guess.go).
THEOREM FirstGuessWinsCorrect == GuessSpec => []FirstGuessWins
<1>1. GuessInv => FirstGuessWins
  <2> SUFFICES ASSUME GuessInv PROVE FirstGuessWins
    OBVIOUS
  <2>1. SumFunction(guessWins) <= SumFunction(named)
    <3>1. SumFunction(guessWins) \in Nat /\ SumFunction(owed) \in Nat /\ SumFunction(named) \in Nat
      <4>1. /\ DOMAIN guessWins = Guessers /\ \A u \in Guessers : guessWins[u] \in Nat
            /\ DOMAIN owed = Guesses /\ \A g \in Guesses : owed[g] \in Nat
            /\ DOMAIN named = 1..MaxRound /\ \A r \in 1..MaxRound : named[r] \in Nat
        BY GuessAssumption DEF GuessInv, GuessTypeOK, owed
      <4>2. /\ SumFunctionOnSet(guessWins, Guessers) \in Nat /\ SumFunctionOnSet(owed, Guesses) \in Nat
            /\ SumFunctionOnSet(named, 1..MaxRound) \in Nat
        <5>1. IsFiniteSet(Guessers) /\ IsFiniteSet(Guesses) /\ IsFiniteSet(1..MaxRound)
          BY FS_Interval, GuessAssumption
        <5> QED BY <4>1, <5>1, SumType
      <4> QED BY <4>1, <4>2, Zenon DEF SumFunction
    <3> QED BY <3>1 DEF GuessInv, WinsNamed
  <2> QED BY <2>1 DEF GuessInv, NamedOnce, FirstGuessWins
<1> QED BY <1>1, GuessInvCorrect, PTL

-----------------------------------------------------------------------------
(* Monthly statistics.                                                     *)

FreeRow == [msg : Nat, first : 0..Never, longest : Nat, by : Writers \cup {Meta}]

\* A row says of its messages nothing but what one of them is.
Good(set, r, k) ==
  /\ r \in FreeRow
  /\ r.first # Never => k[2] # Meta /\ \E s \in OfRow(set, k) : Sent[s].ts = r.first
  /\ r.longest # 0 => k[2] = Meta /\ \E s \in OfRow(set, k) : Sent[s].runes = r.longest

Named(set, r, k) ==
  r.longest # 0 => \E s \in OfRow(set, k) : Sent[s].runes = r.longest /\ Sent[s].by = r.by

\* A row knows of a message that may be the earliest or the longest.
Covers(r, s, k) == IF k[2] = Meta THEN Sent[s].runes <= r.longest ELSE r.first <= Sent[s].ts

SumsUp(r, m) == r[<<m, Meta>>].msg = SumFunction([w \in Writers |-> r[<<m, w>>].msg])

\* All messages come before Never.
LEMMA NeverLast ==
  /\ Never \in Nat
  /\ \A s \in Samples : /\ Sent[s].ts \in 0..Never /\ Sent[s].ts # Never
                        /\ Sent[s].runes \in Nat \ {0}
                        /\ Sent[s].by \in Writers /\ Sent[s].month \in Calendars
<1> DEFINE at == [s \in Samples |-> Sent[s].ts]
           T == {at[s] : s \in Samples}
           U == {0} \cup T
<1>1. IsFiniteSet(T)
  <2>1. IsFiniteSet(Samples)
    BY MonthAssumption
  <2> HIDE DEF at
  <2> QED BY <2>1, Images
<1>2. IsFiniteSet(U) /\ U # {}
  BY <1>1, FS_Singleton, FS_Union
<1>3. \A s \in Samples : Sent[s] \in [by : Writers, month : Calendars, ts : Nat, runes : Nat \ {0}]
  BY MonthAssumption
<1>4. U \subseteq Nat
  BY <1>3
<1>5. {0} \cup {Sent[s].ts : s \in Samples} = U
  OBVIOUS
<1>6. PICK m \in U : \A x \in U : x <= m
  BY <1>2, <1>4, Extremes
<1>7. Max(U) \in U /\ \A x \in U : x <= Max(U)
  BY <1>6 DEF Max
<1>8. \A s \in Samples : Sent[s].ts \in U
  OBVIOUS
<1> HIDE DEF U
<1>9. Never = 1 + Max(U) /\ Max(U) \in Nat
  BY <1>4, <1>5, <1>7 DEF Never
<1>10. \A s \in Samples : Sent[s].ts <= Max(U) /\ Sent[s].ts \in Nat
  BY <1>3, <1>7, <1>8
<1> QED BY <1>3, <1>9, <1>10

\* Two rows of one kind laid over each other.
LEMMA Merged ==
  ASSUME NEW set, NEW k \in RowKeys, NEW a, NEW b, Good(set, a, k), Good(set, b, k)
  PROVE  LET r == MergeRow(a, b)
         IN /\ Good(set, r, k)
            /\ Named(set, a, k) /\ Named(set, b, k) => Named(set, r, k)
            /\ r.msg = a.msg + b.msg
            /\ \A s \in Samples : Covers(a, s, k) \/ Covers(b, s, k) => Covers(r, s, k)
            /\ \A t \in Nat : t <= a.first /\ t <= b.first => t <= r.first
            /\ r.first <= a.first /\ r.first <= b.first
<1> DEFINE r == MergeRow(a, b)
<1>1. a \in FreeRow /\ b \in FreeRow /\ Never \in Nat
  BY NeverLast DEF Good
<1>2. /\ r.msg = a.msg + b.msg
      /\ r.first = IF b.first < a.first THEN b.first ELSE a.first
      /\ r.longest = IF b.longest > a.longest THEN b.longest ELSE a.longest
      /\ r.by = IF b.longest > a.longest THEN b.by ELSE a.by
  BY DEF MergeRow, Earlier
<1>3. r \in FreeRow
  BY <1>1, <1>2 DEF FreeRow, MergeRow
<1> HIDE DEF r
<1>4. Good(set, r, k)
  <2>1. r.first = a.first \/ r.first = b.first
    BY <1>2
  <2>2. r.longest = a.longest \/ r.longest = b.longest
    BY <1>2
  <2> QED BY <1>3, <2>1, <2>2 DEF Good
<1>5. Named(set, a, k) /\ Named(set, b, k) => Named(set, r, k)
  <2>1. CASE b.longest > a.longest
    <3>1. r.longest = b.longest /\ r.by = b.by
      BY <1>2, <2>1
    <3> QED BY <3>1 DEF Named
  <2>2. CASE ~(b.longest > a.longest)
    <3>1. r.longest = a.longest /\ r.by = a.by
      BY <1>2, <2>2
    <3> QED BY <3>1 DEF Named
  <2> QED BY <2>1, <2>2
<1>6. /\ r.first \in Nat /\ r.first <= a.first /\ r.first <= b.first
      /\ r.longest \in Nat /\ a.longest <= r.longest /\ b.longest <= r.longest
      /\ \A t \in Nat : t <= a.first /\ t <= b.first => t <= r.first
  BY <1>1, <1>2 DEF FreeRow
<1>7. ASSUME NEW s \in Samples, Covers(a, s, k) \/ Covers(b, s, k) PROVE Covers(r, s, k)
  BY <1>1, <1>6, <1>7, NeverLast DEF Covers, FreeRow
<1> QED BY <1>2, <1>4, <1>5, <1>6, <1>7 DEF r

LEMMA Blank ==
  ASSUME NEW set, NEW k \in RowKeys
  PROVE  /\ Good(set, NoRow, k) /\ Named(set, NoRow, k) /\ NoRows[k] = NoRow
         /\ NoRow.msg = 0 /\ NoRow.first = Never
         /\ \A s \in Samples : ~Covers(NoRow, s, k)
<1>1. NoRow \in FreeRow
  BY NeverLast DEF NoRow, FreeRow
<1> QED BY <1>1, NeverLast DEF NoRow, NoRows, Good, Named, Covers

\* A row that was good stays it when more messages have come.
LEMMA GoodOn ==
  ASSUME NEW set, NEW more, set \subseteq more, NEW k, NEW r
  PROVE  /\ OfRow(set, k) \subseteq OfRow(more, k)
         /\ Good(set, r, k) => Good(more, r, k)
         /\ Named(set, r, k) => Named(more, r, k)
<1>1. OfRow(set, k) \subseteq OfRow(more, k)
  BY DEF OfRow
<1> QED BY <1>1 DEF Good, Named

\* What a message adds to a row.
LEMMA DeltaRow ==
  ASSUME NEW s \in Samples, NEW set, s \in set, NEW k \in RowKeys
  PROVE  LET d == Delta(s)[k]
         IN /\ Good(set, d, k) /\ Named(set, d, k)
            /\ d.msg = IF s \in OfRow(set, k) THEN 1 ELSE 0
            /\ s \in OfRow(set, k) => Covers(d, s, k)
            /\ Sent[s].ts <= d.first
<1> DEFINE d == Delta(s)[k]
           m == Sent[s]
<1>1. /\ m.ts \in 0..Never /\ m.ts # Never /\ m.runes \in Nat \ {0} /\ Never \in Nat
      /\ m.by \in Writers /\ m.by # Meta /\ m.month \in Calendars
  BY NeverLast, MonthAssumption
<1>2. k[1] \in Calendars /\ k[2] \in Writers \cup {Meta} /\ k = <<k[1], k[2]>>
  BY DEF RowKeys
<1>3. s \in OfRow(set, k) <=> m.month = k[1] /\ k[2] \in {m.by, Meta}
  BY DEF OfRow
<1>4. CASE k = <<m.month, m.by>>
  <2>1. d = [msg |-> 1, first |-> m.ts, longest |-> 0, by |-> Meta]
    BY <1>4 DEF Delta, NoRow
  <2>2. k[1] = m.month /\ k[2] = m.by
    BY <1>4
  <2> HIDE DEF d
  <2>3. d \in FreeRow
    BY <1>1, <2>1 DEF FreeRow
  <2> QED BY <1>1, <1>3, <2>1, <2>2, <2>3 DEF Good, Named, Covers, d
<1>5. CASE k = <<m.month, Meta>>
  <2>1. d = [msg |-> 1, first |-> Never, longest |-> m.runes, by |-> m.by]
    BY <1>1, <1>5 DEF Delta, NoRow
  <2>2. k[1] = m.month /\ k[2] = Meta
    BY <1>5
  <2> HIDE DEF d
  <2>3. d \in FreeRow
    BY <1>1, <2>1 DEF FreeRow
  <2> QED BY <1>1, <1>3, <2>1, <2>2, <2>3 DEF Good, Named, Covers, d
<1>6. CASE k # <<m.month, m.by>> /\ k # <<m.month, Meta>>
  <2>1. d = NoRow
    BY <1>6 DEF Delta
  <2>2. s \notin OfRow(set, k)
    BY <1>2, <1>3, <1>6
  <2> QED BY <1>1, <2>1, <2>2, Blank
<1> QED BY <1>4, <1>5, <1>6

AreRows(r) == r \in [RowKeys -> FreeRow]

\* Totals of rows laid over each other, of none and of a message.
LEMMA SumsMerge ==
  ASSUME NEW a, NEW b, AreRows(a), AreRows(b), NEW m \in Calendars, SumsUp(a, m), SumsUp(b, m)
  PROVE  SumsUp(Merge(a, b), m)
<1> DEFINE f == [w \in Writers |-> a[<<m, w>>].msg]
           g == [w \in Writers |-> b[<<m, w>>].msg]
           r == Merge(a, b)
           h == [w \in Writers |-> r[<<m, w>>].msg]
<1>1. \A w \in Writers \cup {Meta} : /\ <<m, w>> \in RowKeys
                                     /\ a[<<m, w>>].msg \in Nat /\ b[<<m, w>>].msg \in Nat
                                     /\ r[<<m, w>>].msg = a[<<m, w>>].msg + b[<<m, w>>].msg
  <2> SUFFICES ASSUME NEW w \in Writers \cup {Meta}
               PROVE  /\ <<m, w>> \in RowKeys
                      /\ a[<<m, w>>].msg \in Nat /\ b[<<m, w>>].msg \in Nat
                      /\ r[<<m, w>>].msg = a[<<m, w>>].msg + b[<<m, w>>].msg
    OBVIOUS
  <2>1. <<m, w>> \in RowKeys
    BY DEF RowKeys
  <2>2. a[<<m, w>>] \in FreeRow /\ b[<<m, w>>] \in FreeRow
    BY <2>1 DEF AreRows
  <2>3. r[<<m, w>>] = MergeRow(a[<<m, w>>], b[<<m, w>>])
    BY <2>1 DEF Merge
  <2> QED BY <2>1, <2>2, <2>3 DEF FreeRow, MergeRow
<1> HIDE DEF r
<1>2. \A w \in Writers : f[w] \in Nat /\ g[w] \in Nat /\ h[w] = f[w] + g[w]
  BY <1>1
<1>3. /\ SumFunction(f) = SumFunctionOnSet(f, Writers) /\ SumFunction(g) = SumFunctionOnSet(g, Writers)
      /\ SumFunction(h) = SumFunctionOnSet(h, Writers)
  BY SumOver
<1>4. SumFunctionOnSet(h, Writers) = SumFunctionOnSet(f, Writers) + SumFunctionOnSet(g, Writers)
  <2>1. IsFiniteSet(Writers)
    BY MonthAssumption
  <2> HIDE DEF f, g, h
  <2> QED BY <1>2, <2>1, SumPlus
<1>5. a[<<m, Meta>>].msg = SumFunction(f) /\ b[<<m, Meta>>].msg = SumFunction(g)
  BY DEF SumsUp
<1>6. r[<<m, Meta>>].msg = a[<<m, Meta>>].msg + b[<<m, Meta>>].msg
  BY <1>1
<1>7. r[<<m, Meta>>].msg = SumFunction(h)
  BY <1>3, <1>4, <1>5, <1>6
<1> QED BY <1>7 DEF SumsUp, r

LEMMA SumsNone ==
  ASSUME NEW m \in Calendars PROVE SumsUp(NoRows, m)
<1> DEFINE h == [w \in Writers |-> NoRows[<<m, w>>].msg]
<1>1. \A w \in Writers \cup {Meta} : NoRows[<<m, w>>].msg = 0
  BY DEF NoRows, NoRow, RowKeys
<1>2. \A w \in Writers : h[w] = 0
  BY <1>1
<1>3. SumFunction(h) = SumFunctionOnSet(h, Writers)
  BY SumOver
<1>4. SumFunctionOnSet(h, Writers) = 0
  <2>1. IsFiniteSet(Writers)
    BY MonthAssumption
  <2> HIDE DEF h
  <2> QED BY <1>2, <2>1, SumOfZeros
<1> QED BY <1>1, <1>3, <1>4 DEF SumsUp

LEMMA SumsDelta ==
  ASSUME NEW s \in Samples, NEW m \in Calendars
  PROVE  SumsUp(Delta(s), m)
<1> DEFINE d == Delta(s)
           h == [w \in Writers |-> d[<<m, w>>].msg]
           u == Sent[s].by
<1>0. u \in Writers /\ IsFiniteSet(Writers) /\ Meta \notin Writers
  BY NeverLast, MonthAssumption
<1>1. \A w \in Writers \cup {Meta} :
        d[<<m, w>>].msg = IF Sent[s].month = m /\ w \in {u, Meta} THEN 1 ELSE 0
  <2> SUFFICES ASSUME NEW w \in Writers \cup {Meta}
               PROVE  d[<<m, w>>].msg = IF Sent[s].month = m /\ w \in {u, Meta} THEN 1 ELSE 0
    OBVIOUS
  <2>1. <<m, w>> \in RowKeys
    BY DEF RowKeys
  <2>2. s \in OfRow({s}, <<m, w>>) <=> Sent[s].month = m /\ w \in {u, Meta}
    BY DEF OfRow
  <2>3. d[<<m, w>>].msg = IF s \in OfRow({s}, <<m, w>>) THEN 1 ELSE 0
    BY <2>1, DeltaRow
  <2> QED BY <2>2, <2>3
<1> HIDE DEF d
<1>2. \A w \in Writers : h[w] = IF Sent[s].month = m /\ w = u THEN 1 ELSE 0
  BY <1>0, <1>1
<1>3. SumFunction(h) = SumFunctionOnSet(h, Writers)
  BY SumOver
<1>4. SumFunctionOnSet(h, Writers) = h[u]
  <2> HIDE DEF h, u
  <2>1. h[u] \in Nat /\ \A w \in Writers : w # u => h[w] = 0
    BY <1>0, <1>2
  <2> QED BY <1>0, <2>1, SumOfOne
<1>5. d[<<m, Meta>>].msg = IF Sent[s].month = m THEN 1 ELSE 0
  BY <1>1
<1>6. h[u] = IF Sent[s].month = m THEN 1 ELSE 0
  BY <1>0, <1>2
<1>7. d[<<m, Meta>>].msg = SumFunction(h)
  BY <1>3, <1>4, <1>5, <1>6
<1> QED BY <1>7 DEF SumsUp, d

\* Rows laid over each other, key by key.
LEMMA MergeRows ==
  ASSUME NEW a, NEW b, AreRows(a), AreRows(b)
  PROVE  /\ AreRows(Merge(a, b))
         /\ \A k \in RowKeys : Merge(a, b)[k] = MergeRow(a[k], b[k])
<1>1. \A k \in RowKeys : Merge(a, b)[k] = MergeRow(a[k], b[k])
  BY DEF Merge
<1>2. ASSUME NEW k \in RowKeys PROVE MergeRow(a[k], b[k]) \in FreeRow
  <2>1. a[k] \in FreeRow /\ b[k] \in FreeRow
    BY DEF AreRows
  <2> QED BY <2>1, NeverLast DEF FreeRow, MergeRow, Earlier
<1> QED BY <1>1, <1>2 DEF AreRows, Merge

LEMMA DeltaRows ==
  ASSUME NEW s \in Samples PROVE AreRows(Delta(s))
<1>1. \A k \in RowKeys : Delta(s)[k] \in FreeRow
  BY DeltaRow DEF Good
<1> QED BY <1>1 DEF AreRows, Delta

LEMMA BlankRows == AreRows(NoRows) /\ \A k \in RowKeys : NoRows[k] = NoRow
<1>1. NoRow \in FreeRow
  BY NeverLast DEF NoRow, FreeRow
<1> QED BY <1>1 DEF AreRows, NoRows

(***************************************************************************)
(* Where messages are counted: the database, what died, the buffer and the *)
(* batches in the flushes' hands.                                          *)
(***************************************************************************)
MonthShapes ==
  /\ AreRows(buffered) /\ AreRows(statRows) /\ AreRows(died)
  /\ batch \in [MonthFlushers -> [RowKeys -> FreeRow]]
  /\ flusher \in [MonthFlushers -> {"idle", "store", "bound"}]
  /\ added \subseteq Samples
  /\ \A f \in MonthFlushers : flusher[f] # "store" => batch[f] = NoRows

RowsGood ==
  \A k \in RowKeys :
    /\ Good(added, statRows[k], k) /\ Named(added, statRows[k], k)
    /\ Good(added, buffered[k], k) /\ Named(added, buffered[k], k)
    /\ \A f \in MonthFlushers : Good(added, batch[f][k], k) /\ Named(added, batch[f][k], k)
    /\ Good(added, died[k], k)

HeldOf(k) == SumFunctionOnSet([f \in MonthFlushers |-> batch[f][k].msg], MonthFlushers)

CountedOnce ==
  \A k \in RowKeys : statRows[k].msg + died[k].msg + buffered[k].msg + HeldOf(k)
                       = Cardinality(OfRow(added, k))

Covered ==
  \A k \in RowKeys : \A s \in OfRow(added, k) :
    \/ Covers(statRows[k], s, k) \/ Covers(died[k], s, k) \/ Covers(buffered[k], s, k)
    \/ \E f \in MonthFlushers : Covers(batch[f][k], s, k)

Totals ==
  \A m \in Calendars : /\ SumsUp(statRows, m) /\ SumsUp(buffered, m)
                       /\ \A f \in MonthFlushers : SumsUp(batch[f], m)

DataInv == MonthShapes /\ RowsGood /\ CountedOnce /\ Covered /\ Totals

LEMMA HeldTypes ==
  ASSUME MonthShapes, NEW k \in RowKeys
  PROVE  /\ IsFiniteSet(MonthFlushers)
         /\ \A f \in MonthFlushers : batch[f][k].msg \in Nat /\ AreRows(batch[f])
         /\ statRows[k].msg \in Nat /\ died[k].msg \in Nat /\ buffered[k].msg \in Nat
         /\ HeldOf(k) \in Nat
<1>1. IsFiniteSet(MonthFlushers)
  BY MonthAssumption
<1>2. \A f \in MonthFlushers : batch[f][k] \in FreeRow /\ AreRows(batch[f])
  BY DEF MonthShapes, AreRows
<1>3. statRows[k] \in FreeRow /\ died[k] \in FreeRow /\ buffered[k] \in FreeRow
  BY DEF MonthShapes, AreRows
<1>4. \A f \in MonthFlushers : batch[f][k].msg \in Nat
  BY <1>2 DEF FreeRow
<1> DEFINE h == [f \in MonthFlushers |-> batch[f][k].msg]
<1>5. \A f \in MonthFlushers : h[f] \in Nat
  BY <1>4
<1>6. SumFunctionOnSet(h, MonthFlushers) \in Nat
  <2> HIDE DEF h
  <2> QED BY <1>1, <1>5, SumType
<1> QED BY <1>1, <1>2, <1>3, <1>4, <1>6 DEF HeldOf, FreeRow

\* Sets of messages of a row are finite, and a new one makes one more.
LEMMA RowCounts ==
  ASSUME NEW set \in SUBSET Samples, NEW k
  PROVE  /\ IsFiniteSet(OfRow(set, k)) /\ Cardinality(OfRow(set, k)) \in Nat
         /\ Cardinality(OfRow(set, k)) <= Cardinality(Samples)
         /\ \A s \in Samples \ set :
              Cardinality(OfRow(set \cup {s}, k))
                = Cardinality(OfRow(set, k)) + (IF s \in OfRow({s}, k) THEN 1 ELSE 0)
<1>1. OfRow(set, k) \subseteq Samples /\ IsFiniteSet(Samples)
  BY MonthAssumption DEF OfRow
<1>2. IsFiniteSet(OfRow(set, k)) /\ Cardinality(OfRow(set, k)) <= Cardinality(Samples)
  BY <1>1, FS_Subset
<1>3. Cardinality(OfRow(set, k)) \in Nat
  BY <1>2, FS_CardinalityType
<1>4. ASSUME NEW s \in Samples \ set
      PROVE  Cardinality(OfRow(set \cup {s}, k))
                = Cardinality(OfRow(set, k)) + (IF s \in OfRow({s}, k) THEN 1 ELSE 0)
  <2>1. CASE s \in OfRow({s}, k)
    <3>1. OfRow(set \cup {s}, k) = OfRow(set, k) \cup {s} /\ s \notin OfRow(set, k)
      BY <2>1 DEF OfRow
    <3> QED BY <1>2, <2>1, <3>1, FS_AddElement
  <2>2. CASE s \notin OfRow({s}, k)
    <3>1. OfRow(set \cup {s}, k) = OfRow(set, k)
      BY <2>2 DEF OfRow
    <3> QED BY <1>3, <2>2, <3>1
  <2> QED BY <2>1, <2>2
<1> QED BY <1>2, <1>3, <1>4

LEMMA AddSampleKeeps ==
  ASSUME DataInv, NEW s \in Samples, AddSample(s)
  PROVE  DataInv'
<1> USE DEF DataInv
<1>1. /\ added' = added \cup {s} /\ s \notin added
      /\ buffered' = Merge(buffered, Delta(s))
      /\ statRows' = statRows /\ died' = died /\ batch' = batch /\ flusher' = flusher
  BY DEF AddSample
<1>2. AreRows(Delta(s)) /\ AreRows(buffered)
  BY DeltaRows DEF MonthShapes
<1>3. AreRows(buffered') /\ \A k \in RowKeys : buffered'[k] = MergeRow(buffered[k], Delta(s)[k])
  BY <1>1, <1>2, MergeRows
<1>4. MonthShapes'
  BY <1>1, <1>3 DEF MonthShapes
<1>5. ASSUME NEW k \in RowKeys
      PROVE  LET b == buffered'[k]
             IN /\ Good(added', b, k) /\ Named(added', b, k)
                /\ b.msg = buffered[k].msg + (IF s \in OfRow({s}, k) THEN 1 ELSE 0)
                /\ \A t \in Samples : Covers(buffered[k], t, k) => Covers(b, t, k)
                /\ s \in OfRow({s}, k) => Covers(b, s, k)
  <2> DEFINE d == Delta(s)[k]
  <2>1. /\ Good(added', d, k) /\ Named(added', d, k)
        /\ d.msg = IF s \in OfRow(added', k) THEN 1 ELSE 0
        /\ s \in OfRow(added', k) => Covers(d, s, k)
    BY <1>1, DeltaRow
  <2>2. Good(added', buffered[k], k) /\ Named(added', buffered[k], k)
    BY <1>1, GoodOn DEF RowsGood
  <2>3. s \in OfRow(added', k) <=> s \in OfRow({s}, k)
    BY <1>1 DEF OfRow
  <2>4. buffered'[k] = MergeRow(buffered[k], d)
    BY <1>3
  <2> DEFINE r == MergeRow(buffered[k], d)
  <2> HIDE DEF d
  <2>5. /\ Good(added', r, k) /\ Named(added', r, k)
        /\ \A t \in Samples : Covers(buffered[k], t, k) \/ Covers(d, t, k) => Covers(r, t, k)
    BY <2>1, <2>2, Merged, Zenon
  <2>9. r.msg = buffered[k].msg + d.msg
    BY DEF MergeRow
  <2> HIDE DEF r
  <2>6. d.msg = IF s \in OfRow({s}, k) THEN 1 ELSE 0
    BY <2>1, <2>3
  <2>7. r.msg = buffered[k].msg + (IF s \in OfRow({s}, k) THEN 1 ELSE 0)
    BY <2>9, <2>6
  <2>8. s \in OfRow({s}, k) => Covers(r, s, k)
    BY <2>1, <2>3, <2>5
  <2> QED BY <2>4, <2>5, <2>7, <2>8 DEF r
<1>6. RowsGood'
  <2> SUFFICES ASSUME NEW k \in RowKeys
               PROVE  /\ Good(added', statRows[k], k) /\ Named(added', statRows[k], k)
                      /\ Good(added', buffered'[k], k) /\ Named(added', buffered'[k], k)
                      /\ \A f \in MonthFlushers : /\ Good(added', batch[f][k], k)
                                                  /\ Named(added', batch[f][k], k)
                      /\ Good(added', died[k], k)
    BY <1>1 DEF RowsGood
  <2> QED BY <1>1, <1>5, GoodOn DEF RowsGood
<1>7. CountedOnce'
  <2> SUFFICES ASSUME NEW k \in RowKeys
               PROVE  statRows[k].msg + died[k].msg + buffered'[k].msg + HeldOf(k)
                        = Cardinality(OfRow(added', k))
    BY <1>1 DEF CountedOnce, HeldOf
  <2>1. Cardinality(OfRow(added', k))
          = Cardinality(OfRow(added, k)) + (IF s \in OfRow({s}, k) THEN 1 ELSE 0)
    BY <1>1, RowCounts DEF MonthShapes
  <2>2. statRows[k].msg + died[k].msg + buffered[k].msg + HeldOf(k) = Cardinality(OfRow(added, k))
    BY DEF CountedOnce
  <2>3. buffered'[k].msg = buffered[k].msg + (IF s \in OfRow({s}, k) THEN 1 ELSE 0)
    BY <1>5
  <2>4. statRows[k].msg \in Nat /\ died[k].msg \in Nat /\ buffered[k].msg \in Nat /\ HeldOf(k) \in Nat
    BY HeldTypes
  <2> QED BY <2>1, <2>2, <2>3, <2>4
<1>8. Covered'
  <2> SUFFICES ASSUME NEW k \in RowKeys, NEW t \in OfRow(added', k)
               PROVE  \/ Covers(statRows[k], t, k) \/ Covers(died[k], t, k)
                      \/ Covers(buffered'[k], t, k)
                      \/ \E f \in MonthFlushers : Covers(batch[f][k], t, k)
    BY <1>1 DEF Covered
  <2>1. t \in Samples /\ (t \in OfRow(added, k) \/ (t = s /\ s \in OfRow({s}, k)))
    BY <1>1 DEF OfRow, MonthShapes
  <2> QED BY <1>5, <2>1 DEF Covered
<1>9. Totals'
  <2>1. \A m \in Calendars : SumsUp(buffered', m)
    BY <1>1, <1>2, SumsMerge, SumsDelta DEF Totals
  <2> QED BY <1>1, <2>1 DEF Totals
<1> QED BY <1>4, <1>6, <1>7, <1>8, <1>9

LEMMA TakePendingKeeps ==
  ASSUME DataInv, NEW f \in MonthFlushers, TakePending(f)
  PROVE  DataInv'
<1> USE DEF DataInv
<1>1. /\ flusher[f] = "idle" /\ flusher' = [flusher EXCEPT ![f] = "store"]
      /\ batch' = [batch EXCEPT ![f] = buffered] /\ buffered' = NoRows
      /\ statRows' = statRows /\ died' = died /\ added' = added
  BY DEF TakePending
<1>2. /\ batch[f] = NoRows /\ batch'[f] = buffered
      /\ \A g \in MonthFlushers : g # f => batch'[g] = batch[g] /\ flusher'[g] = flusher[g]
      /\ flusher'[f] = "store"
  BY <1>1 DEF MonthShapes
<1>3. MonthShapes'
  BY <1>1, BlankRows DEF MonthShapes, AreRows
<1>4. ASSUME NEW k \in RowKeys
      PROVE  /\ buffered'[k] = NoRow /\ batch[f][k] = NoRow /\ batch'[f][k] = buffered[k]
             /\ NoRow.msg = 0
  BY <1>1, <1>2, BlankRows, Blank
<1>5. RowsGood'
  BY <1>1, <1>2, <1>4, Blank DEF RowsGood
<1>6. CountedOnce'
  <2> SUFFICES ASSUME NEW k \in RowKeys
               PROVE  statRows[k].msg + died[k].msg + buffered'[k].msg + HeldOf(k)'
                        = Cardinality(OfRow(added, k))
    BY <1>1 DEF CountedOnce
  <2> DEFINE a == [g \in MonthFlushers |-> batch[g][k].msg]
             b == [g \in MonthFlushers |-> batch'[g][k].msg]
             n == buffered[k].msg
  <2>1. /\ b[f] = a[f] + n /\ \A g \in MonthFlushers : g # f => b[g] = a[g]
        /\ n \in Nat /\ \A g \in MonthFlushers : a[g] \in Nat
    BY <1>2, <1>4, HeldTypes
  <2>2. SumFunctionOnSet(b, MonthFlushers) = SumFunctionOnSet(a, MonthFlushers) + n
    <3>1. IsFiniteSet(MonthFlushers)
      BY MonthAssumption
    <3> HIDE DEF a, b, n
    <3> QED BY <2>1, <3>1, SumMore
  <2>3. HeldOf(k)' = HeldOf(k) + buffered[k].msg
    BY <2>2 DEF HeldOf
  <2>4. statRows[k].msg + died[k].msg + buffered[k].msg + HeldOf(k) = Cardinality(OfRow(added, k))
    BY DEF CountedOnce
  <2>5. statRows[k].msg \in Nat /\ died[k].msg \in Nat /\ buffered[k].msg \in Nat /\ HeldOf(k) \in Nat
    BY HeldTypes
  <2> QED BY <1>4, <2>3, <2>4, <2>5
<1>7. Covered'
  <2> SUFFICES ASSUME NEW k \in RowKeys, NEW s \in OfRow(added, k)
               PROVE  \/ Covers(statRows[k], s, k) \/ Covers(died[k], s, k)
                      \/ Covers(buffered'[k], s, k)
                      \/ \E g \in MonthFlushers : Covers(batch'[g][k], s, k)
    BY <1>1 DEF Covered
  <2>1. s \in Samples
    BY DEF OfRow, MonthShapes
  <2>2. ~Covers(batch[f][k], s, k)
    BY <1>4, <2>1, Blank
  <2> QED BY <1>2, <1>4, <2>2 DEF Covered
<1>8. Totals'
  BY <1>1, <1>2, SumsNone DEF Totals
<1> QED BY <1>3, <1>5, <1>6, <1>7, <1>8

\* A batch laid over the rows it goes to, the database or the buffer again.
LEMMA LaidOver ==
  ASSUME DataInv, NEW f \in MonthFlushers, NEW r, AreRows(r), NEW k \in RowKeys,
         Good(added, r[k], k), Named(added, r[k], k)
  PROVE  LET q == Merge(r, batch[f])[k]
         IN /\ Good(added, q, k) /\ Named(added, q, k)
            /\ q.msg = r[k].msg + batch[f][k].msg
            /\ \A s \in Samples : Covers(r[k], s, k) \/ Covers(batch[f][k], s, k) => Covers(q, s, k)
<1>1. AreRows(batch[f])
  BY HeldTypes DEF DataInv
<1>2. Merge(r, batch[f])[k] = MergeRow(r[k], batch[f][k])
  BY <1>1, MergeRows
<1>3. Good(added, batch[f][k], k) /\ Named(added, batch[f][k], k)
  BY DEF DataInv, RowsGood
<1> DEFINE q == MergeRow(r[k], batch[f][k])
<1>4. /\ Good(added, q, k) /\ Named(added, q, k)
      /\ \A s \in Samples : Covers(r[k], s, k) \/ Covers(batch[f][k], s, k) => Covers(q, s, k)
  BY <1>3, Merged, Zenon
<1>5. q.msg = r[k].msg + batch[f][k].msg
  BY DEF MergeRow
<1> QED BY <1>2, <1>4, <1>5

LEMMA StoreBatchKeeps ==
  ASSUME DataInv, NEW f \in MonthFlushers, StoreBatch(f)
  PROVE  DataInv'
<1> USE DEF DataInv
<1>1. /\ flusher[f] = "store"
      /\ flusher' \in {[flusher EXCEPT ![f] = "bound"], [flusher EXCEPT ![f] = "idle"]}
      /\ batch' = [batch EXCEPT ![f] = NoRows]
      /\ died' = died /\ added' = added
      /\ \/ statRows' = Merge(statRows, batch[f]) /\ buffered' = buffered
         \/ buffered' = Merge(buffered, batch[f]) /\ statRows' = statRows
  BY DEF StoreBatch
<1>2. /\ batch'[f] = NoRows /\ flusher'[f] # "store"
      /\ \A g \in MonthFlushers : g # f => batch'[g] = batch[g] /\ flusher'[g] = flusher[g]
  BY <1>1 DEF MonthShapes
<1>3. /\ AreRows(statRows) /\ AreRows(buffered) /\ AreRows(batch[f])
      /\ AreRows(Merge(statRows, batch[f])) /\ AreRows(Merge(buffered, batch[f]))
  BY MergeRows DEF MonthShapes, AreRows
<1>4. MonthShapes'
  <2>1. AreRows(statRows') /\ AreRows(buffered')
    BY <1>1, <1>3
  <2>2. batch' \in [MonthFlushers -> [RowKeys -> FreeRow]]
    BY <1>1, BlankRows DEF MonthShapes, AreRows
  <2> QED BY <1>1, <1>2, <2>1, <2>2 DEF MonthShapes
<1>5. ASSUME NEW k \in RowKeys
      PROVE  /\ Good(added, statRows'[k], k) /\ Named(added, statRows'[k], k)
             /\ Good(added, buffered'[k], k) /\ Named(added, buffered'[k], k)
             /\ statRows'[k].msg + buffered'[k].msg = statRows[k].msg + buffered[k].msg + batch[f][k].msg
             /\ \A s \in Samples :
                  /\ Covers(statRows[k], s, k) => Covers(statRows'[k], s, k)
                  /\ Covers(buffered[k], s, k) => Covers(buffered'[k], s, k)
                  /\ Covers(batch[f][k], s, k) => Covers(statRows'[k], s, k) \/ Covers(buffered'[k], s, k)
  <2>1. /\ Good(added, statRows[k], k) /\ Named(added, statRows[k], k)
        /\ Good(added, buffered[k], k) /\ Named(added, buffered[k], k)
    BY DEF RowsGood
  <2>2. statRows[k].msg \in Nat /\ buffered[k].msg \in Nat /\ batch[f][k].msg \in Nat
    BY HeldTypes
  <2>3. CASE statRows' = Merge(statRows, batch[f]) /\ buffered' = buffered
    <3>1. LET q == Merge(statRows, batch[f])[k]
          IN /\ Good(added, q, k) /\ Named(added, q, k)
             /\ q.msg = statRows[k].msg + batch[f][k].msg
             /\ \A s \in Samples : Covers(statRows[k], s, k) \/ Covers(batch[f][k], s, k) => Covers(q, s, k)
      BY <1>3, <2>1, LaidOver
    <3>2. /\ Good(added, statRows'[k], k) /\ Named(added, statRows'[k], k)
          /\ statRows'[k].msg = statRows[k].msg + batch[f][k].msg
          /\ \A s \in Samples : Covers(statRows[k], s, k) \/ Covers(batch[f][k], s, k)
                                  => Covers(statRows'[k], s, k)
      BY <2>3, <3>1
    <3>3. buffered'[k] = buffered[k]
      BY <2>3
    <3>4. statRows'[k].msg + buffered'[k].msg = statRows[k].msg + buffered[k].msg + batch[f][k].msg
      BY <2>2, <3>2, <3>3
    <3> QED BY <2>1, <3>2, <3>3, <3>4
  <2>4. CASE buffered' = Merge(buffered, batch[f]) /\ statRows' = statRows
    <3>1. LET q == Merge(buffered, batch[f])[k]
          IN /\ Good(added, q, k) /\ Named(added, q, k)
             /\ q.msg = buffered[k].msg + batch[f][k].msg
             /\ \A s \in Samples : Covers(buffered[k], s, k) \/ Covers(batch[f][k], s, k) => Covers(q, s, k)
      BY <1>3, <2>1, LaidOver
    <3>2. /\ Good(added, buffered'[k], k) /\ Named(added, buffered'[k], k)
          /\ buffered'[k].msg = buffered[k].msg + batch[f][k].msg
          /\ \A s \in Samples : Covers(buffered[k], s, k) \/ Covers(batch[f][k], s, k)
                                  => Covers(buffered'[k], s, k)
      BY <2>4, <3>1
    <3>3. statRows'[k] = statRows[k]
      BY <2>4
    <3>4. statRows'[k].msg + buffered'[k].msg = statRows[k].msg + buffered[k].msg + batch[f][k].msg
      BY <2>2, <3>2, <3>3
    <3> QED BY <2>1, <3>2, <3>3, <3>4
  <2> QED BY <1>1, <2>3, <2>4
<1>6. RowsGood'
  <2> SUFFICES ASSUME NEW k \in RowKeys
               PROVE  /\ Good(added, statRows'[k], k) /\ Named(added, statRows'[k], k)
                      /\ Good(added, buffered'[k], k) /\ Named(added, buffered'[k], k)
                      /\ \A g \in MonthFlushers : /\ Good(added, batch'[g][k], k)
                                                  /\ Named(added, batch'[g][k], k)
                      /\ Good(added, died[k], k)
    BY <1>1 DEF RowsGood
  <2>1. \A g \in MonthFlushers : Good(added, batch'[g][k], k) /\ Named(added, batch'[g][k], k)
    BY <1>2, Blank DEF RowsGood
  <2> QED BY <1>5, <2>1 DEF RowsGood
<1>7. CountedOnce'
  <2> SUFFICES ASSUME NEW k \in RowKeys
               PROVE  statRows'[k].msg + died[k].msg + buffered'[k].msg + HeldOf(k)'
                        = Cardinality(OfRow(added, k))
    BY <1>1 DEF CountedOnce
  <2> DEFINE a == [g \in MonthFlushers |-> batch[g][k].msg]
             b == [g \in MonthFlushers |-> batch'[g][k].msg]
             n == batch[f][k].msg
  <2>1. batch'[f][k].msg = 0
    BY <1>2, BlankRows, Blank
  <2>2. /\ a[f] = b[f] + n /\ \A g \in MonthFlushers : g # f => a[g] = b[g]
        /\ n \in Nat /\ \A g \in MonthFlushers : b[g] \in Nat
    BY <1>2, <2>1, HeldTypes
  <2>3. SumFunctionOnSet(a, MonthFlushers) = SumFunctionOnSet(b, MonthFlushers) + n
        /\ SumFunctionOnSet(b, MonthFlushers) \in Nat
    <3>1. IsFiniteSet(MonthFlushers)
      BY MonthAssumption
    <3> HIDE DEF a, b, n
    <3> QED BY <2>2, <3>1, SumMore, SumType
  <2>4. HeldOf(k) = HeldOf(k)' + batch[f][k].msg /\ HeldOf(k)' \in Nat
    BY <2>3 DEF HeldOf
  <2>5. statRows[k].msg + died[k].msg + buffered[k].msg + HeldOf(k) = Cardinality(OfRow(added, k))
    BY DEF CountedOnce
  <2>6. /\ statRows[k].msg \in Nat /\ died[k].msg \in Nat /\ buffered[k].msg \in Nat
        /\ batch[f][k].msg \in Nat
    BY HeldTypes
  <2>7. statRows'[k].msg \in Nat /\ buffered'[k].msg \in Nat
    BY <1>5 DEF Good, FreeRow
  <2>8. statRows'[k].msg + buffered'[k].msg = statRows[k].msg + buffered[k].msg + batch[f][k].msg
    BY <1>5
  <2> HIDE DEF a, b, n
  <2>9. statRows'[k].msg + died[k].msg + buffered'[k].msg + HeldOf(k)'
          = (statRows'[k].msg + buffered'[k].msg) + (died[k].msg + HeldOf(k)')
    BY <2>4, <2>6, <2>7
  <2>10. statRows[k].msg + died[k].msg + buffered[k].msg + HeldOf(k)
           = (statRows[k].msg + buffered[k].msg + batch[f][k].msg) + (died[k].msg + HeldOf(k)')
    BY <2>4, <2>6
  <2> QED BY <2>5, <2>8, <2>9, <2>10
<1>8. Covered'
  <2> SUFFICES ASSUME NEW k \in RowKeys, NEW s \in OfRow(added, k)
               PROVE  \/ Covers(statRows'[k], s, k) \/ Covers(died[k], s, k)
                      \/ Covers(buffered'[k], s, k)
                      \/ \E g \in MonthFlushers : Covers(batch'[g][k], s, k)
    BY <1>1 DEF Covered
  <2>1. s \in Samples
    BY DEF OfRow, MonthShapes
  <2> QED BY <1>2, <1>5, <2>1 DEF Covered
<1>9. Totals'
  <2>1. \A m \in Calendars : /\ SumsUp(Merge(statRows, batch[f]), m)
                             /\ SumsUp(Merge(buffered, batch[f]), m)
    BY <1>3, SumsMerge DEF Totals
  <2>2. \A m \in Calendars, g \in MonthFlushers : SumsUp(batch'[g], m)
    BY <1>2, SumsNone DEF Totals
  <2> QED BY <1>1, <2>1, <2>2 DEF Totals
<1> QED BY <1>4, <1>6, <1>7, <1>8, <1>9

\* The rows in memory together: the least and the greatest of them, and the sum.
LEMMA MemoryRow ==
  ASSUME DataInv, NEW k \in RowKeys
  PROVE  LET i == InMemory[k]
         IN /\ Good(added, i, k)
            /\ i.msg = buffered[k].msg + HeldOf(k)
            /\ \A s \in Samples :
                 Covers(buffered[k], s, k) \/ (\E f \in MonthFlushers : Covers(batch[f][k], s, k))
                   => Covers(i, s, k)
<1> USE DEF DataInv
<1> DEFINE i == InMemory[k]
           first == [f \in MonthFlushers |-> batch[f][k].first]
           long == [f \in MonthFlushers |-> batch[f][k].longest]
           F == {buffered[k].first} \cup {first[f] : f \in MonthFlushers}
           L == {buffered[k].longest} \cup {long[f] : f \in MonthFlushers}
<1>1. /\ buffered[k] \in FreeRow /\ \A f \in MonthFlushers : batch[f][k] \in FreeRow
      /\ Never \in Nat
  BY NeverLast DEF MonthShapes, AreRows
<1>2. IsFiniteSet(F) /\ IsFiniteSet(L)
  <2>1. IsFiniteSet(MonthFlushers)
    BY MonthAssumption
  <2>2. IsFiniteSet({buffered[k].first}) /\ IsFiniteSet({buffered[k].longest})
    BY FS_Singleton
  <2> HIDE DEF first, long
  <2>3. IsFiniteSet({first[f] : f \in MonthFlushers})
    BY <2>1, Images
  <2>4. IsFiniteSet({long[f] : f \in MonthFlushers})
    BY <2>1, Images
  <2> QED BY <2>2, <2>3, <2>4, FS_Union
<1>3. F \subseteq Nat /\ L \subseteq Nat /\ F # {} /\ L # {}
  BY <1>1 DEF FreeRow
<1>4. /\ {buffered[k].first} \cup {batch[f][k].first : f \in MonthFlushers} = F
      /\ {buffered[k].longest} \cup {batch[f][k].longest : f \in MonthFlushers} = L
  OBVIOUS
<1>5. /\ Min(F) \in F /\ \A x \in F : Min(F) <= x
      /\ Max(L) \in L /\ \A x \in L : x <= Max(L)
  <2> HIDE DEF F, L
  <2>1. PICK m \in F : \A x \in F : m <= x
    BY <1>2, <1>3, Extremes
  <2>2. PICK n \in L : \A x \in L : x <= n
    BY <1>2, <1>3, Extremes
  <2> QED BY <2>1, <2>2 DEF Min, Max
<1>6. i = [msg |-> buffered[k].msg + HeldOf(k), first |-> Min(F), longest |-> Max(L), by |-> Meta]
  <2>1. SumFunction([f \in MonthFlushers |-> batch[f][k].msg]) = HeldOf(k)
    BY SumOver DEF HeldOf
  <2>2. i = [msg |-> buffered[k].msg + SumFunction([f \in MonthFlushers |-> batch[f][k].msg]),
             first |-> Min({buffered[k].first} \cup {batch[f][k].first : f \in MonthFlushers}),
             longest |-> Max({buffered[k].longest} \cup {batch[f][k].longest : f \in MonthFlushers}),
             by |-> Meta]
    BY DEF InMemory
  <2> HIDE DEF i, F, L
  <2> QED BY <1>4, <2>1, <2>2
<1>7. \E r \in {buffered[k]} \cup {batch[f][k] : f \in MonthFlushers} : i.first = r.first
  <2>1. \A x \in F : \E r \in {buffered[k]} \cup {batch[f][k] : f \in MonthFlushers} : x = r.first
    OBVIOUS
  <2>2. i.first = Min(F)
    BY <1>6
  <2> HIDE DEF i, F, L
  <2> QED BY <1>5, <2>1, <2>2
<1>8. \E r \in {buffered[k]} \cup {batch[f][k] : f \in MonthFlushers} : i.longest = r.longest
  <2>1. \A x \in L : \E r \in {buffered[k]} \cup {batch[f][k] : f \in MonthFlushers} : x = r.longest
    OBVIOUS
  <2>2. i.longest = Max(L)
    BY <1>6
  <2> HIDE DEF i, F, L
  <2> QED BY <1>5, <2>1, <2>2
<1>9. \A r \in {buffered[k]} \cup {batch[f][k] : f \in MonthFlushers} :
        /\ i.first <= r.first /\ r.longest <= i.longest
        /\ Good(added, r, k) /\ r \in FreeRow
  <2>1. i.first = Min(F) /\ i.longest = Max(L)
    BY <1>6
  <2>2. \A r \in {buffered[k]} \cup {batch[f][k] : f \in MonthFlushers} : r.first \in F /\ r.longest \in L
    OBVIOUS
  <2> HIDE DEF i, F, L
  <2> QED BY <1>1, <1>5, <2>1, <2>2 DEF RowsGood
<1>10. i \in FreeRow
  <2>1. buffered[k].msg \in Nat /\ HeldOf(k) \in Nat
    BY HeldTypes
  <2>2. Min(F) \in 0..Never /\ Max(L) \in Nat
    <3>1. Min(F) \in Nat /\ Min(F) <= buffered[k].first
      BY <1>3, <1>5
    <3> HIDE DEF F
    <3> QED BY <1>1, <1>3, <1>5, <3>1 DEF FreeRow
  <2> HIDE DEF i, F, L
  <2> QED BY <1>6, <2>1, <2>2 DEF FreeRow
<1>11. i.msg = buffered[k].msg + HeldOf(k)
  BY <1>6
<1> HIDE DEF i, F, L
<1>12. Good(added, i, k)
  BY <1>7, <1>8, <1>9, <1>10 DEF Good
<1>13. ASSUME NEW s \in Samples, NEW r \in {buffered[k]} \cup {batch[f][k] : f \in MonthFlushers},
              Covers(r, s, k)
       PROVE  Covers(i, s, k)
  <2>1. i \in FreeRow /\ r \in FreeRow /\ i.first <= r.first /\ r.longest <= i.longest
    BY <1>9, <1>10
  <2> QED BY <1>13, <2>1, NeverLast DEF Covers, FreeRow
<1>14. \A s \in Samples :
         Covers(buffered[k], s, k) \/ (\E f \in MonthFlushers : Covers(batch[f][k], s, k))
           => Covers(i, s, k)
  BY <1>13
<1> QED BY <1>11, <1>12, <1>14 DEF i

LEMMA MemoryRows ==
  ASSUME DataInv PROVE AreRows(InMemory)
<1>1. \A k \in RowKeys : InMemory[k] \in FreeRow
  BY MemoryRow DEF Good
<1> QED BY <1>1 DEF AreRows, InMemory

\* What everything comes to: exactly the messages added.
LEMMA EverythingCounted ==
  ASSUME DataInv PROVE Unattributed(Everything) = Counted(added)
<1> USE DEF DataInv
<1>1. AreRows(statRows) /\ AreRows(died) /\ AreRows(InMemory) /\ AreRows(Merge(statRows, died))
  BY MemoryRows, MergeRows DEF MonthShapes
<1>2. ASSUME NEW k \in RowKeys
      PROVE  /\ Everything[k].msg = Counted(added)[k].msg
             /\ Everything[k].first = Counted(added)[k].first
             /\ Everything[k].longest = Counted(added)[k].longest
  <2> DEFINE a == MergeRow(statRows[k], died[k])
             i == InMemory[k]
             e == MergeRow(a, i)
             O == OfRow(added, k)
             ts == [s \in O |-> Sent[s].ts]
             runes == [s \in O |-> Sent[s].runes]
             T == {Never} \cup {ts[s] : s \in O}
             R == {0} \cup {runes[s] : s \in O}
  <2>1. Everything[k] = e
    BY <1>1, MergeRows DEF Everything
  <2>2. /\ Good(added, a, k)
        /\ \A s \in Samples : Covers(statRows[k], s, k) \/ Covers(died[k], s, k) => Covers(a, s, k)
    BY Merged, Zenon DEF RowsGood
  <2>3. /\ Good(added, i, k) /\ i.msg = buffered[k].msg + HeldOf(k)
        /\ \A s \in Samples :
             Covers(buffered[k], s, k) \/ (\E f \in MonthFlushers : Covers(batch[f][k], s, k))
               => Covers(i, s, k)
    BY MemoryRow, Zenon
  <2>4. /\ a.msg = statRows[k].msg + died[k].msg /\ e.msg = a.msg + i.msg
    BY DEF MergeRow
  <2> HIDE DEF a, i
  <2>5. /\ Good(added, e, k)
        /\ \A s \in Samples : Covers(a, s, k) \/ Covers(i, s, k) => Covers(e, s, k)
    BY <2>2, <2>3, Merged, Zenon
  <2> HIDE DEF e
  <2>6. e.msg = Cardinality(O)
    <3>1. statRows[k].msg + died[k].msg + buffered[k].msg + HeldOf(k) = Cardinality(O)
      BY DEF CountedOnce
    <3>2. statRows[k].msg \in Nat /\ died[k].msg \in Nat /\ buffered[k].msg \in Nat /\ HeldOf(k) \in Nat
      BY HeldTypes
    <3> HIDE DEF O
    <3> QED BY <2>3, <2>4, <3>1, <3>2
  <2>7. O \subseteq Samples /\ IsFiniteSet(O)
    <3>1. added \in SUBSET Samples
      BY DEF MonthShapes
    <3>2. IsFiniteSet(O)
      BY <3>1, RowCounts, Zenon
    <3> QED BY <3>1, <3>2 DEF OfRow
  <2>8. \A s \in O : Covers(e, s, k)
    BY <2>2, <2>3, <2>5, <2>7 DEF Covered
  <2>9. e \in FreeRow /\ Never \in Nat /\ \A s \in O : Sent[s].ts \in 0..Never /\ Sent[s].runes \in Nat
    BY <2>5, <2>7, NeverLast DEF Good
  <2> HIDE DEF O
  <2>10. IsFiniteSet(T) /\ IsFiniteSet(R)
    <3>1. IsFiniteSet({Never}) /\ IsFiniteSet({0})
      BY FS_Singleton
    <3> HIDE DEF ts, runes
    <3>2. IsFiniteSet({ts[s] : s \in O})
      BY <2>7, Images
    <3>3. IsFiniteSet({runes[s] : s \in O})
      BY <2>7, Images
    <3> QED BY <3>1, <3>2, <3>3, FS_Union
  <2>11. /\ T = {Never} \cup {Sent[s].ts : s \in O} /\ T \subseteq Nat /\ T # {}
         /\ R = {0} \cup {Sent[s].runes : s \in O} /\ R \subseteq Nat /\ R # {}
    BY <2>9
  <2>12. /\ Counted(added)[k].msg = Cardinality(O)
         /\ Counted(added)[k].first = IF k[2] = Meta THEN Never ELSE Min(T)
         /\ Counted(added)[k].longest = IF k[2] = Meta THEN Max(R) ELSE 0
    <3>1. Counted(added)[k] =
            [msg     |-> Cardinality(O),
             first   |-> IF k[2] = Meta THEN Never ELSE Min({Never} \cup {Sent[s].ts : s \in O}),
             longest |-> IF k[2] = Meta THEN Max({0} \cup {Sent[s].runes : s \in O}) ELSE 0]
      BY DEF Counted, O
    <3> HIDE DEF T, R
    <3> QED BY <2>11, <3>1
  <2>13. k[2] # Meta => e.first = Min(T)
    <3> SUFFICES ASSUME k[2] # Meta PROVE e.first = Min(T)
      OBVIOUS
    <3>1. e.first \in T
      BY <2>5 DEF Good, O
    <3>2. \A x \in T : e.first <= x
      BY <2>8, <2>9 DEF Covers, FreeRow
    <3> HIDE DEF T
    <3>3. \A x \in T : (\A y \in T : x <= y) => x = e.first
      BY <2>11, <3>1, <3>2
    <3> QED BY <3>1, <3>2, <3>3 DEF Min
  <2>14. k[2] = Meta => e.first = Never
    BY <2>5 DEF Good
  <2>15. k[2] = Meta => e.longest = Max(R)
    <3> SUFFICES ASSUME k[2] = Meta PROVE e.longest = Max(R)
      OBVIOUS
    <3>1. e.longest \in R
      BY <2>5 DEF Good, O
    <3>2. \A x \in R : x <= e.longest
      BY <2>8, <2>9 DEF Covers, FreeRow
    <3> HIDE DEF R
    <3>3. \A x \in R : (\A y \in R : y <= x) => x = e.longest
      BY <2>11, <3>1, <3>2
    <3> QED BY <3>1, <3>2, <3>3 DEF Max
  <2>16. k[2] # Meta => e.longest = 0
    BY <2>5 DEF Good
  <2> HIDE DEF T, R
  <2> QED BY <2>1, <2>6, <2>12, <2>13, <2>14, <2>15, <2>16
<1>3. Counted(added) = [k \in RowKeys |-> [msg |-> Counted(added)[k].msg,
                                           first |-> Counted(added)[k].first,
                                           longest |-> Counted(added)[k].longest]]
  BY DEF Counted
<1>4. Unattributed(Everything) = [k \in RowKeys |-> [msg |-> Everything[k].msg,
                                                    first |-> Everything[k].first,
                                                    longest |-> Everything[k].longest]]
  BY DEF Unattributed
<1> QED BY <1>2, <1>3, <1>4, Zenon

LEMMA MonthRestartKeeps ==
  ASSUME DataInv, MonthRestart PROVE DataInv'
<1> USE DEF DataInv
<1>1. /\ died' = Merge(died, InMemory) /\ buffered' = NoRows
      /\ batch' = [f \in MonthFlushers |-> NoRows]
      /\ flusher' = [f \in MonthFlushers |-> "idle"]
      /\ statRows' = statRows /\ added' = added
  BY DEF MonthRestart
<1>2. AreRows(InMemory) /\ AreRows(died)
  BY MemoryRows DEF MonthShapes
<1>3. AreRows(died') /\ \A k \in RowKeys : died'[k] = MergeRow(died[k], InMemory[k])
  BY <1>1, <1>2, MergeRows
<1>4. \A f \in MonthFlushers : batch'[f] = NoRows
  BY <1>1
<1>5. MonthShapes'
  BY <1>1, <1>3, BlankRows DEF MonthShapes, AreRows
<1>6. ASSUME NEW k \in RowKeys
      PROVE  /\ Good(added, died'[k], k)
             /\ died'[k].msg = died[k].msg + (buffered[k].msg + HeldOf(k))
             /\ \A s \in Samples :
                  Covers(died[k], s, k) \/ Covers(buffered[k], s, k)
                  \/ (\E f \in MonthFlushers : Covers(batch[f][k], s, k)) => Covers(died'[k], s, k)
  <2> DEFINE i == InMemory[k]
             r == MergeRow(died[k], i)
  <2>1. /\ Good(added, i, k) /\ i.msg = buffered[k].msg + HeldOf(k)
        /\ \A s \in Samples :
             Covers(buffered[k], s, k) \/ (\E f \in MonthFlushers : Covers(batch[f][k], s, k))
               => Covers(i, s, k)
    BY MemoryRow, Zenon
  <2>2. Good(added, died[k], k)
    BY DEF RowsGood
  <2>3. r.msg = died[k].msg + i.msg
    BY DEF MergeRow
  <2> HIDE DEF i
  <2>4. /\ Good(added, r, k)
        /\ \A s \in Samples : Covers(died[k], s, k) \/ Covers(i, s, k) => Covers(r, s, k)
    BY <2>1, <2>2, Merged, Zenon
  <2>5. died'[k] = r
    BY <1>3 DEF i
  <2> HIDE DEF r
  <2>6. Good(added, died'[k], k)
    BY <2>4, <2>5
  <2>7. died'[k].msg = died[k].msg + (buffered[k].msg + HeldOf(k))
    BY <2>1, <2>3, <2>5
  <2>8. ASSUME NEW s \in Samples,
               \/ Covers(died[k], s, k) \/ Covers(buffered[k], s, k)
               \/ \E f \in MonthFlushers : Covers(batch[f][k], s, k)
        PROVE  Covers(died'[k], s, k)
    BY <2>1, <2>4, <2>5, <2>8, Zenon
  <2> QED BY <2>6, <2>7, <2>8
<1>7. RowsGood'
  <2> SUFFICES ASSUME NEW k \in RowKeys
               PROVE  /\ Good(added, statRows[k], k) /\ Named(added, statRows[k], k)
                      /\ Good(added, NoRows[k], k) /\ Named(added, NoRows[k], k)
                      /\ Good(added, died'[k], k)
    BY <1>1, <1>4 DEF RowsGood
  <2> QED BY <1>6, Blank DEF RowsGood
<1>8. CountedOnce'
  <2> SUFFICES ASSUME NEW k \in RowKeys
               PROVE  statRows[k].msg + died'[k].msg + buffered'[k].msg + HeldOf(k)'
                        = Cardinality(OfRow(added, k))
    BY <1>1 DEF CountedOnce
  <2> DEFINE b == [f \in MonthFlushers |-> batch'[f][k].msg]
  <2>1. NoRows[k] = NoRow /\ NoRow.msg = 0
    BY Blank
  <2>2. \A f \in MonthFlushers : b[f] = 0
    BY <1>4, <2>1
  <2>3. SumFunctionOnSet(b, MonthFlushers) = 0
    <3>1. IsFiniteSet(MonthFlushers)
      BY MonthAssumption
    <3> HIDE DEF b
    <3> QED BY <2>2, <3>1, SumOfZeros
  <2>4. HeldOf(k)' = 0
    BY <2>3 DEF HeldOf
  <2>5. statRows[k].msg + died[k].msg + buffered[k].msg + HeldOf(k) = Cardinality(OfRow(added, k))
    BY DEF CountedOnce
  <2>6. statRows[k].msg \in Nat /\ died[k].msg \in Nat /\ buffered[k].msg \in Nat /\ HeldOf(k) \in Nat
    BY HeldTypes
  <2>7. buffered'[k].msg = 0
    BY <1>1, <2>1
  <2>8. died'[k].msg = died[k].msg + (buffered[k].msg + HeldOf(k))
    BY <1>6
  <2> QED BY <2>4, <2>5, <2>6, <2>7, <2>8
<1>9. Covered'
  <2> SUFFICES ASSUME NEW k \in RowKeys, NEW s \in OfRow(added, k)
               PROVE  Covers(statRows[k], s, k) \/ Covers(died'[k], s, k)
    BY <1>1 DEF Covered
  <2>1. s \in Samples
    BY DEF OfRow, MonthShapes
  <2> QED BY <1>6, <2>1 DEF Covered
<1>10. Totals'
  BY <1>1, <1>4, SumsNone DEF Totals
<1> QED BY <1>5, <1>7, <1>8, <1>9, <1>10

\* The other steps leave the rows where they are.
LEMMA DataStays ==
  ASSUME DataInv, UNCHANGED <<buffered, batch, statRows, added, died>>,
         \/ flusher' = flusher
         \/ \E f \in MonthFlushers : flusher' = [flusher EXCEPT ![f] = "idle"] /\ flusher[f] = "bound"
  PROVE  DataInv'
<1> USE DEF DataInv
<1>1. /\ flusher' \in [MonthFlushers -> {"idle", "store", "bound"}]
      /\ \A f \in MonthFlushers : flusher'[f] # "store" => flusher[f] # "store"
  BY DEF MonthShapes
<1>2. MonthShapes'
  BY <1>1 DEF MonthShapes
<1> QED BY <1>2 DEF RowsGood, CountedOnce, Covered, Totals, HeldOf

LEMMA DataStep == DataInv /\ [MonthNext]_monthVars => DataInv'
<1> SUFFICES ASSUME DataInv, [MonthNext]_monthVars PROVE DataInv'
  OBVIOUS
<1>1. ASSUME NEW s \in Samples, AddSample(s) PROVE DataInv'
  BY <1>1, AddSampleKeeps
<1>2. ASSUME NEW f \in MonthFlushers, TakePending(f) PROVE DataInv'
  BY <1>2, TakePendingKeeps
<1>3. ASSUME NEW f \in MonthFlushers, StoreBatch(f) PROVE DataInv'
  BY <1>3, StoreBatchKeeps
<1>4. ASSUME NEW f \in MonthFlushers, PersistStart(f) PROVE DataInv'
  BY <1>4, DataStays DEF PersistStart
<1>5. ASSUME NEW m \in Calendars, MonthReport(m) PROVE DataInv'
  BY <1>5, DataStays DEF MonthReport, dataVars
<1>6. CASE EagerStart
  BY <1>6, DataStays DEF EagerStart
<1>7. CASE GetSummary
  BY <1>7, DataStays DEF GetSummary, dataVars
<1>8. CASE GetMergedMonth
  BY <1>8, DataStays DEF GetMergedMonth, dataVars
<1>9. CASE PutSummary
  BY <1>9, DataStays DEF PutSummary, dataVars
<1>10. CASE MonthEnds
  BY <1>10, DataStays DEF MonthEnds, dataVars
<1>11. CASE MonthRestart
  BY <1>11, MonthRestartKeeps
<1>12. CASE UNCHANGED monthVars
  BY <1>12, DataStays DEF monthVars
<1> QED BY <1>1, <1>2, <1>3, <1>4, <1>5, <1>6, <1>7, <1>8, <1>9, <1>10, <1>11, <1>12 DEF MonthNext

LEMMA DataStarts == MonthInit => DataInv
<1> SUFFICES ASSUME MonthInit PROVE DataInv
  OBVIOUS
<1>1. /\ buffered = NoRows /\ statRows = NoRows /\ died = NoRows
      /\ batch = [f \in MonthFlushers |-> NoRows]
      /\ flusher = [f \in MonthFlushers |-> "idle"] /\ added = {}
  BY DEF MonthInit
<1>2. MonthShapes
  BY <1>1, BlankRows DEF MonthShapes, AreRows
<1>3. RowsGood
  BY <1>1, Blank DEF RowsGood
<1>4. CountedOnce
  <2> SUFFICES ASSUME NEW k \in RowKeys
               PROVE  statRows[k].msg + died[k].msg + buffered[k].msg + HeldOf(k)
                        = Cardinality(OfRow(added, k))
    BY DEF CountedOnce
  <2> DEFINE b == [f \in MonthFlushers |-> batch[f][k].msg]
  <2>1. NoRows[k] = NoRow /\ NoRow.msg = 0
    BY Blank
  <2>2. \A f \in MonthFlushers : b[f] = 0
    BY <1>1, <2>1
  <2>3. SumFunctionOnSet(b, MonthFlushers) = 0
    <3>1. IsFiniteSet(MonthFlushers)
      BY MonthAssumption
    <3> HIDE DEF b
    <3> QED BY <2>2, <3>1, SumOfZeros
  <2>4. OfRow(added, k) = {}
    BY <1>1 DEF OfRow
  <2>5. Cardinality(OfRow(added, k)) = 0
    BY <2>4, FS_EmptySet
  <2> QED BY <1>1, <2>1, <2>3, <2>5 DEF HeldOf
<1>5. Covered
  BY <1>1 DEF Covered, OfRow
<1>6. Totals
  BY <1>1, SumsNone DEF Totals
<1> QED BY <1>2, <1>3, <1>4, <1>5, <1>6 DEF DataInv

(***************************************************************************)
(* The boundary: no later than what is stored, and at every stage a lower  *)
(* bound of the rows that are on their way.                                *)
(***************************************************************************)
BoundTypes ==
  /\ starts \in [MonthFlushers -> 0..Never] /\ liveStart \in 0..Never
  /\ eager \in [at : {"none", "due", "done"}, ts : 0..Never]
  /\ state \in [start : 0..Never, changes : Nat]
  /\ missed \in BOOLEAN

Below ==
  /\ \A k \in RowKeys : liveStart <= buffered[k].first
  /\ \A f \in MonthFlushers : /\ liveStart <= starts[f]
                              /\ \A k \in RowKeys : starts[f] <= batch[f][k].first

Written ==
  ~missed => \A k \in RowKeys :
               \/ state.start <= statRows[k].first
               \/ \E f \in MonthFlushers : flusher[f] = "bound" /\ starts[f] <= statRows[k].first

BoundInv == BoundTypes /\ Below /\ Written

LEMMA FirstTypes ==
  ASSUME DataInv, BoundTypes
  PROVE  /\ liveStart \in Nat /\ Never \in Nat /\ state.start \in Nat /\ state.changes \in Nat
         /\ liveStart <= Never /\ state.start <= Never
         /\ state = [start |-> state.start, changes |-> state.changes]
         /\ \A f \in MonthFlushers : starts[f] \in Nat /\ starts[f] <= Never
         /\ \A k \in RowKeys : /\ buffered[k].first \in Nat /\ statRows[k].first \in Nat
                               /\ \A f \in MonthFlushers : batch[f][k].first \in Nat
<1>1. Never \in Nat
  BY NeverLast
<1>2. ASSUME NEW k \in RowKeys
      PROVE  /\ buffered[k].first \in Nat /\ statRows[k].first \in Nat
             /\ \A f \in MonthFlushers : batch[f][k].first \in Nat
  <2>1. buffered[k] \in FreeRow /\ statRows[k] \in FreeRow /\ \A f \in MonthFlushers : batch[f][k] \in FreeRow
    BY DEF DataInv, MonthShapes, AreRows
  <2> QED BY <1>1, <2>1 DEF FreeRow
<1>3. \A x \in 0..Never : x \in Nat /\ x <= Never
  BY <1>1
<1> QED BY <1>1, <1>2, <1>3 DEF BoundTypes

\* The first of two rows is the earlier of theirs.
LEMMA FirstOf ==
  ASSUME NEW a, NEW b, AreRows(a), AreRows(b), NEW k \in RowKeys
  PROVE  LET q == Merge(a, b)[k] IN
         /\ q.first = a[k].first \/ q.first = b[k].first
<1>1. Merge(a, b)[k] = MergeRow(a[k], b[k])
  BY MergeRows
<1> QED BY <1>1 DEF MergeRow, Earlier

LEMMA BoundWritten ==
  ASSUME BoundTypes, NEW t \in 0..Never, SetLiveTrackStart(t)
  PROVE  /\ state' \in [start : 0..Never, changes : Nat] /\ missed' \in BOOLEAN
         /\ ~missed' => ~missed /\ state'.start <= t /\ state'.start <= state.start
<1>1. Never \in Nat /\ state.start \in 0..Never /\ state.changes \in Nat
  BY NeverLast DEF BoundTypes
<1>2. CASE /\ state' = IF t < state.start THEN [start |-> t, changes |-> state.changes + 1] ELSE state
           /\ UNCHANGED missed
  <2>1. CASE t < state.start
    <3>1. state' = [start |-> t, changes |-> state.changes + 1]
      BY <1>2, <2>1
    <3> QED BY <1>1, <1>2, <2>1, <3>1 DEF BoundTypes
  <2>2. CASE ~(t < state.start)
    BY <1>1, <1>2, <2>2 DEF BoundTypes
  <2> QED BY <2>1, <2>2
<1>3. CASE missed' = TRUE /\ UNCHANGED state
  BY <1>3 DEF BoundTypes
<1> QED BY <1>2, <1>3 DEF SetLiveTrackStart

LEMMA BoundStep == DataInv /\ BoundInv /\ [MonthNext]_monthVars => BoundInv'
<1> SUFFICES ASSUME DataInv, BoundTypes, Below, Written, [MonthNext]_monthVars PROVE BoundInv'
  BY DEF BoundInv
<1> USE FirstTypes
<1>1. ASSUME NEW s \in Samples, AddSample(s) PROVE BoundInv'
  <2>1. /\ buffered' = Merge(buffered, Delta(s)) /\ liveStart' = Earlier(liveStart, Sent[s].ts)
        /\ eager' = IF eager.at = "none" THEN [at |-> "due", ts |-> Sent[s].ts] ELSE eager
        /\ UNCHANGED <<batch, starts, flusher, statRows, state, missed>>
    BY <1>1 DEF AddSample
  <2>2. Sent[s].ts \in 0..Never
    BY NeverLast
  <2>3. /\ liveStart' \in 0..Never /\ liveStart' <= liveStart /\ liveStart' <= Sent[s].ts
    BY <2>1, <2>2 DEF Earlier
  <2>4. BoundTypes'
    <3>1. eager' \in [at : {"none", "due", "done"}, ts : 0..Never]
      BY <2>1, <2>2 DEF BoundTypes
    <3> QED BY <2>1, <2>3, <3>1 DEF BoundTypes
  <2>5. ASSUME NEW k \in RowKeys PROVE liveStart' <= buffered'[k].first
    <3>1. AreRows(buffered) /\ AreRows(Delta(s))
      BY DeltaRows DEF DataInv, MonthShapes
    <3>2. buffered'[k].first = buffered[k].first \/ buffered'[k].first = Delta(s)[k].first
      BY <2>1, <3>1, FirstOf
    <3>3. Sent[s].ts <= Delta(s)[k].first
      BY DeltaRow
    <3>4. Delta(s)[k].first \in Nat
      BY <3>1, NeverLast DEF AreRows, FreeRow
    <3>5. liveStart <= buffered[k].first /\ buffered[k].first \in Nat /\ liveStart' \in Nat
      BY <2>3 DEF Below
    <3> QED BY <2>2, <2>3, <3>2, <3>3, <3>4, <3>5
  <2>6. Below'
    <3>1. \A f \in MonthFlushers : liveStart' <= starts[f]
      BY <2>3 DEF Below
    <3> QED BY <2>1, <2>5, <3>1 DEF Below
  <2>7. Written'
    BY <2>1 DEF Written
  <2> QED BY <2>4, <2>6, <2>7 DEF BoundInv
<1>2. ASSUME NEW f \in MonthFlushers, TakePending(f) PROVE BoundInv'
  <2>1. /\ flusher[f] = "idle" /\ flusher' = [flusher EXCEPT ![f] = "store"]
        /\ batch' = [batch EXCEPT ![f] = buffered] /\ starts' = [starts EXCEPT ![f] = liveStart]
        /\ buffered' = NoRows
        /\ UNCHANGED <<liveStart, eager, statRows, state, missed>>
    BY <1>2 DEF TakePending
  <2>2. /\ starts'[f] = liveStart /\ batch'[f] = buffered
        /\ \A g \in MonthFlushers : g # f => /\ starts'[g] = starts[g] /\ batch'[g] = batch[g]
                                             /\ flusher'[g] = flusher[g]
    BY <2>1 DEF BoundTypes, DataInv, MonthShapes
  <2>3. BoundTypes'
    BY <2>1 DEF BoundTypes
  <2>4. \A k \in RowKeys : NoRows[k].first = Never
    BY Blank
  <2>5. Below'
    BY <2>1, <2>2, <2>4 DEF Below
  <2>6. Written'
    BY <2>1, <2>2 DEF Written
  <2> QED BY <2>3, <2>5, <2>6 DEF BoundInv
<1>3. ASSUME NEW f \in MonthFlushers, StoreBatch(f) PROVE BoundInv'
  <2>1. /\ flusher[f] = "store" /\ batch' = [batch EXCEPT ![f] = NoRows]
        /\ UNCHANGED <<liveStart, eager, state, missed>>
    BY <1>3 DEF StoreBatch
  <2>2. /\ batch'[f] = NoRows /\ \A g \in MonthFlushers : g # f => batch'[g] = batch[g]
    BY <2>1 DEF DataInv, MonthShapes
  <2>3. \A k \in RowKeys : NoRows[k].first = Never
    BY Blank
  <2>4. AreRows(statRows) /\ AreRows(buffered) /\ AreRows(batch[f])
    BY DEF DataInv, MonthShapes, AreRows
  <2>5. CASE /\ statRows' = Merge(statRows, batch[f])
             /\ flusher' = [flusher EXCEPT ![f] = "bound"]
             /\ UNCHANGED <<buffered, starts>>
    <3>1. BoundTypes'
      BY <2>1, <2>5 DEF BoundTypes
    <3>2. Below'
      BY <2>1, <2>2, <2>3, <2>5 DEF Below
    <3>3. /\ flusher'[f] = "bound"
          /\ \A g \in MonthFlushers : flusher[g] = "bound" => flusher'[g] = "bound"
      BY <2>1, <2>5 DEF DataInv, MonthShapes
    <3>4. ASSUME ~missed, NEW k \in RowKeys
          PROVE  \/ state.start <= statRows'[k].first
                 \/ \E g \in MonthFlushers : flusher'[g] = "bound" /\ starts[g] <= statRows'[k].first
      <4>1. statRows'[k].first = statRows[k].first \/ statRows'[k].first = batch[f][k].first
        BY <2>4, <2>5, FirstOf
      <4>2. starts[f] <= batch[f][k].first
        BY DEF Below
      <4> QED BY <3>3, <3>4, <4>1, <4>2 DEF Written
    <3>5. Written'
      BY <2>1, <2>5, <3>4 DEF Written
    <3> QED BY <3>1, <3>2, <3>5 DEF BoundInv
  <2>6. CASE /\ buffered' = Merge(buffered, batch[f])
             /\ flusher' = [flusher EXCEPT ![f] = "idle"]
             /\ starts' = [starts EXCEPT ![f] = Never]
             /\ UNCHANGED statRows
    <3>1. BoundTypes'
      BY <2>1, <2>6 DEF BoundTypes
    <3>2. /\ starts'[f] = Never /\ \A g \in MonthFlushers : g # f => starts'[g] = starts[g]
      BY <2>6 DEF BoundTypes
    <3>3. ASSUME NEW k \in RowKeys PROVE liveStart <= buffered'[k].first
      <4>1. buffered'[k].first = buffered[k].first \/ buffered'[k].first = batch[f][k].first
        BY <2>4, <2>6, FirstOf
      <4>2. starts[f] <= batch[f][k].first /\ liveStart <= starts[f] /\ liveStart <= buffered[k].first
        BY DEF Below
      <4> QED BY <4>1, <4>2
    <3>4. Below'
      BY <2>1, <2>2, <2>3, <3>2, <3>3 DEF Below
    <3>5. \A g \in MonthFlushers : flusher[g] = "bound" =>
            flusher'[g] = "bound" /\ starts'[g] = starts[g]
      BY <2>1, <2>6, <3>2 DEF DataInv, MonthShapes
    <3>6. Written'
      BY <2>1, <2>6, <3>5 DEF Written
    <3> QED BY <3>1, <3>4, <3>6 DEF BoundInv
  <2> QED BY <1>3, <2>5, <2>6 DEF StoreBatch
<1>4. ASSUME NEW f \in MonthFlushers, PersistStart(f) PROVE BoundInv'
  <2>1. /\ SetLiveTrackStart(starts[f]) /\ flusher' = [flusher EXCEPT ![f] = "idle"]
        /\ starts' = [starts EXCEPT ![f] = Never]
        /\ UNCHANGED <<buffered, batch, liveStart, eager, statRows>>
        /\ starts[f] \in 0..Never /\ flusher[f] = "bound"
    BY <1>4 DEF PersistStart, BoundTypes
  <2>2. /\ starts'[f] = Never /\ \A g \in MonthFlushers : g # f => starts'[g] = starts[g]
        /\ \A g \in MonthFlushers : g # f => flusher'[g] = flusher[g]
        /\ batch[f] = NoRows
    BY <2>1 DEF BoundTypes, DataInv, MonthShapes
  <2>3. /\ state' \in [start : 0..Never, changes : Nat] /\ missed' \in BOOLEAN
        /\ ~missed' => ~missed /\ state'.start <= starts[f] /\ state'.start <= state.start
    BY <2>1, BoundWritten
  <2>4. BoundTypes'
    BY <2>1, <2>3 DEF BoundTypes
  <2>5. \A k \in RowKeys : NoRows[k].first = Never
    BY Blank
  <2>6. Below'
    BY <2>1, <2>2, <2>5 DEF Below
  <2>7. ASSUME ~missed', NEW k \in RowKeys
        PROVE  \/ state'.start <= statRows[k].first
               \/ \E g \in MonthFlushers : flusher'[g] = "bound" /\ starts'[g] <= statRows[k].first
    <3>1. state'.start \in Nat
      BY <2>3
    <3>2. \/ state.start <= statRows[k].first
          \/ \E g \in MonthFlushers : flusher[g] = "bound" /\ starts[g] <= statRows[k].first
      BY <2>3, <2>7 DEF Written
    <3>3. CASE state.start <= statRows[k].first
      BY <2>3, <2>7, <3>1, <3>3
    <3>4. CASE starts[f] <= statRows[k].first
      BY <2>3, <2>7, <3>1, <3>4
    <3>5. ASSUME NEW g \in MonthFlushers, g # f, flusher[g] = "bound", starts[g] <= statRows[k].first
          PROVE  flusher'[g] = "bound" /\ starts'[g] <= statRows[k].first
      BY <2>2, <3>5
    <3> QED BY <3>2, <3>3, <3>4, <3>5
  <2>8. Written'
    BY <2>1, <2>7 DEF Written
  <2> QED BY <2>4, <2>6, <2>8 DEF BoundInv
<1>5. CASE EagerStart
  <2>1. /\ eager' = [at |-> "done", ts |-> Never] /\ SetLiveTrackStart(eager.ts)
        /\ UNCHANGED <<buffered, batch, starts, flusher, liveStart, statRows>>
        /\ eager.ts \in 0..Never
    BY <1>5 DEF EagerStart, BoundTypes
  <2>2. /\ state' \in [start : 0..Never, changes : Nat] /\ missed' \in BOOLEAN
        /\ ~missed' => ~missed /\ state'.start <= state.start
    BY <2>1, BoundWritten
  <2>3. BoundTypes'
    BY <2>1, <2>2 DEF BoundTypes
  <2>4. Below'
    BY <2>1 DEF Below
  <2>5. ASSUME ~missed', NEW k \in RowKeys, state.start <= statRows[k].first
        PROVE  state'.start <= statRows[k].first
    <3>1. state'.start \in Nat /\ state'.start <= state.start
      BY <2>2, <2>5
    <3> QED BY <2>5, <3>1
  <2>6. Written'
    BY <2>1, <2>2, <2>5 DEF Written
  <2> QED BY <2>3, <2>4, <2>6 DEF BoundInv
<1>6. CASE MonthRestart
  <2>1. /\ missed' = (missed \/ eager.at = "due" \/ \E f \in MonthFlushers : flusher[f] = "bound")
        /\ buffered' = NoRows /\ batch' = [f \in MonthFlushers |-> NoRows]
        /\ starts' = [f \in MonthFlushers |-> Never]
        /\ liveStart' = Never /\ eager' = [at |-> "none", ts |-> Never]
        /\ UNCHANGED <<statRows, state>>
    BY <1>6 DEF MonthRestart
  <2>2. BoundTypes'
    <3>1. missed' \in BOOLEAN
      BY <2>1, Zenon DEF BoundTypes
    <3> QED BY <2>1, <3>1 DEF BoundTypes
  <2>3. \A k \in RowKeys : NoRows[k].first = Never
    BY Blank
  <2>4. Below'
    BY <2>1, <2>3 DEF Below
  <2>5. ~missed' => ~missed /\ \A f \in MonthFlushers : flusher[f] # "bound"
    BY <2>1
  <2>6. Written'
    BY <2>1, <2>5 DEF Written
  <2> QED BY <2>2, <2>4, <2>6 DEF BoundInv
<1>7. ASSUME UNCHANGED <<buffered, batch, starts, flusher, liveStart, eager, statRows, state, missed>>
      PROVE  BoundInv'
  BY <1>7 DEF BoundInv, BoundTypes, Below, Written
<1>8. ASSUME NEW m \in Calendars, MonthReport(m) PROVE BoundInv'
  BY <1>7, <1>8 DEF MonthReport, dataVars
<1>9. CASE GetSummary
  BY <1>7, <1>9 DEF GetSummary, dataVars
<1>10. CASE GetMergedMonth
  BY <1>7, <1>10 DEF GetMergedMonth, dataVars
<1>11. CASE PutSummary
  BY <1>7, <1>11 DEF PutSummary, dataVars
<1>12. CASE MonthEnds
  BY <1>7, <1>12 DEF MonthEnds, dataVars
<1>13. CASE UNCHANGED monthVars
  BY <1>7, <1>13 DEF monthVars
<1> QED BY <1>1, <1>2, <1>3, <1>4, <1>5, <1>6, <1>8, <1>9, <1>10, <1>11, <1>12, <1>13 DEF MonthNext

(***************************************************************************)
(* The reports: the rows one was read from, overlaid with the buffer, and  *)
(* the summary kept of it.                                                 *)
(***************************************************************************)
ReportGood(set, r, m) ==
  /\ AreRows(r) /\ SumsUp(r, m)
  /\ \A k \in RowKeys : /\ Good(set, r[k], k) /\ Named(set, r[k], k)
                        /\ r[k].msg <= Cardinality(OfRow(set, k))

ReadSoFar(db, r, m) ==
  \A k \in RowKeys : r[k].msg <= IF k[1] = m THEN db[k].msg ELSE 0

ReportInv ==
  /\ current \in Calendars
  /\ summary = [m \in Calendars |-> summary[m]]
  /\ \A m \in Calendars : summary[m] # NoSummary => ReportGood(added, summary[m].of, m)
  /\ \/ reader = NoReport
     \/ /\ reader.at = "state" /\ reader.month \in Calendars
        /\ reader = [at |-> "state", month |-> reader.month, changes |-> reader.changes]
     \/ /\ reader.at \in {"merge", "render"} /\ reader.month \in Calendars
        /\ reader = [at |-> reader.at, month |-> reader.month, past |-> reader.past, of |-> reader.of]
        /\ ReportGood(added, reader.of, reader.month)
        /\ reader.at = "merge" => ReadSoFar(statRows, reader.of, reader.month)

\* A report stays good as messages come.
LEMMA ReportOn ==
  ASSUME NEW more \in SUBSET Samples, NEW set \in SUBSET more, NEW r, NEW m, ReportGood(set, r, m)
  PROVE  ReportGood(more, r, m)
<1>1. ASSUME NEW k \in RowKeys
      PROVE  /\ Good(more, r[k], k) /\ Named(more, r[k], k)
             /\ r[k].msg <= Cardinality(OfRow(more, k))
  <2>1. /\ OfRow(set, k) \subseteq OfRow(more, k)
        /\ Good(more, r[k], k) /\ Named(more, r[k], k)
    BY GoodOn DEF ReportGood
  <2>2. IsFiniteSet(OfRow(more, k)) /\ Cardinality(OfRow(more, k)) \in Nat
    BY RowCounts
  <2>3. /\ Cardinality(OfRow(set, k)) \in Nat
        /\ Cardinality(OfRow(set, k)) <= Cardinality(OfRow(more, k))
    BY <2>1, <2>2, FS_Subset, FS_CardinalityType
  <2>4. r[k].msg \in Nat /\ r[k].msg <= Cardinality(OfRow(set, k))
    BY DEF ReportGood, Good, FreeRow
  <2> QED BY <2>1, <2>2, <2>3, <2>4
<1> QED BY <1>1 DEF ReportGood

\* The rows of one month make up its total as well.
LEMMA OfMonthRows ==
  ASSUME NEW r, AreRows(r), NEW m \in Calendars
  PROVE  /\ AreRows(OfMonth(m, r))
         /\ SumsUp(r, m) => SumsUp(OfMonth(m, r), m)
         /\ \A k \in RowKeys : OfMonth(m, r)[k] = IF k[1] = m THEN r[k] ELSE NoRow
<1> DEFINE q == OfMonth(m, r)
<1>1. \A k \in RowKeys : q[k] = IF k[1] = m THEN r[k] ELSE NoRow
  BY DEF OfMonth
<1>2. AreRows(q)
  <2>1. \A k \in RowKeys : NoRows[k] = NoRow /\ NoRows[k] \in FreeRow
    BY BlankRows DEF AreRows
  <2>2. \A k \in RowKeys : q[k] \in FreeRow
    BY <1>1, <2>1 DEF AreRows
  <2> QED BY <2>2 DEF AreRows, OfMonth
<1>3. \A w \in Writers \cup {Meta} : <<m, w>> \in RowKeys
  BY DEF RowKeys
<1>4. \A w \in Writers \cup {Meta} : q[<<m, w>>] = r[<<m, w>>]
  BY <1>1, <1>3
<1>5. [w \in Writers |-> q[<<m, w>>].msg] = [w \in Writers |-> r[<<m, w>>].msg]
  BY <1>4
<1>6. q[<<m, Meta>>].msg = r[<<m, Meta>>].msg
  BY <1>4
<1> HIDE DEF q
<1>7. SumsUp(r, m) => SumsUp(q, m)
  BY <1>5, <1>6, Zenon DEF SumsUp
<1> QED BY <1>1, <1>2, <1>7 DEF q

LEMMA RowsRead ==
  ASSUME DataInv, NEW m \in Calendars
  PROVE  /\ ReportGood(added, OfMonth(m, statRows), m)
         /\ ReadSoFar(statRows, OfMonth(m, statRows), m)
<1> USE DEF DataInv
<1> DEFINE q == OfMonth(m, statRows)
<1>1. /\ AreRows(q) /\ SumsUp(q, m)
      /\ \A k \in RowKeys : q[k] = IF k[1] = m THEN statRows[k] ELSE NoRow
  BY OfMonthRows DEF MonthShapes, Totals
<1> HIDE DEF q
<1>2. ASSUME NEW k \in RowKeys
      PROVE  /\ Good(added, q[k], k) /\ Named(added, q[k], k)
             /\ q[k].msg <= Cardinality(OfRow(added, k))
             /\ q[k].msg <= IF k[1] = m THEN statRows[k].msg ELSE 0
  <2>1. /\ Good(added, statRows[k], k) /\ Named(added, statRows[k], k)
        /\ Good(added, NoRow, k) /\ Named(added, NoRow, k) /\ NoRow.msg = 0
    BY Blank DEF RowsGood
  <2>2. statRows[k].msg + died[k].msg + buffered[k].msg + HeldOf(k) = Cardinality(OfRow(added, k))
    BY DEF CountedOnce
  <2>3. statRows[k].msg \in Nat /\ died[k].msg \in Nat /\ buffered[k].msg \in Nat /\ HeldOf(k) \in Nat
    BY HeldTypes
  <2>4. statRows[k].msg <= Cardinality(OfRow(added, k)) /\ 0 <= Cardinality(OfRow(added, k))
    BY <2>2, <2>3
  <2>5. q[k] = IF k[1] = m THEN statRows[k] ELSE NoRow
    BY <1>1
  <2> HIDE DEF NoRow
  <2>6. CASE k[1] = m
    BY <2>1, <2>3, <2>4, <2>5, <2>6
  <2>7. CASE k[1] # m
    BY <2>1, <2>4, <2>5, <2>7
  <2> QED BY <2>6, <2>7
<1> QED BY <1>1, <1>2 DEF ReportGood, ReadSoFar, q

LEMMA BufferLaidOver ==
  ASSUME DataInv, NEW m \in Calendars, NEW r, ReportGood(added, r, m), ReadSoFar(statRows, r, m)
  PROVE  ReportGood(added, Merge(r, OfMonth(m, buffered)), m)
<1> USE DEF DataInv
<1> DEFINE b == OfMonth(m, buffered)
           q == Merge(r, b)
<1>1. /\ AreRows(b) /\ SumsUp(b, m)
      /\ \A k \in RowKeys : b[k] = IF k[1] = m THEN buffered[k] ELSE NoRow
  BY OfMonthRows DEF MonthShapes, Totals
<1> HIDE DEF b
<1>2. AreRows(r) /\ SumsUp(r, m)
  BY DEF ReportGood
<1>3. AreRows(q) /\ \A k \in RowKeys : q[k] = MergeRow(r[k], b[k])
  BY <1>1, <1>2, MergeRows
<1>4. SumsUp(q, m)
  BY <1>1, <1>2, SumsMerge
<1> HIDE DEF q
<1>5. ASSUME NEW k \in RowKeys
      PROVE  /\ Good(added, q[k], k) /\ Named(added, q[k], k)
             /\ q[k].msg <= Cardinality(OfRow(added, k))
  <2> DEFINE o == MergeRow(r[k], b[k])
  <2>1. /\ Good(added, buffered[k], k) /\ Named(added, buffered[k], k)
        /\ Good(added, NoRow, k) /\ Named(added, NoRow, k) /\ NoRow.msg = 0
    BY Blank DEF RowsGood
  <2>2. Good(added, r[k], k) /\ Named(added, r[k], k)
    BY DEF ReportGood
  <2>3. b[k] = IF k[1] = m THEN buffered[k] ELSE NoRow
    BY <1>1
  <2>4. Good(added, b[k], k) /\ Named(added, b[k], k)
    BY <2>1, <2>3
  <2>5. o.msg = r[k].msg + b[k].msg
    BY DEF MergeRow
  <2>6. Good(added, o, k) /\ Named(added, o, k)
    BY <2>2, <2>4, Merged, Zenon
  <2>7. q[k] = o
    BY <1>3
  <2> HIDE DEF o, NoRow
  <2>8. statRows[k].msg + died[k].msg + buffered[k].msg + HeldOf(k) = Cardinality(OfRow(added, k))
    BY DEF CountedOnce
  <2>9. statRows[k].msg \in Nat /\ died[k].msg \in Nat /\ buffered[k].msg \in Nat /\ HeldOf(k) \in Nat
    BY HeldTypes
  <2>10. r[k].msg \in Nat
    BY <2>2 DEF Good, FreeRow
  <2>11. r[k].msg <= IF k[1] = m THEN statRows[k].msg ELSE 0
    BY DEF ReadSoFar
  <2>12. o.msg <= Cardinality(OfRow(added, k))
    <3>1. CASE k[1] = m
      BY <2>3, <2>5, <2>8, <2>9, <2>10, <2>11, <3>1
    <3>2. CASE k[1] # m
      BY <2>1, <2>3, <2>5, <2>8, <2>9, <2>10, <2>11, <3>2
    <3> QED BY <3>1, <3>2
  <2> QED BY <2>6, <2>7, <2>12
<1> QED BY <1>3, <1>4, <1>5 DEF ReportGood, q, b

\* Rows in the database and messages only become more.
LEMMA MonthGrows ==
  ASSUME DataInv, [MonthNext]_monthVars
  PROVE  /\ added' \subseteq Samples /\ added \subseteq added'
         /\ \A k \in RowKeys : /\ statRows[k].msg \in Nat /\ statRows'[k].msg \in Nat
                               /\ statRows[k].msg <= statRows'[k].msg
<1>1. added' \subseteq Samples /\ \A k \in RowKeys : statRows'[k] \in FreeRow
  BY DataStep DEF DataInv, MonthShapes, AreRows
<1>2. added \subseteq added'
  BY DEF MonthNext, AddSample, TakePending, StoreBatch, PersistStart, MonthReport, EagerStart, GetSummary,
         GetMergedMonth, PutSummary, MonthEnds, MonthRestart, monthVars, dataVars
<1>3. statRows' = statRows \/ \E f \in MonthFlushers : statRows' = Merge(statRows, batch[f])
  BY DEF MonthNext, AddSample, TakePending, StoreBatch, PersistStart, MonthReport, EagerStart, GetSummary,
         GetMergedMonth, PutSummary, MonthEnds, MonthRestart, monthVars, dataVars
<1>4. ASSUME NEW k \in RowKeys, NEW f \in MonthFlushers, statRows' = Merge(statRows, batch[f])
      PROVE  statRows'[k].msg = statRows[k].msg + batch[f][k].msg
  <2>1. statRows'[k] = MergeRow(statRows[k], batch[f][k])
    BY <1>4 DEF Merge
  <2> QED BY <2>1 DEF MergeRow
<1>5. ASSUME NEW k \in RowKeys
      PROVE  /\ statRows[k].msg \in Nat /\ statRows'[k].msg \in Nat
             /\ statRows[k].msg <= statRows'[k].msg
  <2>1. statRows[k].msg \in Nat /\ \A f \in MonthFlushers : batch[f][k].msg \in Nat
    BY HeldTypes DEF DataInv
  <2>2. statRows'[k].msg \in Nat
    BY <1>1 DEF FreeRow
  <2> QED BY <1>3, <1>4, <2>1, <2>2
<1> QED BY <1>1, <1>2, <1>5

\* What was good of a report and of the summaries is good after a step that
\* leaves them.
LEMMA ReportsOn ==
  ASSUME DataInv, ReportInv, [MonthNext]_monthVars
  PROVE  /\ \A m \in Calendars : summary[m] # NoSummary => ReportGood(added', summary[m].of, m)
         /\ reader = NoReport \/ reader.at = "state" \/ ReportGood(added', reader.of, reader.month)
         /\ reader.at = "merge" => ReadSoFar(statRows', reader.of, reader.month)
<1>1. PICK more : more = added'
  OBVIOUS
<1>2. more \in SUBSET Samples /\ added \in SUBSET more
  BY <1>1, MonthGrows
<1>3. \A m \in Calendars : summary[m] # NoSummary => ReportGood(more, summary[m].of, m)
  BY <1>2, ReportOn DEF ReportInv
<1>4. reader = NoReport \/ reader.at = "state" \/ ReportGood(more, reader.of, reader.month)
  BY <1>2, ReportOn DEF ReportInv
<1>5. ASSUME reader.at = "merge", NEW k \in RowKeys
      PROVE  reader.of[k].msg <= IF k[1] = reader.month THEN statRows'[k].msg ELSE 0
  <2>1. /\ reader # NoReport /\ reader.at # "state"
        /\ ReportGood(added, reader.of, reader.month)
        /\ ReadSoFar(statRows, reader.of, reader.month)
    BY <1>5 DEF ReportInv, NoReport
  <2>2. reader.of[k].msg \in Nat
    BY <2>1 DEF ReportGood, Good, FreeRow
  <2>3. /\ statRows[k].msg \in Nat /\ statRows'[k].msg \in Nat
        /\ statRows[k].msg <= statRows'[k].msg
    BY MonthGrows
  <2>4. reader.of[k].msg <= IF k[1] = reader.month THEN statRows[k].msg ELSE 0
    BY <2>1 DEF ReadSoFar
  <2> QED BY <2>2, <2>3, <2>4
<1> QED BY <1>1, <1>3, <1>4, <1>5 DEF ReadSoFar

LEMMA ReportStep == DataInv /\ BoundInv /\ ReportInv /\ [MonthNext]_monthVars => ReportInv'
<1> SUFFICES ASSUME DataInv, ReportInv, [MonthNext]_monthVars PROVE ReportInv'
  OBVIOUS
<1>1. /\ \A m \in Calendars : summary[m] # NoSummary => ReportGood(added', summary[m].of, m)
      /\ reader = NoReport \/ reader.at = "state" \/ ReportGood(added', reader.of, reader.month)
      /\ reader.at = "merge" => ReadSoFar(statRows', reader.of, reader.month)
  BY ReportsOn
<1>2. ASSUME UNCHANGED <<summary, reader>>, current' \in Calendars PROVE ReportInv'
  BY <1>1, <1>2 DEF ReportInv, NoReport
<1>3. ASSUME NEW m \in Calendars, MonthReport(m) PROVE ReportInv'
  <2>1. UNCHANGED <<summary, current, added, statRows>>
    BY <1>3 DEF MonthReport, dataVars
  <2>2. CASE reader' = [at |-> "state", month |-> m, changes |-> state.changes]
    BY <2>1, <2>2 DEF ReportInv
  <2>3. CASE Reads(m, FALSE)
    BY <2>1, <2>3, RowsRead DEF Reads, ReportInv
  <2> QED BY <1>3, <2>2, <2>3 DEF MonthReport
<1>4. CASE GetSummary
  <2>1. /\ UNCHANGED <<summary, current, added, statRows>> /\ reader.at = "state"
        /\ reader' = NoReport \/ Reads(reader.month, TRUE)
    BY <1>4 DEF GetSummary, dataVars
  <2>2. CASE reader' = NoReport
    BY <2>1, <2>2 DEF ReportInv
  <2>3. CASE Reads(reader.month, TRUE)
    <3>1. reader.month \in Calendars
      BY <2>1 DEF ReportInv, NoReport
    <3> QED BY <2>1, <2>3, <3>1, RowsRead DEF Reads, ReportInv
  <2> QED BY <2>1, <2>2, <2>3
<1>5. CASE GetMergedMonth
  <2> DEFINE q == Merge(reader.of, OfMonth(reader.month, buffered))
  <2>1. /\ UNCHANGED <<summary, current, added, statRows>> /\ reader.at = "merge"
        /\ reader' = [reader EXCEPT !.at = "render", !.of = q]
    BY <1>5 DEF GetMergedMonth, dataVars
  <2>2. /\ reader.month \in Calendars
        /\ reader = [at |-> reader.at, month |-> reader.month, past |-> reader.past, of |-> reader.of]
        /\ ReportGood(added, reader.of, reader.month)
        /\ ReadSoFar(statRows, reader.of, reader.month)
    BY <2>1 DEF ReportInv, NoReport
  <2>3. ReportGood(added, q, reader.month)
    BY <2>2, BufferLaidOver
  <2> HIDE DEF q
  <2>4. reader' = [at |-> "render", month |-> reader.month, past |-> reader.past, of |-> q]
    BY <2>1, <2>2
  <2> QED BY <2>1, <2>2, <2>3, <2>4 DEF ReportInv
<1>6. CASE PutSummary
  <2>1. /\ UNCHANGED <<current, added, statRows>> /\ reader.at = "render" /\ reader' = NoReport
        /\ \/ summary' = [summary EXCEPT ![reader.month] = [built |-> state.changes, of |-> reader.of]]
           \/ summary' = summary
    BY <1>6 DEF PutSummary, dataVars
  <2>2. reader.month \in Calendars /\ ReportGood(added, reader.of, reader.month)
    BY <2>1 DEF ReportInv, NoReport
  <2>3. CASE summary' = [summary EXCEPT ![reader.month] = [built |-> state.changes, of |-> reader.of]]
    <3>1. /\ summary'[reader.month].of = reader.of
          /\ \A m \in Calendars : m # reader.month => summary'[m] = summary[m]
          /\ summary' = [m \in Calendars |-> summary'[m]]
      BY <2>2, <2>3 DEF ReportInv
    <3>2. \A m \in Calendars : summary'[m] # NoSummary => ReportGood(added, summary'[m].of, m)
      BY <2>2, <3>1 DEF ReportInv
    <3> QED BY <2>1, <3>1, <3>2 DEF ReportInv
  <2>4. CASE summary' = summary
    BY <2>1, <2>4 DEF ReportInv
  <2> QED BY <2>1, <2>3, <2>4
<1>7. CASE MonthEnds
  BY <1>2, <1>7 DEF MonthEnds
<1>8. CASE MonthRestart
  BY <1>1, <1>8 DEF MonthRestart, ReportInv
<1>9. ASSUME NEW s \in Samples, AddSample(s) PROVE ReportInv'
  BY <1>2, <1>9 DEF AddSample, ReportInv
<1>10. ASSUME NEW f \in MonthFlushers, TakePending(f) \/ StoreBatch(f) \/ PersistStart(f) PROVE ReportInv'
  BY <1>2, <1>10 DEF TakePending, StoreBatch, PersistStart, ReportInv
<1>11. CASE EagerStart
  BY <1>2, <1>11 DEF EagerStart, ReportInv
<1>12. CASE UNCHANGED monthVars
  BY <1>2, <1>12 DEF monthVars, ReportInv
<1> QED BY <1>3, <1>4, <1>5, <1>6, <1>7, <1>8, <1>9, <1>10, <1>11, <1>12 DEF MonthNext

MonthInv == DataInv /\ BoundInv /\ ReportInv

LEMMA MonthStarts == MonthInit => MonthInv
<1> SUFFICES ASSUME MonthInit PROVE MonthInv
  OBVIOUS
<1>1. DataInv
  BY DataStarts
<1>2. BoundInv
  <2>1. \A k \in RowKeys : NoRows[k].first = Never
    BY Blank
  <2>2. BoundTypes
    <3>1. Never \in 0..Never
      BY NeverLast
    <3>2. /\ starts = [f \in MonthFlushers |-> Never] /\ liveStart = Never
          /\ eager = [at |-> "none", ts |-> Never] /\ state = [start |-> Never, changes |-> 0]
          /\ missed = FALSE
      BY DEF MonthInit
    <3>3. missed \in BOOLEAN
      BY <3>2, Zenon
    <3>4. state \in [start : 0..Never, changes : Nat]
      BY <3>1, <3>2
    <3> QED BY <3>1, <3>2, <3>3, <3>4 DEF BoundTypes
  <2>3. Below /\ Written
    BY <2>1, NeverLast DEF MonthInit, Below, Written
  <2> QED BY <2>2, <2>3 DEF BoundInv
<1>3. ReportInv
  <2>1. Min(Calendars) \in Calendars
    <3>1. IsFiniteSet(Calendars) /\ Calendars # {} /\ Calendars \in SUBSET Nat
      BY MonthAssumption
    <3>2. PICK m \in Calendars : \A x \in Calendars : m <= x
      BY <3>1, Extremes
    <3> QED BY <3>2 DEF Min
  <2> QED BY <2>1 DEF MonthInit, ReportInv
<1> QED BY <1>1, <1>2, <1>3 DEF MonthInv

\* The inductive invariant of the monthly statistics.
THEOREM MonthInvCorrect == MonthSpec => []MonthInv
<1>1. MonthInv /\ [MonthNext]_monthVars => MonthInv'
  BY DataStep, BoundStep, ReportStep DEF MonthInv
<1> QED BY <1>1, MonthStarts, PTL DEF MonthSpec

\* A summand is no more than the sum.
LEMMA HeldBy ==
  ASSUME MonthShapes, NEW k \in RowKeys, NEW f \in MonthFlushers
  PROVE  batch[f][k].msg <= HeldOf(k)
<1> DEFINE a == [g \in MonthFlushers |-> batch[g][k].msg]
           b == [g \in MonthFlushers |-> IF g = f THEN 0 ELSE batch[g][k].msg]
           n == batch[f][k].msg
<1>1. /\ a[f] = b[f] + n /\ \A g \in MonthFlushers : g # f => a[g] = b[g]
      /\ n \in Nat /\ \A g \in MonthFlushers : b[g] \in Nat
  BY HeldTypes
<1>2. SumFunctionOnSet(a, MonthFlushers) = SumFunctionOnSet(b, MonthFlushers) + n
      /\ SumFunctionOnSet(b, MonthFlushers) \in Nat
  <2>1. IsFiniteSet(MonthFlushers)
    BY MonthAssumption
  <2> HIDE DEF a, b, n
  <2> QED BY <1>1, <2>1, SumMore, SumType
<1> QED BY <1>1, <1>2 DEF HeldOf

\* The type of the monthly statistics.
LEMMA MonthTypesFollow ==
  ASSUME MonthInv PROVE MonthTypeOK
<1> USE DEF MonthInv, DataInv
<1>1. Cardinality(Samples) \in Nat
  <2>1. IsFiniteSet(Samples)
    BY MonthAssumption
  <2> QED BY <2>1, FS_CardinalityType
<1>2. ASSUME NEW r, AreRows(r), \A k \in RowKeys : r[k].msg <= Cardinality(OfRow(added, k))
      PROVE  r \in [RowKeys -> Row]
  <2>1. ASSUME NEW k \in RowKeys PROVE r[k] \in Row
    <3>1. r[k] \in FreeRow /\ r[k].msg <= Cardinality(OfRow(added, k))
      BY <1>2 DEF AreRows
    <3>2. /\ Cardinality(OfRow(added, k)) \in Nat
          /\ Cardinality(OfRow(added, k)) <= Cardinality(Samples)
      BY RowCounts DEF MonthShapes
    <3> QED BY <1>1, <3>1, <3>2 DEF FreeRow, Row
  <2> QED BY <1>2, <2>1 DEF AreRows
<1>3. ASSUME NEW k \in RowKeys
      PROVE  /\ statRows[k].msg <= Cardinality(OfRow(added, k))
             /\ died[k].msg <= Cardinality(OfRow(added, k))
             /\ buffered[k].msg <= Cardinality(OfRow(added, k))
             /\ \A f \in MonthFlushers : batch[f][k].msg <= Cardinality(OfRow(added, k))
  <2>1. statRows[k].msg + died[k].msg + buffered[k].msg + HeldOf(k) = Cardinality(OfRow(added, k))
    BY DEF CountedOnce
  <2>2. /\ statRows[k].msg \in Nat /\ died[k].msg \in Nat /\ buffered[k].msg \in Nat /\ HeldOf(k) \in Nat
        /\ \A f \in MonthFlushers : batch[f][k].msg \in Nat
    BY HeldTypes
  <2>3. \A f \in MonthFlushers : batch[f][k].msg <= HeldOf(k)
    BY HeldBy
  <2> QED BY <2>1, <2>2, <2>3
<1>4. buffered \in [RowKeys -> Row] /\ statRows \in [RowKeys -> Row] /\ died \in [RowKeys -> Row]
  BY <1>2, <1>3 DEF MonthShapes
<1>5. batch \in [MonthFlushers -> [RowKeys -> Row]]
  <2>1. \A f \in MonthFlushers : AreRows(batch[f])
    BY DEF MonthShapes, AreRows
  <2>2. \A f \in MonthFlushers : batch[f] \in [RowKeys -> Row]
    BY <1>2, <1>3, <2>1
  <2> QED BY <2>2 DEF MonthShapes
<1>6. \A m \in Calendars : summary[m] = NoSummary \/ summary[m].of \in [RowKeys -> Row]
  BY <1>2 DEF ReportInv, ReportGood
<1>7. reader = NoReport \/ (reader.at \in {"state", "merge", "render"} /\ reader.month \in Calendars)
  BY DEF ReportInv
<1>8. /\ starts \in [MonthFlushers -> 0..Never]
      /\ flusher \in [MonthFlushers -> {"idle", "store", "bound"}]
      /\ liveStart \in 0..Never
      /\ eager \in [at : {"none", "due", "done"}, ts : 0..Never]
      /\ state \in [start : 0..Never, changes : Nat]
      /\ current \in Calendars /\ added \subseteq Samples /\ missed \in BOOLEAN
  BY DEF BoundInv, BoundTypes, MonthShapes, ReportInv
<1> QED BY <1>4, <1>5, <1>6, <1>7, <1>8 DEF MonthTypeOK

\* What is good of rows makes their month add up.
LEMMA GoodAddsUp ==
  ASSUME NEW m \in Calendars, NEW r, SumsUp(r, m), Named(added, r[<<m, Meta>>], <<m, Meta>>),
         AreRows(r)
  PROVE  AddsUp(r, m)
<1>1. r[<<m, Meta>>].longest > 0 =>
        \E s \in added : /\ Sent[s].month = m /\ Sent[s].by = r[<<m, Meta>>].by
                         /\ Sent[s].runes = r[<<m, Meta>>].longest
  <2> SUFFICES ASSUME r[<<m, Meta>>].longest > 0
               PROVE  \E s \in added : /\ Sent[s].month = m /\ Sent[s].by = r[<<m, Meta>>].by
                                       /\ Sent[s].runes = r[<<m, Meta>>].longest
    OBVIOUS
  <2>1. <<m, Meta>> \in RowKeys
    BY DEF RowKeys
  <2>2. r[<<m, Meta>>].longest \in Nat
    BY <2>1 DEF AreRows, FreeRow
  <2>3. PICK s \in OfRow(added, <<m, Meta>>) :
          Sent[s].runes = r[<<m, Meta>>].longest /\ Sent[s].by = r[<<m, Meta>>].by
    BY <2>2 DEF Named
  <2> QED BY <2>3 DEF OfRow
<1> QED BY <1>1 DEF AddsUp, SumsUp

LEMMA MonthFollows ==
  ASSUME MonthInv PROVE MonthsAddUp
<1> USE DEF MonthInv, DataInv
<1>1. Unattributed(Everything) = Counted(added)
  BY EverythingCounted
<1>2. \A m \in Calendars : <<m, Meta>> \in RowKeys
  BY DEF RowKeys
<1>3. \A m \in Calendars : AddsUp(statRows, m)
  BY <1>2, GoodAddsUp DEF RowsGood, Totals, MonthShapes
<1>4. \A m \in Calendars : summary[m] # NoSummary => AddsUp(summary[m].of, m)
  BY <1>2, GoodAddsUp DEF ReportInv, ReportGood
<1>5. reader.at = "render" => reader.month \in Calendars /\ ReportGood(added, reader.of, reader.month)
  BY DEF ReportInv, NoReport
<1>6. reader.at = "render" => AddsUp(reader.of, reader.month)
  BY <1>2, <1>5, GoodAddsUp DEF ReportGood
<1>7. \A k \in RowKeys : Counted(added)[k].msg = Cardinality(OfRow(added, k))
  BY DEF Counted
<1>8. reader.at = "render" => \A k \in RowKeys : reader.of[k].msg <= Counted(added)[k].msg
  BY <1>5, <1>7 DEF ReportGood
<1>9. ~missed /\ (\A f \in MonthFlushers : flusher[f] # "bound") =>
        \A k \in RowKeys : state.start <= statRows[k].first
  BY DEF BoundInv, Written
<1> QED BY <1>1, <1>3, <1>4, <1>6, <1>8, <1>9 DEF MonthsAddUp

\* The months add up, whatever is put back, lost or read in between: the
\* messages of the buffer, of the flushes under way, of the database and of the
\* processes that died are those counted, in every row once.
THEOREM MonthsAddUpCorrect == MonthSpec => []MonthsAddUp
<1>1. MonthInv => MonthsAddUp
  BY MonthFollows
<1> QED BY <1>1, MonthInvCorrect, PTL

\* The types of the monthly statistics.
THEOREM MonthTypesCorrect == MonthSpec => []MonthTypeOK
<1>1. MonthInv => MonthTypeOK
  BY MonthTypesFollow
<1> QED BY <1>1, MonthInvCorrect, PTL
=============================================================================
