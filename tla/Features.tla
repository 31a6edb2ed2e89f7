------------------------------ MODULE Features ------------------------------
(***************************************************************************)
(* The features that share nothing but the database file and the Telegram  *)
(* client, side by side: in a behaviour one of them runs, and the others   *)
(* stay as they started.                                                   *)
(***************************************************************************)
EXTENDS Repost, Referral, Reputation, Summaries, Birthdays, Rekey,
        Guess, Hangman, Quiz, Battle, Dice, MonthStats, Gates

VARIABLE feature

vars == <<feature, repostVars, referralVars, reputationVars, summaryVars, birthdayVars, rekeyVars,
          guessVars, hangmanVars, quizVars, battleVars, diceVars, monthVars,
          admissionVars, cooldownVars, adminVars>>

Init ==
  /\ feature \in {"repost", "referral", "reputation", "summaries", "birthdays", "rekey",
                  "guess", "hangman", "quiz", "battle", "dice", "monthstats", "admission",
                  "cooldown", "admins"}
  /\ RepostInit /\ ReferralInit /\ ReputationInit /\ SummariesInit /\ BirthdaysInit /\ RekeyInit
  /\ GuessInit /\ HangmanInit /\ QuizInit /\ BattleInit /\ DiceInit
  /\ MonthInit /\ AdmissionInit /\ CooldownInit /\ AdminCacheInit

Next ==
  /\ UNCHANGED feature
  /\ feature # "repost" => UNCHANGED repostVars
  /\ feature # "referral" => UNCHANGED referralVars
  /\ feature # "reputation" => UNCHANGED reputationVars
  /\ feature # "summaries" => UNCHANGED summaryVars
  /\ feature # "birthdays" => UNCHANGED birthdayVars
  /\ feature # "rekey" => UNCHANGED rekeyVars
  /\ feature # "guess" => UNCHANGED guessVars
  /\ feature # "hangman" => UNCHANGED hangmanVars
  /\ feature # "quiz" => UNCHANGED quizVars
  /\ feature # "battle" => UNCHANGED battleVars
  /\ feature # "dice" => UNCHANGED diceVars
  /\ feature # "monthstats" => UNCHANGED monthVars
  /\ feature # "admission" => UNCHANGED admissionVars
  /\ feature # "cooldown" => UNCHANGED cooldownVars
  /\ feature # "admins" => UNCHANGED adminVars
  /\ feature = "repost" => RepostNext
  /\ feature = "referral" => ReferralNext
  /\ feature = "reputation" => ReputationNext
  /\ feature = "summaries" => SummariesNext
  /\ feature = "birthdays" => BirthdaysNext
  /\ feature = "rekey" => RekeyNext
  /\ feature = "guess" => GuessNext
  /\ feature = "hangman" => HangmanNext
  /\ feature = "quiz" => QuizNext
  /\ feature = "battle" => BattleNext
  /\ feature = "dice" => DiceNext
  /\ feature = "monthstats" => MonthNext
  /\ feature = "admission" => AdmissionNext
  /\ feature = "cooldown" => CooldownNext
  /\ feature = "admins" => AdminCacheNext

Spec == Init /\ [][Next]_vars

-----------------------------------------------------------------------------
\* The type of the feature that runs; the others are as they started.  That of
\* Summaries ties the slots to the commands that hold them, and that of Referral
\* the timed-out dialogues to the table.
FeaturesTypeOK ==
  /\ feature = "repost" => RepostTypeOK
  /\ feature = "referral" => ReferralTypeOK
  /\ feature = "reputation" => ReputationTypeOK
  /\ feature = "summaries" => SummariesTypeOK
  /\ feature = "birthdays" => BirthdaysTypeOK
  /\ feature = "rekey" => RekeyTypeOK
  /\ feature = "guess" => GuessTypeOK
  /\ feature = "hangman" => HangmanTypeOK
  /\ feature = "quiz" => QuizTypeOK
  /\ feature = "battle" => BattleTypeOK
  /\ feature = "dice" => DiceTypeOK
  /\ feature = "monthstats" => MonthTypeOK
  /\ feature = "admission" => AdmissionTypeOK
  /\ feature = "cooldown" => CooldownTypeOK
  /\ feature = "admins" => AdminCacheTypeOK

\* Of the games that keep state: a number named and a word announced end their
\* round, a board can be played on, a battle is decided by the votes of its
\* window, and the best roll since two commands last overlapped in their writes
\* is kept.
GamesFair == FirstGuessWins /\ BoardPlayable /\ BattleFair /\ BestKept

\* Every message is counted in its month once, in the buffer, in the database
\* and in the reports made of both.
MonthsCounted == feature = "monthstats" => MonthsAddUp
=============================================================================
