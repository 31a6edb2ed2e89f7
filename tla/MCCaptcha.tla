----------------------------- MODULE MCCaptcha -----------------------------
(* Model-checking instances of Captcha.                                    *)
EXTENDS Captcha, TLC

\* Challenges, join handlers and taps are interchangeable among themselves.
Symm == Permutations(Challenges) \cup Permutations(Joins) \cup Permutations(Taps)
=============================================================================
