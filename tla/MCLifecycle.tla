---------------------------- MODULE MCLifecycle ----------------------------
(* Model-checking instances of Lifecycle.                                  *)
EXTENDS Lifecycle, TLC

\* Alternate updates come from alternate days and all from one user.
OneKey == [u \in Updates |-> CHOOSE k \in Keys : TRUE]
TwoDays == [u \in Updates |-> IF u = 1 THEN "today" ELSE "tomorrow"]

\* A read leaves nothing behind: what follows its end is what follows
\* without it, and is not explored a second time.
ReadsNotEnded == \A r \in Readers : reading[r] # "done"
=============================================================================
