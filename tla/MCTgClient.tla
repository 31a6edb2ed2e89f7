---------------------------- MODULE MCTgClient ----------------------------
(* Model-checking instances of TgClient.                                   *)
EXTENDS TgClient, TLC

\* Media uploads: mediaMaxTransportAttempts.
MediaBudget == [c \in Calls |-> 2]

\* Calls and chat ids are interchangeable.
Symm == Permutations(Calls) \cup Permutations(Chats)

\* One call alone is explored to the end of its ladders; two at once as long
\* as each has made few attempts.
MaxJointTries == 1

FewTogether ==
  (\E c \in Calls : pc[c] = "idle") \/ (\A c \in Calls : tries[c] <= MaxJointTries)
=============================================================================
