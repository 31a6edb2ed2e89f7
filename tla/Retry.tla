------------------------------- MODULE Retry -------------------------------
(***************************************************************************)
(* The retry ladder of src/internal/shared/retry as pure operators: which  *)
(* failures of one Bot API call are worth another attempt.  A ladder is    *)
(* the counters Do keeps in its local variables; the delays between the    *)
(* attempts are left out, only their interruption by the caller's context  *)
(* is visible to a caller and is modelled there.                           *)
(***************************************************************************)
EXTENDS Naturals

CONSTANTS
  ServerBudget   \* Policy.MaxServerErrorAttempts

ASSUME ServerBudgetAssumption == ServerBudget \in Nat \ {0}

\* The kinds classify sorts errors into.
FailureKinds == {"refused", "throttled", "server", "transport"}

\* The counters before the first attempt.
FreshLadder == [server |-> 1, transport |-> 1, throttled |-> FALSE]

Ladders(transportBudget) ==
  [server : 1..ServerBudget, transport : 1..transportBudget, throttled : BOOLEAN]

\* Mutation: >= became >, one transport attempt too many.
RetriesOnceMore(l, kind, transportBudget) ==
  \/ kind = "throttled" /\ ~l.throttled
  \/ kind = "server" /\ l.server < ServerBudget
  \/ kind = "transport" /\ l.transport <= transportBudget

\* Do sleeps and tries again: a first 429, and a 5xx or a transport failure
\* while its own budget lasts.
Retries(l, kind, transportBudget) ==
  \/ kind = "throttled" /\ ~l.throttled
  \/ kind = "server" /\ l.server < ServerBudget
  \/ kind = "transport" /\ l.transport < transportBudget

\* Mutation: the flag of the first 429 is not kept.
AdvanceForgetful(l, kind) ==
  CASE kind = "throttled" -> l
    [] kind = "server" -> [l EXCEPT !.server = @ + 1]
    [] kind = "transport" -> [l EXCEPT !.transport = @ + 1]

\* The counters after a failure that is retried.
Advance(l, kind) ==
  CASE kind = "throttled" -> [l EXCEPT !.throttled = TRUE]
    [] kind = "server" -> [l EXCEPT !.server = @ + 1]
    [] kind = "transport" -> [l EXCEPT !.transport = @ + 1]

\* Attempts a ladder has seen, the one under way included.
Attempts(l) == l.server + l.transport - 1 + (IF l.throttled THEN 1 ELSE 0)
=============================================================================
