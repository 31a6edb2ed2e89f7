------------------------------- MODULE Ledger -------------------------------
(***************************************************************************)
(* What a write-behind counter promises: every unit added is kept, first   *)
(* in memory and later in the database.  Moving units to the database      *)
(* neither loses nor doubles any, and only the end of the process loses    *)
(* what had not been moved.                                                *)
(***************************************************************************)
EXTENDS Naturals

CONSTANT Keys

VARIABLES
  durable,    \* units in the database
  volatile    \* units in memory

vars == <<durable, volatile>>

Init ==
  /\ durable \in [Keys -> Nat]
  /\ volatile = [k \in Keys |-> 0]

Add(k) ==
  /\ volatile' = [volatile EXCEPT ![k] = @ + 1]
  /\ UNCHANGED durable

\* Any part of what is in memory becomes durable.
Commit ==
  /\ durable' \in [Keys -> Nat]
  /\ volatile' \in [Keys -> Nat]
  /\ \A k \in Keys : /\ durable'[k] >= durable[k]
                     /\ durable'[k] + volatile'[k] = durable[k] + volatile[k]

Lose ==
  /\ volatile' = [k \in Keys |-> 0]
  /\ UNCHANGED durable

Next == (\E k \in Keys : Add(k)) \/ Commit \/ Lose

Spec == Init /\ [][Next]_vars
=============================================================================
