-------------------------- MODULE MCAdvisoryLocks --------------------------
(* Finite instances of AdvisoryLocks for TLC. *)
EXTENDS AdvisoryLocks

\* Four users on two keys: the first shares with the last, the two in between
\* with each other.  Transactions on the pairs 1, 2 and 2, 4 can wait in a circle,
\* and one on the pair 1, 4 takes the same lock twice.
Crossed == [u \in Users |-> IF u \in {1, 4} THEN 1 ELSE 2]

============================================================================
