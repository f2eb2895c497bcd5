--------------------------- MODULE MCDirectCalls ---------------------------
(* Finite instances of DirectCalls for TLC. *)
EXTENDS DirectCalls, TLC

\* Users, call ids and sessions are interchangeable in every definition.
Symmetry == Permutations(Users) \cup Permutations(Calls) \cup Permutations(Sessions)

\* Bound of the three-user instance, which is about three users contending for
\* calls and locks: everybody stays friends with everybody and keeps the
\* conversations, one block at a time, and no late answers.  The pair instance
\* has the rest.
Contention ==
    LET all == {p \in Pairs : Cardinality(p) = 2} IN
    /\ friends = all /\ dms = all
    /\ Cardinality(blocks) <= 1
    /\ toldExpired = {}

============================================================================
