---------------------------- MODULE MCVoiceStates ----------------------------
(* An instance of VoiceStates for TLC. *)
EXTENDS VoiceStates, TLC

CONSTANTS u, m, k1, k2, k3

\* A user with two sockets and a moderator with one.
MCOwner == [k \in {k1, k2, k3} |-> IF k = k3 THEN m ELSE u]

Symmetry == Permutations(Requests) \cup Permutations({k1, k2}) \cup Permutations(Servers)

\* Two handlers at a time, all of them about the states of u.
Contention ==
    /\ \A r \in Requests : req[r].user # m
    /\ Cardinality({r \in Requests : req[r].pc \notin {"idle", "done"}}) <= 2
=============================================================================
