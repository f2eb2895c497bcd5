----------------------------- MODULE MCPresence -----------------------------
(* Instances of Presence for TLC. *)
EXTENDS Presence, FiniteSets, TLC

Symmetry == Permutations(Instances) \cup Permutations(Sockets)

Plain == manual = "auto" /\ \A i \in Instances : cache[i] = "auto"

\* The user has two connections at a time, on one instance or on two, and
\* opens them one after the other; one of them at most is open and unregistered,
\* or registered and closed.  Nobody has chosen a status where a socket was
\* registered too late, the script of a sweep fails or a shutdown drops the user.
TwoTabs ==
    /\ Cardinality(sockets \cup {f \in Fields : conn[f] # "none"}) <= 2
    /\ Cardinality({f \in Fields : conn[f] \in {"opening", "gone", "ghost"}}) <= 1
    /\ dropped \/ missed # {} \/ (\E f \in Fields : conn[f] = "ghost") => Plain
=============================================================================
