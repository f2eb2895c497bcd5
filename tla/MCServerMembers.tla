--------------------------- MODULE MCServerMembers ---------------------------
(* An instance of ServerMembers for TLC. *)
EXTENDS ServerMembers, TLC

Symmetry ==
    Permutations(Requests) \cup Permutations(Users \ {Owner}) \cup Permutations(Invs)

Started == {r \in Requests : req[r].pc # "idle"}

\* Two handlers under way at a time; four in all where somebody is banned, the
\* server is deleted or the lookup of an invitation fails, which it does once and
\* where nobody has made a link.
Contention ==
    /\ Cardinality({r \in Started : req[r].pc # "done"}) <= 2
    /\ bans # {} \/ ~exists \/ blind # {} => Cardinality(Started) <= 4
    /\ blind # {} => Cardinality(blind) = 1 /\ \A c \in Codes : links[c] = NoLink
=============================================================================
