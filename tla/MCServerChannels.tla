-------------------------- MODULE MCServerChannels --------------------------
(* An instance of ServerChannels for TLC. *)
EXTENDS ServerChannels, TLC

CONSTANTS o, a, c1, c2, c3, x1

MCBits == {Administrator, ManageChannels}
Neutral == [allow |-> {}, deny |-> {}]

\* In one channel a role is denied what the default role may do.
MCOver == [c \in {c1, c2, c3} |-> [t \in {x1, Everyone, o, a} |->
            IF c = c1 /\ t = x1 THEN [allow |-> {}, deny |-> {ManageChannels}] ELSE Neutral]]

Symmetry == Permutations(Requests)
=============================================================================
