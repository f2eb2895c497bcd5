------------------------------ MODULE MCHistory ------------------------------
(* An instance of History for TLC. *)
EXTENDS History, TLC

Symmetry == Permutations(Requests)

At(steps) == {r \in Requests : req[r].pc \in steps}
Marking == At({"update", "insert", "retry"}) # {} \/ \E x \in DOMAIN read : read[x] > 0
Reacting == \/ At({"react", "tell"}) # {} \/ reactions # {}
            \/ \E x \in DOMAIN told : told[x] # 0 \/ untold[x] # 0
Reading == \/ At({"filter", "assemble", "sign", "answer"}) # {}
           \/ \E u \in Users : scroll[u] # NoScroll
Silent == \E x \in DOMAIN untold : untold[x] # 0
Erasing == hidden # {} \/ Recalled # {} \/ At({"redact"}) # {}
Pinning == \E m \in Known : msgs[m].pinned
Owning == Reacting \/ Pinning \/ files # {}

\* Cursors are rows of their own, which no other operation reads or writes: they
\* are left to move alone.  Two or three messages are for scrolling through one
\* scope with no other request, and for cursors; what belongs to messages (files,
\* reactions, pins) is read and written with one message, or two if nobody scrolls.
\* What was never announced concerns one reaction, whoever reads.
Focus ==
    /\ Marking => ~Reacting /\ ~Reading /\ ~Erasing /\ ~Pinning /\ files = {}
    /\ Owning /\ Reading => Len(msgs) <= 1
    /\ Owning => Len(msgs) <= 2
    /\ Silent => Len(msgs) = 1 /\ ~Reading /\ ~Pinning /\ files = {}
    /\ Len(msgs) > 1 /\ Reading =>
        \A r \in Requests : req[r] # Idle => req[r].scrolls
    /\ (Len(msgs) > 1 /\ Reading) \/ Len(msgs) = 3 =>
        Cardinality({msgs[m].scope : m \in Known}) = 1
=============================================================================
