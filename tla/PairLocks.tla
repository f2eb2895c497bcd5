----------------------------- MODULE PairLocks -----------------------------
(***************************************************************************)
(* What the per-user advisory locks promise the procedures that take them: *)
(* a transaction about a pair of users runs alone among those that concern *)
(* either of the two.  AdvisoryLocks and DirectCalls implement it.         *)
(***************************************************************************)

CONSTANTS Users, Txns

VARIABLE inside     \* of a transaction: the users it has to itself

Init == inside = [t \in Txns |-> {}]

Enter(t, u, v) ==
    /\ inside[t] = {}
    /\ \A s \in Txns : inside[s] \cap {u, v} = {}
    /\ inside' = [inside EXCEPT ![t] = {u, v}]

Leave(t) ==
    /\ inside[t] # {}
    /\ inside' = [inside EXCEPT ![t] = {}]

Next == \E t \in Txns : Leave(t) \/ \E u, v \in Users : u # v /\ Enter(t, u, v)

Spec == Init /\ [][Next]_inside

============================================================================
