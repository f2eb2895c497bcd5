----------------------------- MODULE MCMessages -----------------------------
(* An instance of Messages for TLC. *)
EXTENDS Messages, TLC

\* Requests are interchangeable: a path names the request that made it up.
Symmetry == Permutations(Requests) \cup Permutations(Workers)

Started == {r \in Requests : req[r].pc # "idle"}
Active == {r \in Started : req[r].pc # "done"}
Expired == \E p \in Path : outbox[p].status = "processing" /\ ~outbox[p].leased
Stale == \E m \in Known : ~msgs[m].fresh

Written == {msgs[m].scope : m \in Known} \cup {req[r].scope : r \in Active}
Swept == \E p \in Path : outbox[p].status \notin {"none", "pending"}

\* Two requests at a time, one once the cleanup worker has taken up a job, and
\* two in all once something has failed, some time limit has passed or the
\* channel has been deleted.  Three of them, or two with a failure, write to one
\* channel or conversation.  A second failure is followed up where it leaves rows
\* without their files, until the cleanup worker takes up a job.  The time limit of
\* edits passes, which only keeps new ones out, where nothing has failed.
Contention ==
    /\ Cardinality(Active) <= IF Swept THEN 1 ELSE 2
    /\ faults > 0 \/ Expired \/ Stale \/ closed # {} => Cardinality(Started) <= 2
    /\ faults > 0 \/ Cardinality(Started) > 2 => Cardinality(Written \ {Null}) <= 1
    /\ faults > 1 => lost # {} /\ ~Swept /\ closed = {}
    /\ faults > 0 => ~Stale
=============================================================================
