------------------------ MODULE CallMechanisms_proofs ------------------------
(***************************************************************************)
(* Proofs about the two mechanisms that direct calls rest on: CallCleanup,  *)
(* for any number of calls, jobs and workers, any limit on the attempts and *)
(* any number of faults; and AdvisoryLocks, for any users, keys and         *)
(* transactions.                                                           *)
(***************************************************************************)
EXTENDS CallCleanup, AdvisoryLocks, WellFoundedInduction, TLAPS

-------------------------------------------------------------------------------
(* What recording an outcome does to the row of its job.                      *)

\* The outcome a worker has in hand is about a job.
LEMMA InHand ==
  ASSUME TypeOK, NEW w \in Workers, doing[w].job # NoJob
  PROVE  /\ doing[w] \in Outcome
         /\ doing[w].job \in Jobs /\ doing[w].attempts \in Nat /\ doing[w].deleted \in BOOLEAN
<1>1. doing[w] \in Outcome \cup {Idle}
  BY DEF TypeOK
<1>2. doing[w] # Idle
  BY DEF Idle
<1> QED
  BY <1>1, <1>2 DEF Outcome

LEMMA RecordedRow ==
  ASSUME TypeOK, NEW w \in Workers, Record(w)
  PROVE  LET d == doing[w] IN
         /\ d.job \in Jobs /\ d.attempts \in Nat /\ d.deleted \in BOOLEAN
         /\ jobs' \in [Jobs -> Job]
         /\ \A j \in Jobs : j # d.job => jobs'[j] = jobs[j]
         /\ jobs'[d.job].call = jobs[d.job].call
         /\ jobs'[d.job].attempts = d.attempts + 1
         /\ jobs'[d.job].status = IF d.deleted THEN "completed"
                                  ELSE IF d.attempts + 1 >= MaxAttempts THEN "failed"
                                  ELSE "pending"
<1> DEFINE d == doing[w]
           row == Updated(jobs[d.job], d.deleted, d.attempts + 1, MaxAttempts)
<1>1. d.job # NoJob /\ jobs' = [jobs EXCEPT ![d.job] = row]
  BY DEF Record, Recording
<1>2. d \in Outcome /\ d.job \in Jobs /\ d.attempts \in Nat /\ d.deleted \in BOOLEAN
  BY <1>1, InHand
<1>3. jobs \in [Jobs -> Job] /\ jobs[d.job] \in Job
  BY <1>2 DEF TypeOK
<1>4. d.attempts + 1 \in Nat /\ MaxAttempts \in Nat
  BY <1>2, CleanupAssumption
<1> HIDE DEF d
<1>5. /\ row \in Job
      /\ row.call = jobs[d.job].call
      /\ row.attempts = d.attempts + 1
      /\ row.status = IF d.deleted THEN "completed"
                      ELSE IF d.attempts + 1 >= MaxAttempts THEN "failed" ELSE "pending"
  <2>1. row.call = jobs[d.job].call /\ row.attempts = d.attempts + 1
    BY DEF Updated
  <2>2. row.status = IF d.deleted THEN "completed"
                     ELSE IF d.attempts + 1 >= MaxAttempts THEN "failed" ELSE "pending"
    BY DEF Updated
  <2>3. row \in Job
    BY <1>2, <1>3, <1>4 DEF Updated, Job, JobStatus
  <2> QED
    BY <2>1, <2>2, <2>3
<1> HIDE DEF row
<1>6. /\ jobs' \in [Jobs -> Job]
      /\ jobs'[d.job] = row
      /\ \A j \in Jobs : j # d.job => jobs'[j] = jobs[j]
  BY <1>1, <1>2, <1>3, <1>5
<1> QED
  BY <1>2, <1>5, <1>6 DEF d

-------------------------------------------------------------------------------
(* TypeOK, which is inductive by itself.                                      *)

LEMMA InitTypeOK == Init => TypeOK
  BY CleanupAssumption DEF Init, TypeOK, NoRow, Job, JobStatus

LEMMA NextTypeOK == TypeOK /\ [Next]_vars => TypeOK'
<1> SUFFICES ASSUME TypeOK, [Next]_vars PROVE TypeOK'
  OBVIOUS
<1> USE DEF livekit, working
<1>1. ASSUME NEW c \in Calls, NEW j \in Jobs, Finish(c, j)
      PROVE  TypeOK'
  <2>1. NewJob(c) \in Job /\ NewJob(c).call = c
    BY DEF NewJob, Job, JobStatus
  <2> QED
    BY <1>1, <2>1 DEF TypeOK, Finish
<1>2. ASSUME NEW c \in Calls, Drop(c)
      PROVE  TypeOK'
  BY <1>2 DEF TypeOK, Drop
<1>3. ASSUME NEW c \in Calls, NEW p \in Parties, Ask(c, p) \/ Issue(c, p)
      PROVE  TypeOK'
  BY <1>3 DEF TypeOK, Ask, Issue
<1>4. ASSUME NEW c \in Calls, NEW p \in Parties,
             TokenExpires(c, p) \/ Join(c, p) \/ Leave(c, p)
      PROVE  TypeOK'
  BY <1>4 DEF TypeOK, TokenExpires, Join, Leave
<1>5. ASSUME NEW w \in Workers, Record(w)
      PROVE  TypeOK'
  <2>1. /\ jobs' \in [Jobs -> Job]
        /\ \A j \in Jobs : jobs'[j].call = jobs[j].call
        /\ \A j \in Jobs : j # doing[w].job => jobs'[j] = jobs[j]
    BY <1>5, RecordedRow
  <2>2. doing' \in [Workers -> Outcome \cup {Idle}]
    BY <1>5 DEF TypeOK, Record, Recording
  <2> QED
    BY <1>5, <2>1, <2>2 DEF TypeOK, Record, Recording
<1>6. ASSUME NEW w \in Workers, RecordLost(w) \/ Crash(w)
      PROVE  TypeOK'
  BY <1>6 DEF TypeOK, RecordLost, Crash
<1>7. ASSUME NEW w \in Workers, NEW S \in SUBSET Jobs, Poll(w, S)
      PROVE  TypeOK'
  <2>1. {[job |-> j, attempts |-> jobs[j].attempts] : j \in S} \in SUBSET Read
    BY DEF TypeOK, Job, Read
  <2> QED
    BY <1>7, <2>1 DEF TypeOK, Poll
<1>8. ASSUME NEW w \in Workers, NEW r \in batch[w], DeleteRoom(w, r) \/ DeleteFails(w, r)
      PROVE  TypeOK'
  <2>1. r \in Read /\ r.job \in Jobs
    BY DEF TypeOK, Read
  <2>2. \A ok \in BOOLEAN : [job |-> r.job, attempts |-> r.attempts, deleted |-> ok] \in Outcome
    BY <2>1 DEF Read, Outcome
  <2>3. \E ok \in BOOLEAN : Deleting(w, r, ok)
    BY <1>8 DEF DeleteRoom, DeleteFails
  <2>4. /\ batch' \in [Workers -> SUBSET Read]
        /\ doing' \in [Workers -> Outcome \cup {Idle}]
        /\ UNCHANGED <<phase, jobs, asking, tokens, faults>>
    BY <2>2, <2>3 DEF TypeOK, Deleting
  <2>5. /\ room' \in [Calls -> SUBSET Parties] /\ old' \in [Calls -> SUBSET Parties]
        /\ swept' \subseteq Jobs
    <3>1. CASE DeleteFails(w, r)
      BY <3>1 DEF TypeOK, DeleteFails
    <3>2. CASE DeleteRoom(w, r)
      <4> DEFINE c == jobs[r.job].call
                 holders == tokens[c] \cup {p \in Parties : <<c, p>> \in asking}
      <4>1. /\ room' = [room EXCEPT ![c] = {}] /\ old' = [old EXCEPT ![c] = holders]
            /\ swept' = swept \cup {r.job}
        BY <3>2 DEF DeleteRoom
      <4>2. c \in Calls => holders \in SUBSET Parties
        BY DEF TypeOK
      <4> HIDE DEF c, holders
      <4> QED
        BY <2>1, <4>1, <4>2 DEF TypeOK
    <3> QED
      BY <1>8, <3>1, <3>2
  <2> QED
    BY <2>4, <2>5 DEF TypeOK
<1>9. ASSUME NEW j \in Jobs, BackoffEnds(j)
      PROVE  TypeOK'
  BY <1>9 DEF TypeOK, BackoffEnds, Job
<1>10. ASSUME UNCHANGED vars
       PROVE  TypeOK'
  BY <1>10 DEF TypeOK, vars
<1> QED
  BY <1>1, <1>2, <1>3, <1>4, <1>5, <1>6, <1>7, <1>8, <1>9, <1>10 DEF Next

\* Every variable keeps its type, and a job that exists names its call.
THEOREM TypeCorrect == Spec => []TypeOK
  BY InitTypeOK, NextTypeOK, PTL DEF Spec

-------------------------------------------------------------------------------
(* The outcome of a job: what a worker has read may be out of date, but it is *)
(* about a job with attempts left, and no step gives attempts back.           *)

JobInv ==
    /\ ReadsHaveAttemptsLeft
    /\ FailedWhenExhausted
    /\ CompletedWasSwept
    /\ JobsOfFinishedCalls

\* A job, once it exists, exists, and keeps its call; a finished call stays so.
Kept ==
    /\ \A j \in Jobs : jobs[j].status # "none" =>
         jobs'[j].status # "none" /\ jobs'[j].call = jobs[j].call
    /\ \A c \in Calls : phase[c] # "active" => phase'[c] # "active"

LEMMA NextJobInv ==
  ASSUME TypeOK, JobInv, [Next]_vars
  PROVE  JobInv' /\ Kept
<1> USE DEF livekit, working, JobInv
<1>1. ASSUME NEW c \in Calls, NEW j \in Jobs, Finish(c, j)
      PROVE  JobInv' /\ Kept
  <2>1. /\ jobs' = [jobs EXCEPT ![j] = NewJob(c)] /\ jobs[j].status = "none"
        /\ phase' = [phase EXCEPT ![c] = IF @ = "gone" THEN "gone" ELSE "over"]
        /\ batch' = batch /\ doing' = doing /\ swept' = swept
    BY <1>1 DEF Finish
  <2>2. NewJob(c).call = c /\ NewJob(c).status = "pending" /\ NewJob(c).attempts = 0
    BY DEF NewJob
  <2>3. \A i \in Jobs : i # j => jobs'[i] = jobs[i]
    BY <2>1 DEF TypeOK
  <2>4. jobs'[j] = NewJob(c)
    BY <2>1 DEF TypeOK
  <2>5. phase'[c] # "active" /\ \A d \in Calls : phase[d] # "active" => phase'[d] # "active"
    BY <2>1 DEF TypeOK
  <2>6. Kept
    BY <2>1, <2>3, <2>4, <2>5 DEF Kept
  <2>7. ReadsHaveAttemptsLeft'
    BY <2>1, <2>2, <2>3, <2>4, InHand DEF ReadsHaveAttemptsLeft, TypeOK, Read
  <2>8. FailedWhenExhausted'
    BY <2>2, <2>3, <2>4, CleanupAssumption DEF FailedWhenExhausted
  <2>9. CompletedWasSwept' /\ JobsOfFinishedCalls'
    BY <2>1, <2>2, <2>3, <2>4, <2>5 DEF CompletedWasSwept, JobsOfFinishedCalls
  <2> QED
    BY <2>6, <2>7, <2>8, <2>9
<1>2. ASSUME NEW c \in Calls, Drop(c)
      PROVE  JobInv' /\ Kept
  BY <1>2 DEF Drop, Kept, TypeOK, ReadsHaveAttemptsLeft, FailedWhenExhausted,
              CompletedWasSwept, JobsOfFinishedCalls
<1>3. ASSUME NEW c \in Calls, NEW p \in Parties,
             \/ Ask(c, p) \/ Issue(c, p)
             \/ TokenExpires(c, p) \/ Join(c, p) \/ Leave(c, p)
      PROVE  JobInv' /\ Kept
  <2>1. UNCHANGED <<phase, jobs, batch, doing, swept>>
    BY <1>3 DEF Ask, Issue, TokenExpires, Join, Leave
  <2> QED
    BY <2>1 DEF Kept, ReadsHaveAttemptsLeft, FailedWhenExhausted,
                CompletedWasSwept, JobsOfFinishedCalls
<1>4. ASSUME NEW w \in Workers, Record(w)
      PROVE  JobInv' /\ Kept
  <2> DEFINE d == doing[w]
  <2>1. /\ d.job \in Jobs /\ d.attempts \in Nat /\ d.deleted \in BOOLEAN
        /\ \A j \in Jobs : j # d.job => jobs'[j] = jobs[j]
        /\ jobs'[d.job].call = jobs[d.job].call
        /\ jobs'[d.job].attempts = d.attempts + 1
        /\ jobs'[d.job].status = IF d.deleted THEN "completed"
                                 ELSE IF d.attempts + 1 >= MaxAttempts THEN "failed"
                                 ELSE "pending"
    BY <1>4, RecordedRow
  <2>2. /\ d.job # NoJob /\ doing' = [doing EXCEPT ![w] = Idle]
        /\ UNCHANGED <<phase, batch, swept>>
    BY <1>4 DEF Record, Recording
  <2>3. /\ d.attempts < MaxAttempts /\ jobs[d.job].status # "none"
        /\ d.deleted => d.job \in swept
    BY <2>2 DEF ReadsHaveAttemptsLeft
  <2>4. Kept
    BY <2>1, <2>2 DEF Kept
  <2>5. ReadsHaveAttemptsLeft'
    <3>1. \A v \in Workers : doing'[v].job # NoJob => doing'[v] = doing[v]
      BY <2>2 DEF TypeOK, Idle
    <3>2. \A v \in Workers : doing'[v].job # NoJob => doing'[v].job \in Jobs
      BY <3>1, InHand
    <3> QED
      BY <2>2, <2>4, <3>1, <3>2 DEF ReadsHaveAttemptsLeft, Kept, TypeOK, Read
  <2>6. FailedWhenExhausted'
    BY <2>1, <2>3, CleanupAssumption DEF FailedWhenExhausted
  <2>7. CompletedWasSwept'
    <3>1. jobs'[d.job].status = "completed" => d.deleted
      BY <2>1
    <3> QED
      BY <2>1, <2>2, <2>3, <3>1 DEF CompletedWasSwept
  <2>8. JobsOfFinishedCalls'
    <3>1. \A j \in Jobs : jobs'[j].status # "none" => jobs[j].status # "none"
      BY <2>1, <2>3
    <3> QED
      BY <2>2, <2>4, <3>1 DEF JobsOfFinishedCalls, Kept, TypeOK
  <2> QED
    BY <2>4, <2>5, <2>6, <2>7, <2>8
<1>5. ASSUME NEW w \in Workers, RecordLost(w) \/ Crash(w)
      PROVE  JobInv' /\ Kept
  <2>1. /\ \A v \in Workers : batch'[v] \subseteq batch[v]
        /\ \A v \in Workers : doing'[v].job # NoJob => doing'[v] = doing[v]
        /\ UNCHANGED <<phase, jobs, swept>>
    BY <1>5 DEF TypeOK, RecordLost, Crash, Idle
  <2> QED
    BY <2>1 DEF Kept, ReadsHaveAttemptsLeft, FailedWhenExhausted,
                CompletedWasSwept, JobsOfFinishedCalls
<1>6. ASSUME NEW w \in Workers, NEW S \in SUBSET Jobs, Poll(w, S)
      PROVE  JobInv' /\ Kept
  <2>1. /\ batch' = [batch EXCEPT ![w] = {[job |-> j, attempts |-> jobs[j].attempts] : j \in S}]
        /\ S \subseteq Due
        /\ UNCHANGED <<phase, jobs, doing, swept>>
    BY <1>6 DEF Poll
  <2>2. \A r \in batch'[w] : r.attempts < MaxAttempts /\ jobs[r.job].status # "none"
    BY <2>1 DEF TypeOK, Due, FailedWhenExhausted
  <2>3. \A v \in Workers : v # w => batch'[v] = batch[v]
    BY <2>1 DEF TypeOK
  <2> QED
    BY <2>1, <2>2, <2>3 DEF Kept, ReadsHaveAttemptsLeft, FailedWhenExhausted,
                            CompletedWasSwept, JobsOfFinishedCalls
<1>7. ASSUME NEW w \in Workers, NEW r \in batch[w], DeleteRoom(w, r) \/ DeleteFails(w, r)
      PROVE  JobInv' /\ Kept
  <2>1. PICK ok \in BOOLEAN : Deleting(w, r, ok) /\ (ok => r.job \in swept')
    BY <1>7 DEF DeleteRoom, DeleteFails
  <2>2. /\ batch' = [batch EXCEPT ![w] = batch[w] \ {r}]
        /\ doing' = [doing EXCEPT ![w] = [job |-> r.job, attempts |-> r.attempts, deleted |-> ok]]
        /\ UNCHANGED <<phase, jobs>>
    BY <2>1 DEF Deleting
  <2>3. swept \subseteq swept' /\ swept' \subseteq swept \cup {r.job}
    BY <1>7 DEF DeleteRoom, DeleteFails
  <2>4. r.attempts < MaxAttempts /\ jobs[r.job].status # "none" /\ r.job \in Jobs
    BY DEF ReadsHaveAttemptsLeft, TypeOK, Read
  <2>5. /\ doing'[w].job = r.job /\ doing'[w].attempts = r.attempts
        /\ doing'[w].deleted => ok
        /\ \A v \in Workers : v # w => doing'[v] = doing[v]
        /\ \A v \in Workers : batch'[v] \subseteq batch[v]
    BY <2>2 DEF TypeOK
  <2>6. ReadsHaveAttemptsLeft'
    BY <2>1, <2>2, <2>3, <2>4, <2>5 DEF ReadsHaveAttemptsLeft
  <2> QED
    BY <2>2, <2>3, <2>4, <2>6 DEF Kept, FailedWhenExhausted, CompletedWasSwept, JobsOfFinishedCalls
<1>8. ASSUME NEW j \in Jobs, BackoffEnds(j)
      PROVE  JobInv' /\ Kept
  <2>1. \A i \in Jobs : /\ jobs'[i].status = jobs[i].status
                        /\ jobs'[i].call = jobs[i].call
                        /\ jobs'[i].attempts = jobs[i].attempts
    BY <1>8 DEF BackoffEnds, TypeOK, Job
  <2>2. UNCHANGED <<phase, batch, doing, swept>>
    BY <1>8 DEF BackoffEnds
  <2>3. ReadsHaveAttemptsLeft'
    BY <2>1, <2>2, InHand DEF ReadsHaveAttemptsLeft, TypeOK, Read
  <2> QED
    BY <2>1, <2>2, <2>3 DEF Kept, FailedWhenExhausted, CompletedWasSwept,
                            JobsOfFinishedCalls, TypeOK
<1>9. ASSUME UNCHANGED vars
      PROVE  JobInv' /\ Kept
  BY <1>9 DEF vars, Kept, ReadsHaveAttemptsLeft, FailedWhenExhausted,
              CompletedWasSwept, JobsOfFinishedCalls
<1> QED
  BY <1>1, <1>2, <1>3, <1>4, <1>5, <1>6, <1>7, <1>8, <1>9 DEF Next

LEMMA JobInvariant == Spec => [](TypeOK /\ JobInv)
<1>1. Init => TypeOK /\ JobInv
  BY InitTypeOK DEF Init, JobInv, NoRow, Idle, ReadsHaveAttemptsLeft, FailedWhenExhausted,
                    CompletedWasSwept, JobsOfFinishedCalls
<1>2. TypeOK /\ JobInv /\ [Next]_vars => TypeOK' /\ JobInv'
  BY NextTypeOK, NextJobInv
<1> QED
  BY <1>1, <1>2, PTL DEF Spec

\* A job is given up exactly when its attempts are used up, however many
\* workers overwrite each other's updates.
THEOREM GivenUpWhenExhausted == Spec => []FailedWhenExhausted
  BY JobInvariant, PTL DEF JobInv

\* A completed job's room was deleted after the job was enqueued.
THEOREM CompletionIsEarned == Spec => []CompletedWasSwept
  BY JobInvariant, PTL DEF JobInv

-------------------------------------------------------------------------------
(* Who can be in a room that has been deleted.                                *)

LEMMA NextOld ==
  ASSUME TypeOK, JobInv, OldCoversAll, [Next]_vars
  PROVE  OldCoversAll'
<1> USE DEF livekit, working
<1> SUFFICES ASSUME NEW c \in Calls, NEW j \in swept', jobs'[j].call = c
             PROVE  /\ room'[c] \subseteq old'[c]
                    /\ tokens'[c] \subseteq old'[c]
                    /\ \A p \in Parties : <<c, p>> \in asking' => p \in old'[c]
  BY DEF OldCoversAll
<1> DEFINE Goal == /\ room'[c] \subseteq old'[c]
                   /\ tokens'[c] \subseteq old'[c]
                   /\ \A p \in Parties : <<c, p>> \in asking' => p \in old'[c]
<1>1. ASSUME j \in swept
      PROVE  /\ phase[c] # "active"
             /\ room[c] \subseteq old[c] /\ tokens[c] \subseteq old[c]
             /\ \A p \in Parties : <<c, p>> \in asking => p \in old[c]
  <2>1. jobs[j].status # "none" /\ j \in Jobs
    BY <1>1 DEF JobInv, JobsOfFinishedCalls, TypeOK
  <2>2. jobs[j].call = c
    BY <2>1, NextJobInv DEF Kept
  <2> QED
    BY <1>1, <2>1, <2>2 DEF OldCoversAll, JobInv, JobsOfFinishedCalls
<1>2. ASSUME NEW d \in Calls, NEW p \in Parties, Ask(d, p)
      PROVE  Goal
  BY <1>1, <1>2 DEF Ask
<1>3. ASSUME NEW d \in Calls, NEW p \in Parties, Issue(d, p)
      PROVE  Goal
  BY <1>1, <1>3 DEF Issue, TypeOK
<1>4. ASSUME NEW d \in Calls, NEW p \in Parties,
             TokenExpires(d, p) \/ Join(d, p) \/ Leave(d, p)
      PROVE  Goal
  BY <1>1, <1>4 DEF TokenExpires, Join, Leave, TypeOK
<1>5. ASSUME NEW w \in Workers, NEW r \in batch[w], DeleteRoom(w, r)
      PROVE  Goal
  <2> DEFINE e == jobs[r.job].call
             holders == tokens[e] \cup {p \in Parties : <<e, p>> \in asking}
  <2>1. /\ room' = [room EXCEPT ![e] = {}] /\ old' = [old EXCEPT ![e] = holders]
        /\ swept' = swept \cup {r.job} /\ UNCHANGED <<jobs, asking, tokens>>
    BY <1>5 DEF DeleteRoom, Deleting
  <2>2. CASE e = c
    <3>1. room'[c] = {} /\ old'[c] = holders
      BY <2>1, <2>2 DEF TypeOK
    <3> QED
      BY <2>1, <2>2, <3>1
  <2>3. CASE e # c
    <3>1. j \in swept
      BY <2>1, <2>3
    <3>2. room'[c] = room[c] /\ old'[c] = old[c]
      BY <2>1, <2>3 DEF TypeOK
    <3> QED
      BY <1>1, <2>1, <3>1, <3>2
  <2> QED
    BY <2>2, <2>3
<1>6. ASSUME UNCHANGED <<livekit, asking, swept>>
      PROVE  Goal
  BY <1>1, <1>6
<1>7. ASSUME NEW d \in Calls, Drop(d) \/ \E i \in Jobs : Finish(d, i)
      PROVE  UNCHANGED <<livekit, asking, swept>>
  BY <1>7 DEF Drop, Finish
<1>8. ASSUME NEW w \in Workers,
             \/ Record(w) \/ RecordLost(w) \/ Crash(w) \/ \E S \in SUBSET Jobs : Poll(w, S)
      PROVE  UNCHANGED <<livekit, asking, swept>>
  BY <1>8 DEF Record, Recording, RecordLost, Crash, Poll
<1>9. ASSUME NEW w \in Workers, NEW r \in batch[w], DeleteFails(w, r)
      PROVE  UNCHANGED <<livekit, asking, swept>>
  BY <1>9 DEF DeleteFails, Deleting
<1>10. ASSUME NEW i \in Jobs, BackoffEnds(i)
       PROVE  UNCHANGED <<livekit, asking, swept>>
  BY <1>10 DEF BackoffEnds
<1>11. ASSUME UNCHANGED vars
       PROVE  UNCHANGED <<livekit, asking, swept>>
  BY <1>11 DEF vars
<1> HIDE DEF livekit, working
<1> QED
  BY <1>2, <1>3, <1>4, <1>5, <1>6, <1>7, <1>8, <1>9, <1>10, <1>11 DEF Next

\* After the room of a finished call is deleted, only a party who then held a
\* token, or had a request for one past its checks, can be in it again.
THEOREM NobodyNewReenters == Spec => []OnlyOldTokensReenter
<1>1. Init => OldCoversAll
  BY DEF Init, OldCoversAll
<1>2. TypeOK /\ JobInv /\ OldCoversAll /\ [Next]_vars => OldCoversAll'
  BY NextOld
<1>3. OldCoversAll => OnlyOldTokensReenter
  BY DEF OldCoversAll, OnlyOldTokensReenter
<1> QED
  BY <1>1, <1>2, <1>3, JobInvariant, PTL DEF Spec

-----------------------------------------------------------------------------
(* The advisory locks.                                                        *)

\* Every variable keeps its type and a transaction its users in uuid order
\* (least and greatest in each of the six procedures).
THEOREM LocksTyped == LockSpec => []LockTypeOK
<1>1. LockInit => LockTypeOK
  BY LockAssumption DEF LockInit, LockTypeOK
<1>2. LockTypeOK /\ [LockNext]_lockVars => LockTypeOK'
  <2> SUFFICES ASSUME LockTypeOK, [LockNext]_lockVars PROVE LockTypeOK'
    OBVIOUS
  <2> USE LockAssumption DEF LockTypeOK
  <2>1. CASE UNCHANGED lockVars
    BY <2>1 DEF lockVars
  <2>2. ASSUME NEW t \in Txns, NEW u \in Users, NEW v \in Users, Begin(t, u, v)
        PROVE  LockTypeOK'
    BY <2>2 DEF Begin
  <2>3. ASSUME NEW t \in Txns, LockFirst(t) PROVE LockTypeOK'
    BY <2>3 DEF LockFirst
  <2>4. ASSUME NEW t \in Txns, LockSecond(t) PROVE LockTypeOK'
    BY <2>4 DEF LockSecond
  <2>5. ASSUME NEW t \in Txns, Commit(t) PROVE LockTypeOK'
    BY <2>5 DEF Commit, Ends, Released
  <2>6. ASSUME NEW t \in Txns, Abort(t) PROVE LockTypeOK'
    BY <2>6 DEF Abort, Ends, Released
  <2>7. QED
    BY <2>1, <2>2, <2>3, <2>4, <2>5, <2>6 DEF LockNext
<1>3. QED
  BY <1>1, <1>2, PTL DEF LockSpec

\* The lock table and the progress of the transactions agree.
LEMMA HoldersAreOwners == LockSpec => []OwnersHold
<1>1. LockInit => OwnersHold
  BY LockAssumption DEF LockInit, OwnersHold, Holds
<1>2. LockTypeOK /\ OwnersHold /\ [LockNext]_lockVars => OwnersHold'
  <2> SUFFICES ASSUME LockTypeOK, OwnersHold, [LockNext]_lockVars PROVE OwnersHold'
    OBVIOUS
  <2> USE LockAssumption DEF LockTypeOK, OwnersHold, Holds
  <2>1. CASE UNCHANGED lockVars
    BY <2>1 DEF lockVars
  <2>2. ASSUME NEW t \in Txns, NEW u \in Users, NEW v \in Users, Begin(t, u, v)
        PROVE  OwnersHold'
    BY <2>2 DEF Begin
  <2>3. ASSUME NEW t \in Txns, LockFirst(t) PROVE OwnersHold'
    BY <2>3 DEF LockFirst, Free
  <2>4. ASSUME NEW t \in Txns, LockSecond(t) PROVE OwnersHold'
    BY <2>4 DEF LockSecond, Free
  <2>5. ASSUME NEW t \in Txns, Commit(t) PROVE OwnersHold'
    BY <2>5 DEF Commit, Ends, Released
  <2>6. ASSUME NEW t \in Txns, Abort(t) PROVE OwnersHold'
    BY <2>6 DEF Abort, Ends, Released
  <2>7. QED
    BY <2>1, <2>2, <2>3, <2>4, <2>5, <2>6 DEF LockNext
<1>3. QED
  BY <1>1, <1>2, LocksTyped, PTL DEF LockSpec

-----------------------------------------------------------------------------

\* Whoever holds one lock of a user keeps out a second transaction that is
\* inside on it: the point where the two locks become one.
LEMMA SecondLockIsEntry ==
    ASSUME LockTypeOK, OwnersHold, NEW t \in Txns, LockSecond(t)
    PROVE  \A s \in Txns : Inside(s) \cap {low[t], high[t]} = {}
<1> USE LockAssumption DEF LockTypeOK, OwnersHold, LockSecond, Free
<1> SUFFICES ASSUME NEW s \in Txns, Inside(s) \cap {low[t], high[t]} # {} PROVE FALSE
  OBVIOUS
<1>1. step[s] = "inside" /\ s # t
  BY DEF Inside
<1>2. Holds(s, Hash[low[s]]) /\ Holds(s, Hash[high[s]]) /\ Holds(t, Hash[low[t]])
  BY <1>1 DEF Holds
<1>3. owner[Hash[low[s]]] = s /\ owner[Hash[high[s]]] = s /\ owner[Hash[low[t]]] = t
  BY <1>1, <1>2
<1>4. owner[Hash[high[t]]] # s
  BY <1>1
<1>5. QED
  BY <1>1, <1>3, <1>4 DEF Inside

\* Taking the two locks one after the other implements the atomic lock on the
\* pair that DirectCalls is built on, colliding keys or not.
THEOREM LocksImplementPairLocks == LockSpec => OneLockPerPair
<1>1. LockInit => Atomic!Init
  BY DEF LockInit, Atomic!Init, Inside
<1>2. LockTypeOK /\ OwnersHold /\ [LockNext]_lockVars => [Atomic!Next]_([t \in Txns |-> Inside(t)])
  <2> SUFFICES ASSUME LockTypeOK, OwnersHold, [LockNext]_lockVars
               PROVE  \/ \A t \in Txns : Inside(t)' = Inside(t)
                      \/ Atomic!Next
    OBVIOUS
  <2>1. CASE UNCHANGED lockVars
    BY <2>1 DEF lockVars, Inside
  <2>2. ASSUME NEW t \in Txns, NEW u \in Users, NEW v \in Users, Begin(t, u, v)
        PROVE  \A r \in Txns : Inside(r)' = Inside(r)
    BY <2>2 DEF Begin, Inside, LockTypeOK
  <2>3. ASSUME NEW t \in Txns, LockFirst(t)
        PROVE  \A r \in Txns : Inside(r)' = Inside(r)
    BY <2>3 DEF LockFirst, Inside, LockTypeOK
  <2>4. ASSUME NEW t \in Txns, LockSecond(t)
        PROVE  Atomic!Enter(t, low[t], high[t]) /\ low[t] \in Users /\ high[t] \in Users
               /\ low[t] # high[t]
    <3>1. low[t] \in Users /\ high[t] \in Users /\ low[t] # high[t]
      BY <2>4, LockAssumption DEF LockSecond, LockTypeOK
    <3>2. \A s \in Txns : Inside(s) \cap {low[t], high[t]} = {}
      BY <2>4, SecondLockIsEntry
    <3>3. Inside(t) = {}
      BY <2>4 DEF LockSecond, Inside
    <3>4. \A r \in Txns : Inside(r)' = IF r = t THEN {low[t], high[t]} ELSE Inside(r)
      BY <2>4 DEF LockSecond, Inside, LockTypeOK
    <3>5. QED
      BY <3>1, <3>2, <3>3, <3>4 DEF Atomic!Enter
  <2>5. ASSUME NEW t \in Txns, Commit(t) PROVE Atomic!Leave(t)
    <3>1. Inside(t) # {}
      BY <2>5 DEF Commit, Inside
    <3>2. \A r \in Txns : Inside(r)' = IF r = t THEN {} ELSE Inside(r)
      BY <2>5 DEF Commit, Ends, Inside, LockTypeOK
    <3>3. QED
      BY <3>1, <3>2 DEF Atomic!Leave
  <2>6. ASSUME NEW t \in Txns, Abort(t)
        PROVE  \A r \in Txns : Inside(r)' = Inside(r)
    BY <2>6 DEF Abort, Ends, Inside, LockTypeOK
  <2>7. QED
    BY <2>1, <2>2, <2>3, <2>4, <2>5, <2>6 DEF LockNext, Atomic!Next
<1>3. QED
  BY <1>1, <1>2, LocksTyped, HoldersAreOwners, PTL DEF LockSpec, OneLockPerPair, Atomic!Spec

-----------------------------------------------------------------------------

\* A transaction in the way of another holds exactly one lock: one under the
\* key of another user, or of the very user that is asked for, and then what it
\* asks for itself is a greater one.
LEMMA BlockerCollidesOrWantsMore ==
    ASSUME LockTypeOK, OwnersHold,
           NEW t \in Txns, NEW s \in Txns, WaitsFor(t, s), Waiting(s)
    PROVE  /\ Hash[Wanted(t)] = Hash[low[s]]
           /\ Wanted(t) = low[s] => Wanted(t) < Wanted(s)
<1> USE LockAssumption DEF LockTypeOK
<1>1. Wanted(t) \in Users /\ owner[Hash[Wanted(t)]] = s
  BY DEF WaitsFor, Waiting, Wanted
<1>2. Holds(s, Hash[Wanted(t)])
  BY <1>1 DEF OwnersHold
<1>3. step[s] = "second" /\ Hash[Wanted(t)] = Hash[low[s]]
  BY <1>2 DEF Holds, Waiting
<1>4. QED
  BY <1>3 DEF Wanted

\* "chống deadlock", as far as it goes: whatever the hash, transactions that
\* wait in a circle do so through two different users that share a key.  The
\* order of the uuids excludes every other circle.
THEOREM CirclesNeedCollisions == LockSpec => []CirclesCollide
<1>1. ASSUME LockTypeOK, OwnersHold PROVE CirclesCollide
  <2> SUFFICES ASSUME NEW S \in SUBSET Txns, Circle(S),
                      \A t, s \in S : ~ (/\ WaitsFor(t, s)
                                         /\ Wanted(t) # low[s] /\ Hash[Wanted(t)] = Hash[low[s]])
               PROVE  FALSE
    BY DEF CirclesCollide
  <2> DEFINE Left(t) == LastUuid - Wanted(t)
             L == {Left(t) : t \in S}
  <2>1. \A t \in S : Waiting(t)
    BY DEF Circle, WaitsFor
  <2>2. \A t \in S : Wanted(t) \in Nat /\ Wanted(t) <= LastUuid
    BY <1>1, <2>1, LockAssumption DEF LockTypeOK, Waiting, Wanted
  <2>3. L \subseteq Nat /\ L # {}
    BY <2>2, LockAssumption DEF Circle
  <2>4. PICK x \in L : \A y \in L : ~ (<<y, x>> \in OpToRel(<, Nat))
    <3> HIDE DEF L
    <3> QED BY <2>3, NatLessThanWellFounded, WFMin
  <2>5. PICK t \in S : x = Left(t)
    OBVIOUS
  <2>6. PICK s \in S : WaitsFor(t, s)
    BY DEF Circle
  <2>7. Wanted(t) < Wanted(s)
    BY <1>1, <2>1, <2>6, BlockerCollidesOrWantsMore
  <2>8. Left(s) < Left(t) /\ Left(s) \in L
    BY <2>2, <2>7, LockAssumption
  <2>9. <<Left(s), x>> \in OpToRel(<, Nat)
    BY <2>3, <2>5, <2>8 DEF OpToRel
  <2>10. QED
    BY <2>4, <2>8, <2>9
<1>2. QED
  BY <1>1, LocksTyped, HoldersAreOwners, PTL
=============================================================================
