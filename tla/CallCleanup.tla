---------------------------- MODULE CallCleanup ----------------------------
(***************************************************************************)
(* What happens to the LiveKit room of a one-to-one call once the call is  *)
(* over: the cleanup jobs the stored procedures enqueue (DirectCalls), the *)
(* worker every server instance runs over them, and the join tokens that   *)
(* let a party into the room.                                              *)
(*                                                                         *)
(* A worker reads a batch of due jobs, then for each job awaits LiveKit    *)
(* and awaits the update of the job row.  Nothing marks a job as taken     *)
(* while this goes on, and the update is by id alone, with the number of   *)
(* attempts computed from the row as it was read.                          *)
(***************************************************************************)
EXTENDS Naturals, FiniteSets

CONSTANTS
    Calls,          \* call ids, one room each
    Parties,        \* the two ends of a call
    Jobs,           \* ids of direct_call_room_cleanup_outbox rows
    Workers,        \* server instances, one cleanup worker each
    MaxAttempts,    \* max_attempts, 5 in the table's default
    MaxFaults,      \* bound: crashes and lost updates of the workers
    NoCall, NoJob

ASSUME CleanupAssumption ==
    /\ NoCall \notin Calls
    /\ NoJob \notin Jobs
    /\ MaxAttempts \in Nat \ {0}
    /\ MaxFaults \in Nat

VARIABLES
    phase,      \* of a call: "active", "over", or "gone" with its conversation
    jobs,       \* direct_call_room_cleanup_outbox
    batch,      \* of a worker: the jobs it has read and not handled, as read
    doing,      \* of a worker: the job whose room it has asked LiveKit to delete
    asking,     \* token requests past the status check of getToken
    tokens,     \* of a call: the parties whose join token is still valid
    room,       \* of a call: the parties in its room
    swept,      \* history: jobs whose room LiveKit has deleted for them
    old,        \* history: who could still enter the room when it was last deleted
    faults

livekit == <<tokens, room, old>>
working == <<batch, doing, swept>>
vars == <<phase, jobs, batch, doing, asking, tokens, room, swept, old, faults>>

-----------------------------------------------------------------------------

JobStatus == {"none", "pending", "completed", "failed"}
Job == [call : Calls \cup {NoCall}, status : JobStatus, attempts : Nat, due : BOOLEAN]
NoRow == [call |-> NoCall, status |-> "none", attempts |-> 0, due |-> FALSE]

\* next_attempt_at is the time of the insert.
NewJob(c) == [call |-> c, status |-> "pending", attempts |-> 0, due |-> TRUE]

\* A job as a worker read it, and the outcome of its deleteRoom.
Read == [job : Jobs, attempts : Nat]
Idle == [job |-> NoJob, attempts |-> 0, deleted |-> FALSE]
Outcome == [job : Jobs, attempts : Nat, deleted : BOOLEAN]

Due == {j \in Jobs : jobs[j].status = "pending" /\ jobs[j].due}

Init ==
    /\ phase = [c \in Calls |-> "active"]
    /\ jobs = [j \in Jobs |-> NoRow]
    /\ batch = [w \in Workers |-> {}]
    /\ doing = [w \in Workers |-> Idle]
    /\ asking = {}
    /\ tokens = [c \in Calls |-> {}]
    /\ room = [c \in Calls |-> {}]
    /\ swept = {}
    /\ old = [c \in Calls |-> Parties]
    /\ faults = 0

-----------------------------------------------------------------------------
(* The calls, as far as the jobs depend on them *)

\* Any way of finishing a call, or of ending a finished one again (block_user).
Finish(c, j) ==
    /\ jobs[j].status = "none"
    /\ phase' = [phase EXCEPT ![c] = IF @ = "gone" THEN "gone" ELSE "over"]
    /\ jobs' = [jobs EXCEPT ![j] = NewJob(c)]
    /\ UNCHANGED <<working, asking, livekit, faults>>

\* The call is deleted with its conversation: no job.
Drop(c) ==
    /\ phase[c] # "gone"
    /\ phase' = [phase EXCEPT ![c] = "gone"]
    /\ UNCHANGED <<jobs, working, asking, livekit, faults>>

-----------------------------------------------------------------------------
(* getToken, and what a token is good for *)

\* Deviation: the status of the call is not looked at.
AskAnyTime(c, p) ==
    /\ <<c, p>> \notin asking /\ p \notin tokens[c]
    /\ phase[c] # "gone"
    /\ asking' = asking \cup {<<c, p>>}
    /\ UNCHANGED <<phase, jobs, working, livekit, faults>>

\* The call is read and its status and media owner checked; then the handler
\* awaits the profile.
Ask(c, p) ==
    /\ <<c, p>> \notin asking /\ p \notin tokens[c]
    /\ phase[c] = "active"
    /\ asking' = asking \cup {<<c, p>>}
    /\ UNCHANGED <<phase, jobs, working, livekit, faults>>

\* generateToken: nothing is read again.
Issue(c, p) ==
    /\ <<c, p>> \in asking
    /\ asking' = asking \ {<<c, p>>}
    /\ tokens' = [tokens EXCEPT ![c] = @ \cup {p}]
    /\ UNCHANGED <<phase, jobs, working, room, old, faults>>

\* Three minutes have passed.
TokenExpires(c, p) ==
    /\ p \in tokens[c]
    /\ tokens' = [tokens EXCEPT ![c] = @ \ {p}]
    /\ UNCHANGED <<phase, jobs, working, asking, room, old, faults>>

\* LiveKit creates a room for whoever joins with a valid token.
Join(c, p) ==
    /\ p \in tokens[c] /\ p \notin room[c]
    /\ room' = [room EXCEPT ![c] = @ \cup {p}]
    /\ UNCHANGED <<phase, jobs, working, asking, tokens, old, faults>>

Leave(c, p) ==
    /\ p \in room[c]
    /\ room' = [room EXCEPT ![c] = @ \ {p}]
    /\ UNCHANGED <<phase, jobs, working, asking, tokens, old, faults>>

-----------------------------------------------------------------------------
(* The cleanup worker *)

\* The select.  isProcessing keeps a worker to one batch at a time; limit 10
\* may leave some due jobs out.
Poll(w, S) ==
    /\ batch[w] = {} /\ doing[w] = Idle
    /\ S \subseteq Due /\ S # {}
    /\ batch' = [batch EXCEPT ![w] = {[job |-> j, attempts |-> jobs[j].attempts] : j \in S}]
    /\ UNCHANGED <<phase, jobs, doing, asking, livekit, swept, faults>>

Deleting(w, r, ok) ==
    /\ doing[w] = Idle /\ r \in batch[w]
    /\ batch' = [batch EXCEPT ![w] = @ \ {r}]
    /\ doing' = [doing EXCEPT ![w] = [job |-> r.job, attempts |-> r.attempts, deleted |-> ok]]
    /\ UNCHANGED <<phase, jobs, asking, tokens, faults>>

\* deleteRoom succeeds, or answers that there is no such room; the reply may be
\* lost, and then it is an error for the worker.
DeleteRoom(w, r) ==
    LET c == jobs[r.job].call IN
    /\ \E ok \in BOOLEAN : Deleting(w, r, ok)
    /\ room' = [room EXCEPT ![c] = {}]
    /\ old' = [old EXCEPT ![c] = tokens[c] \cup {p \in Parties : <<c, p>> \in asking}]
    /\ swept' = swept \cup {r.job}

\* Deviation: any error is taken for "there is no such room".
DeleteFailsUnnoticed(w, r) ==
    /\ Deleting(w, r, TRUE)
    /\ UNCHANGED <<room, old, swept>>

\* deleteRoom fails and deletes nothing.
DeleteFails(w, r) ==
    /\ Deleting(w, r, FALSE)
    /\ UNCHANGED <<room, old, swept>>

\* What the update makes of the row: n is newAttempts, limit is max_attempts.
Updated(row, deleted, n, limit) ==
    [call |-> row.call, attempts |-> n, due |-> deleted /\ row.due,
     status |-> IF deleted THEN "completed" ELSE IF n >= limit THEN "failed" ELSE "pending"]

Recording(w, n, limit) ==
    LET d == doing[w] IN
    /\ d.job # NoJob
    /\ jobs' = [jobs EXCEPT ![d.job] = Updated(@, d.deleted, n, limit)]
    /\ doing' = [doing EXCEPT ![w] = Idle]
    /\ UNCHANGED <<phase, batch, asking, livekit, swept, faults>>

\* Deviations: one attempt too many; the attempt is not counted.
RecordLate(w)      == Recording(w, doing[w].attempts + 1, MaxAttempts + 1)
RecordUncounted(w) == Recording(w, doing[w].attempts, MaxAttempts)

\* The update of the job row, whatever has become of it since it was read.
Record(w) == Recording(w, doing[w].attempts + 1, MaxAttempts)

\* The update answers with an error, which nobody reads.
RecordLost(w) ==
    /\ doing[w].job # NoJob /\ faults < MaxFaults
    /\ doing' = [doing EXCEPT ![w] = Idle]
    /\ faults' = faults + 1
    /\ UNCHANGED <<phase, jobs, batch, asking, livekit, swept>>

\* The instance stops; the next one starts with nothing read.
Crash(w) ==
    /\ batch[w] # {} \/ doing[w].job # NoJob
    /\ faults < MaxFaults
    /\ batch' = [batch EXCEPT ![w] = {}]
    /\ doing' = [doing EXCEPT ![w] = Idle]
    /\ faults' = faults + 1
    /\ UNCHANGED <<phase, jobs, asking, livekit, swept>>

\* The clock passes next_attempt_at.
BackoffEnds(j) ==
    /\ jobs[j].status = "pending" /\ ~jobs[j].due
    /\ jobs' = [jobs EXCEPT ![j].due = TRUE]
    /\ UNCHANGED <<phase, working, asking, livekit, faults>>

-----------------------------------------------------------------------------

Next ==
    \/ \E c \in Calls : \/ Drop(c)
                        \/ \E j \in Jobs : Finish(c, j)
                        \/ \E p \in Parties : \/ Ask(c, p) \/ Issue(c, p) \/ TokenExpires(c, p)
                                              \/ Join(c, p) \/ Leave(c, p)
    \/ \E w \in Workers : \/ Record(w) \/ RecordLost(w) \/ Crash(w)
                          \/ \E S \in SUBSET Jobs : Poll(w, S)
                          \/ \E r \in batch[w] : DeleteRoom(w, r) \/ DeleteFails(w, r)
    \/ \E j \in Jobs : BackoffEnds(j)

Spec == Init /\ [][Next]_vars

\* A worker that has jobs in hand goes on with them (LiveKit answers or times
\* out), the clock runs, and as long as a job is due the ten-second timer of
\* some instance takes it into a batch.
Handle(w) == Record(w) \/ \E r \in batch[w] : DeleteRoom(w, r) \/ DeleteFails(w, r)
FairSpec ==
    /\ Spec
    /\ \A j \in Jobs : /\ WF_vars(BackoffEnds(j))
                       /\ WF_vars(\E w \in Workers, S \in SUBSET Jobs : j \in S /\ Poll(w, S))
    /\ \A w \in Workers : WF_vars(Handle(w))

-----------------------------------------------------------------------------
(* Properties *)

\* Every variable has its type.
TypeOK ==
    /\ phase \in [Calls -> {"active", "over", "gone"}]
    /\ jobs \in [Jobs -> Job]
    /\ batch \in [Workers -> SUBSET Read]
    /\ doing \in [Workers -> Outcome \cup {Idle}]
    /\ asking \subseteq Calls \X Parties
    /\ tokens \in [Calls -> SUBSET Parties]
    /\ room \in [Calls -> SUBSET Parties]
    /\ swept \subseteq Jobs
    /\ old \in [Calls -> SUBSET Parties]
    /\ faults \in Nat

\* A job fails for good exactly with its last attempt, and a pending job has
\* attempts left, although workers overwrite each other's count with one
\* computed from an older read.
FailedWhenExhausted ==
    \A j \in Jobs :
        /\ jobs[j].status = "pending" => jobs[j].attempts < MaxAttempts
        /\ jobs[j].status = "failed" => jobs[j].attempts = MaxAttempts

\* A job is completed only if LiveKit has deleted the room since the job was
\* enqueued, whatever errors, retries and other workers came between.
CompletedWasSwept ==
    \A j \in Jobs : jobs[j].status = "completed" => j \in swept

\* Whoever is in a room after it was deleted had a token, or a request for one
\* past its checks, when it was deleted: a finished call lets nobody new in.
OnlyOldTokensReenter ==
    \A c \in Calls : phase[c] # "active" /\ (\E j \in swept : jobs[j].call = c)
                        => room[c] \subseteq old[c]

\* Every job is settled in the end, in spite of the workers' races.
JobsSettle ==
    \A j \in Jobs :
        jobs[j].status = "pending" ~> [](jobs[j].status \in {"completed", "failed"})

(* Strengthenings the proofs rest on. *)

\* What a worker has read is about a job with attempts left.
ReadsHaveAttemptsLeft ==
    \A w \in Workers :
        /\ \A r \in batch[w] : r.attempts < MaxAttempts /\ jobs[r.job].status # "none"
        /\ doing[w].job # NoJob => /\ doing[w].attempts < MaxAttempts
                                   /\ jobs[doing[w].job].status # "none"
                                   /\ doing[w].deleted => doing[w].job \in swept

\* A job exists only for a call that is over, and only a job's room is deleted.
JobsOfFinishedCalls ==
    /\ \A j \in Jobs : jobs[j].status # "none" =>
          jobs[j].call \in Calls /\ phase[jobs[j].call] # "active"
    /\ \A j \in swept : jobs[j].status # "none"

\* Once a room has been deleted, whoever is in it, may join it or is about to
\* get a token for it is one of those who could then.
OldCoversAll ==
    \A c \in Calls : (\E j \in swept : jobs[j].call = c) =>
        /\ room[c] \subseteq old[c]
        /\ tokens[c] \subseteq old[c]
        /\ \A p \in Parties : <<c, p>> \in asking => p \in old[c]
============================================================================
