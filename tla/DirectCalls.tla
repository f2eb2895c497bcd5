---------------------------- MODULE DirectCalls ----------------------------
(***************************************************************************)
(* One-to-one audio/video calls between friends, at the level of the       *)
(* database: the tables direct_calls, direct_call_active_users and         *)
(* direct_call_room_cleanup_outbox, the stored procedures that change      *)
(* them, the block and friendship tables those procedures read, and the    *)
(* removal of a friend, which deletes the DM conversation and with it its  *)
(* calls (on delete cascade).  Declining a message request does the same.  *)
(*                                                                         *)
(* A procedure that works on one call holds that row's lock (FOR UPDATE)   *)
(* to its end and is one step.  start_direct_call and block_user hold two  *)
(* per-user advisory locks and read rows they do not lock, so each is two  *)
(* steps: "read under the advisory locks" and "write and commit".  A       *)
(* transaction that fails (an exception, a lost connection, a crashed      *)
(* instance) is rolled back and changes nothing.                           *)
(***************************************************************************)
EXTENDS Naturals, FiniteSets

CONSTANTS
    Users,      \* profiles
    Calls,      \* call ids; an id is never used twice
    Sessions,   \* client sessions (tabs, devices) a callee answers from
    NoUser, NoCall, NoSession

ASSUME NullsAreNotValues ==
    /\ NoUser \notin Users
    /\ NoCall \notin Calls
    /\ NoSession \notin Sessions

VARIABLES
    calls,          \* direct_calls
    claims,         \* direct_call_active_users: user_id -> call_id
    outbox,         \* number of direct_call_room_cleanup_outbox rows of a call
    friends,        \* friendships with status 'accepted', as unordered pairs
    blocks,         \* user_blocks: <<blocker, blocked>>
    dms,            \* DM conversations, by the pair in their dm_key
    starting,       \* start_direct_call transactions past their checks
    blocking,       \* block_user transactions that have read the active calls
    unfriending,    \* removeFriend requests past the friendship delete
    joined,         \* sessions answered with should_join_media = true
    toldExpired     \* calls for which an answer was refused with EXPIRED

table == <<calls, claims, outbox>>
social == <<friends, blocks, dms>>
inFlight == <<starting, blocking, unfriending>>
replies == <<joined, toldExpired>>
vars == <<calls, claims, outbox, friends, blocks, dms,
          starting, blocking, unfriending, joined, toldExpired>>

-----------------------------------------------------------------------------

ActiveStatus   == {"ringing", "accepted"}
TerminalStatus == {"declined", "cancelled", "missed", "ended"}  \* nothing sets 'failed'
\* "unused": no row yet.  "gone": the row was deleted with its conversation.
CallStatus     == {"unused", "gone"} \cup ActiveStatus \cup TerminalStatus

CallRow == [status    : CallStatus,
            caller    : Users \cup {NoUser},
            callee    : Users \cup {NoUser},
            answered  : Sessions \cup {NoSession},
            connected : BOOLEAN,
            expired   : BOOLEAN,     \* expires_at has passed
            version   : Nat]

NoRow == [status |-> "unused", caller |-> NoUser, callee |-> NoUser,
          answered |-> NoSession, connected |-> FALSE, expired |-> FALSE,
          version |-> 0]

NewCall(u, v) == [status |-> "ringing", caller |-> u, callee |-> v,
                  answered |-> NoSession, connected |-> FALSE, expired |-> FALSE,
                  version |-> 1]

\* The update of an answered call.
Accepted(row, s) == [row EXCEPT !.status = "accepted", !.answered = s, !.version = @ + 1]

\* The update of a call whose media is up.
Connected(row) == [row EXCEPT !.connected = TRUE, !.version = @ + 1]

\* What every update that finishes a call does to its row.
Over(row, status) == [row EXCEPT !.status = status, !.version = @ + 1]

Pairs == {{u, v} : u, v \in Users}
StartTxn == {t \in [caller : Users, callee : Users] : t.caller # t.callee}
BlockTxn == [by : Users, target : Users, seen : SUBSET Calls]

Active(c)   == calls[c].status \in ActiveStatus
Terminal(c) == calls[c].status \in TerminalStatus
Exists(c)   == Active(c) \/ Terminal(c)
PairOf(c)   == {calls[c].caller, calls[c].callee}

\* Deviation: block_user forgets the advisory locks.
LockedByStarts(u) == \E t \in starting : u \in {t.caller, t.callee}

\* Users whose advisory lock a transaction in flight holds.
Locked(u) ==
    \/ \E t \in starting : u \in {t.caller, t.callee}
    \/ \E b \in blocking : u \in {b.by, b.target}

BlockedPair(u, v) == <<u, v>> \in blocks \/ <<v, u>> \in blocks

Released(S) == [u \in Users |-> IF claims[u] \in S THEN NoCall ELSE claims[u]]

-----------------------------------------------------------------------------

Init ==
    /\ calls = [c \in Calls |-> NoRow]
    /\ claims = [u \in Users |-> NoCall]
    /\ outbox = [c \in Calls |-> 0]
    /\ friends \in SUBSET {p \in Pairs : Cardinality(p) = 2}
    /\ dms = friends
    /\ blocks = {}
    /\ starting = {}
    /\ blocking = {}
    /\ unfriending = {}
    /\ joined = [c \in Calls |-> {}]
    /\ toldExpired = {}

-----------------------------------------------------------------------------
(* start_direct_call *)

\* The conversation is read, both advisory locks are taken, and the block and
\* friendship rows are read under them.
StartCheck(u, v) ==
    /\ u # v
    /\ {u, v} \in dms
    /\ ~Locked(u) /\ ~Locked(v)
    /\ ~BlockedPair(u, v)
    /\ {u, v} \in friends
    /\ starting' = starting \cup {[caller |-> u, callee |-> v]}
    /\ UNCHANGED <<table, social, blocking, unfriending, replies>>

\* Deviation: only the caller's claim is looked at.
StartInsertCallerFree(t, c) ==
    /\ t \in starting
    /\ calls[c].status = "unused"
    /\ {t.caller, t.callee} \in dms
    /\ claims[t.caller] = NoCall
    /\ calls' = [calls EXCEPT ![c] = NewCall(t.caller, t.callee)]
    /\ claims' = [claims EXCEPT ![t.caller] = c, ![t.callee] = c]
    /\ starting' = starting \ {t}
    /\ UNCHANGED <<outbox, social, blocking, unfriending, replies>>

\* The busy check, the insert of the call and of both claims, the commit.  The
\* insert fails on its foreign key when the conversation is gone meanwhile.
StartInsert(t, c) ==
    /\ t \in starting
    /\ calls[c].status = "unused"
    /\ {t.caller, t.callee} \in dms
    /\ claims[t.caller] = NoCall /\ claims[t.callee] = NoCall
    /\ calls' = [calls EXCEPT ![c] = NewCall(t.caller, t.callee)]
    /\ claims' = [claims EXCEPT ![t.caller] = c, ![t.callee] = c]
    /\ starting' = starting \ {t}
    /\ UNCHANGED <<outbox, social, blocking, unfriending, replies>>

\* BUSY, a missing conversation, or a lost connection: rolled back.
StartAbort(t) ==
    /\ t \in starting
    /\ starting' = starting \ {t}
    /\ UNCHANGED <<table, social, blocking, unfriending, replies>>

-----------------------------------------------------------------------------
(* answer_direct_call *)

\* Deviation: an accepted call is accepted once more, by the later session.
AnswerAnyActive(u, c, s) ==
    /\ Active(c) /\ ~calls[c].expired
    /\ calls[c].callee = u
    /\ calls' = [calls EXCEPT ![c] = Accepted(@, s)]
    /\ joined' \in {joined, [joined EXCEPT ![c] = @ \cup {s}]}
    /\ UNCHANGED <<claims, outbox, social, inFlight, toldExpired>>

\* The first answer wins the media; its reply may be lost on the way.
Answer(u, c, s) ==
    /\ calls[c].status = "ringing" /\ ~calls[c].expired
    /\ calls[c].callee = u
    /\ calls' = [calls EXCEPT ![c] = Accepted(@, s)]
    /\ joined' \in {joined, [joined EXCEPT ![c] = @ \cup {s}]}
    /\ UNCHANGED <<claims, outbox, social, inFlight, toldExpired>>

\* Another answer of an accepted call: should_join_media tells whether it is
\* the session that won.
AnswerAgain(u, c, s) ==
    /\ calls[c].status = "accepted"
    /\ calls[c].callee = u
    /\ joined' = IF calls[c].answered = s
                 THEN [joined EXCEPT ![c] = @ \cup {s}]
                 ELSE joined
    /\ UNCHANGED <<table, social, inFlight, toldExpired>>

\* The procedure updates the row to 'missed', deletes the claims, enqueues the
\* cleanup and then raises EXPIRED: the exception rolls all of that back.
AnswerExpired(u, c) ==
    /\ calls[c].status = "ringing" /\ calls[c].expired
    /\ calls[c].callee = u
    /\ toldExpired' = toldExpired \cup {c}
    /\ UNCHANGED <<table, social, inFlight, joined>>

-----------------------------------------------------------------------------
(* decline_direct_call, cancel_direct_call, end_direct_call *)

\* What every way of finishing a set of calls does: the status, the version,
\* both claims, one cleanup row for each.
Finish(S, status) ==
    /\ calls' = [c \in Calls |->
                    IF c \in S THEN Over(calls[c], status) ELSE calls[c]]
    /\ claims' = Released(S)
    /\ outbox' = [c \in Calls |-> outbox[c] + IF c \in S THEN 1 ELSE 0]
    /\ UNCHANGED <<social, inFlight, replies>>

\* A terminal call is returned as it is (idempotent); any active one, ringing
\* or accepted, is finished.
Decline(u, c) == Active(c) /\ calls[c].callee = u /\ Finish({c}, "declined")
Cancel(u, c)  == Active(c) /\ calls[c].caller = u /\ Finish({c}, "cancelled")
End(u, c)     == Active(c) /\ u \in PairOf(c) /\ Finish({c}, "ended")

-----------------------------------------------------------------------------
(* mark_direct_call_connected, from the LiveKit webhook participant_joined *)

\* Deviation: the version is left alone.
MarkConnectedSilently(c) ==
    /\ calls[c].status = "accepted" /\ ~calls[c].connected
    /\ calls' = [calls EXCEPT ![c].connected = TRUE]
    /\ UNCHANGED <<claims, outbox, social, inFlight, replies>>

MarkConnected(c) ==
    /\ calls[c].status = "accepted" /\ ~calls[c].connected
    /\ calls' = [calls EXCEPT ![c] = Connected(@)]
    /\ UNCHANGED <<claims, outbox, social, inFlight, replies>>

-----------------------------------------------------------------------------
(* The ring timeout and expire_ringing_direct_calls *)

\* clock_timestamp() passes expires_at; only a ringing call is ever asked.
RingTimeout(c) ==
    /\ calls[c].status = "ringing" /\ ~calls[c].expired
    /\ calls' = [calls EXCEPT ![c].expired = TRUE]
    /\ UNCHANGED <<claims, outbox, social, inFlight, replies>>

\* Deviations: the batch is picked without looking at the status or the time;
\* the batch is picked among the calls somebody answered.
ExpireAnyActive(S) == S # {} /\ (\A c \in S : Active(c)) /\ Finish(S, "missed")
ExpireAccepted(S) ==
    /\ S # {}
    /\ \A c \in S : calls[c].status = "accepted" /\ calls[c].expired
    /\ Finish(S, "missed")

\* One statement over a batch.  SKIP LOCKED and LIMIT leave some rows out.
ExpireRinging(S) ==
    /\ S # {}
    /\ \A c \in S : calls[c].status = "ringing" /\ calls[c].expired
    /\ Finish(S, "missed")

-----------------------------------------------------------------------------
(* block_user, unblock_user *)

\* Both advisory locks, then the cursor over the pair's active calls is opened.
\* The block row it has written is not visible before the commit.
BlockRead(u, v) ==
    /\ u # v
    /\ ~Locked(u) /\ ~Locked(v)
    /\ blocking' = blocking \cup
         {[by |-> u, target |-> v,
           seen |-> {c \in Calls : Active(c) /\ PairOf(c) = {u, v}}]}
    /\ UNCHANGED <<table, social, starting, unfriending, replies>>

\* Deviations: the loop forgets the claims; the loop forgets the cleanup rows.
BlockCommitKeepsClaims(b) ==
    /\ b \in blocking
    /\ blocks' = blocks \cup {<<b.by, b.target>>}
    /\ calls' = [c \in Calls |->
                    IF c \in b.seen /\ Exists(c)
                    THEN Over(calls[c], "ended") ELSE calls[c]]
    /\ outbox' = [c \in Calls |-> outbox[c] + IF c \in b.seen THEN 1 ELSE 0]
    /\ blocking' = blocking \ {b}
    /\ UNCHANGED <<claims, friends, dms, starting, unfriending, replies>>
BlockCommitNoCleanup(b) ==
    /\ b \in blocking
    /\ blocks' = blocks \cup {<<b.by, b.target>>}
    /\ calls' = [c \in Calls |->
                    IF c \in b.seen /\ Exists(c)
                    THEN Over(calls[c], "ended") ELSE calls[c]]
    /\ claims' = Released(b.seen)
    /\ blocking' = blocking \ {b}
    /\ UNCHANGED <<outbox, friends, dms, starting, unfriending, replies>>

\* The loop updates by id only: a call that ended meanwhile is ended again, and
\* a cleanup row is written even for a call whose row is gone.
BlockCommit(b) ==
    /\ b \in blocking
    /\ blocks' = blocks \cup {<<b.by, b.target>>}
    /\ calls' = [c \in Calls |->
                    IF c \in b.seen /\ Exists(c)
                    THEN Over(calls[c], "ended") ELSE calls[c]]
    /\ claims' = Released(b.seen)
    /\ outbox' = [c \in Calls |-> outbox[c] + IF c \in b.seen THEN 1 ELSE 0]
    /\ blocking' = blocking \ {b}
    /\ UNCHANGED <<friends, dms, starting, unfriending, replies>>

BlockAbort(b) ==
    /\ b \in blocking
    /\ blocking' = blocking \ {b}
    /\ UNCHANGED <<table, social, starting, unfriending, replies>>

Unblock(u, v) ==
    /\ <<u, v>> \in blocks
    /\ ~Locked(u) /\ ~Locked(v)
    /\ blocks' = blocks \ {<<u, v>>}
    /\ UNCHANGED <<table, friends, dms, inFlight, replies>>

-----------------------------------------------------------------------------
(* Friendships and DM conversations *)

\* acceptRequest: the update fires the trigger check_friendship_not_blocked,
\* which takes both advisory locks and refuses a blocked pair.
AcceptFriend(u, v) ==
    /\ u # v
    /\ {u, v} \notin friends
    /\ ~Locked(u) /\ ~Locked(v)
    /\ ~BlockedPair(u, v)
    /\ friends' = friends \cup {{u, v}}
    /\ UNCHANGED <<table, blocks, dms, inFlight, replies>>

\* get_or_create_dm_conversation, under the same locks and block check.
OpenDm(u, v) ==
    /\ u # v
    /\ {u, v} \notin dms
    /\ ~Locked(u) /\ ~Locked(v)
    /\ ~BlockedPair(u, v)
    /\ dms' = dms \cup {{u, v}}
    /\ UNCHANGED <<table, friends, blocks, inFlight, replies>>

\* removeFriend, first statement: no advisory lock, no look at the calls.
RemoveFriend(p) ==
    /\ p \in friends
    /\ friends' = friends \ {p}
    /\ unfriending' = unfriending \cup {p}
    /\ UNCHANGED <<table, blocks, dms, starting, blocking, replies>>

\* The conversation goes, its calls and their claims go with it (on delete
\* cascade), and no cleanup row is written.
DropDm(p) ==
    /\ dms' = dms \ {p}
    /\ LET doomed == {c \in Calls : Exists(c) /\ PairOf(c) = p}
       IN  /\ calls' = [c \in Calls |->
                           IF c \in doomed THEN [calls[c] EXCEPT !.status = "gone"]
                           ELSE calls[c]]
           /\ claims' = Released(doomed)
    /\ outbox' = outbox

\* removeFriend, second statement.
DeleteDm(p) ==
    /\ p \in unfriending
    /\ unfriending' = unfriending \ {p}
    /\ DropDm(p)
    /\ UNCHANGED <<friends, blocks, starting, blocking, replies>>

\* declineRequest: any member may, whatever the state of the request.
DeclineRequest(p) ==
    /\ p \in dms
    /\ DropDm(p)
    /\ UNCHANGED <<friends, blocks, inFlight, replies>>

\* removeFriend, second statement failed: the error is logged and dropped.
DeleteDmFails(p) ==
    /\ p \in unfriending
    /\ unfriending' = unfriending \ {p}
    /\ UNCHANGED <<table, social, starting, blocking, replies>>

-----------------------------------------------------------------------------

Next ==
    \/ \E u, v \in Users : \/ StartCheck(u, v) \/ BlockRead(u, v)
                           \/ Unblock(u, v) \/ AcceptFriend(u, v) \/ OpenDm(u, v)
    \/ \E t \in starting : StartAbort(t) \/ \E c \in Calls : StartInsert(t, c)
    \/ \E b \in blocking : BlockCommit(b) \/ BlockAbort(b)
    \/ \E u \in Users, c \in Calls :
          \/ Decline(u, c) \/ Cancel(u, c) \/ End(u, c) \/ AnswerExpired(u, c)
          \/ \E s \in Sessions : Answer(u, c, s) \/ AnswerAgain(u, c, s)
    \/ \E c \in Calls : MarkConnected(c) \/ RingTimeout(c)
    \/ \E S \in SUBSET Calls : ExpireRinging(S)
    \/ \E p \in friends : RemoveFriend(p)
    \/ \E p \in unfriending : DeleteDm(p) \/ DeleteDmFails(p)
    \/ \E p \in dms : DeclineRequest(p)

Spec == Init /\ [][Next]_vars

\* Time passes, and the expiry worker's five-second timer keeps running: as
\* long as a call is due, some batch takes it in.
FairSpec ==
    /\ Spec
    /\ \A c \in Calls : WF_vars(RingTimeout(c))
    /\ \A c \in Calls : WF_vars(\E S \in SUBSET Calls : c \in S /\ ExpireRinging(S))

-----------------------------------------------------------------------------
(* Properties *)

\* Every variable has its type, and a row that exists names its two users.
TypeOK ==
    /\ calls \in [Calls -> CallRow]
    /\ \A c \in Calls : calls[c].status # "unused" =>
          /\ calls[c].caller \in Users /\ calls[c].callee \in Users
          /\ calls[c].caller # calls[c].callee
    /\ claims \in [Users -> Calls \cup {NoCall}]
    /\ outbox \in [Calls -> Nat]
    /\ friends \subseteq Pairs /\ dms \subseteq Pairs /\ unfriending \subseteq Pairs
    /\ blocks \subseteq Users \X Users
    /\ starting \subseteq StartTxn
    /\ blocking \subseteq BlockTxn
    /\ joined \in [Calls -> SUBSET Sessions]
    /\ toldExpired \subseteq Calls

\* The busy table and the call table agree: a user is claimed by a call exactly
\* when that call is active and the user is one of its two ends.  Six
\* procedures and a cascade keep it, none of which reads both tables.
ClaimsMatchActiveCalls ==
    \A u \in Users, c \in Calls :
        claims[u] = c <=> Active(c) /\ u \in PairOf(c)

\* What the claim table is for: nobody is in two active calls at once.
OneActiveCallPerUser ==
    \A c, d \in Calls :
        c # d /\ Active(c) /\ Active(d) => PairOf(c) \cap PairOf(d) = {}

\* A finished call whose row is still there has a cleanup job for its room,
\* whichever of decline, cancel, end, expiry and block finished it.
FinishedCallsHaveCleanup ==
    \A c \in Calls : Terminal(c) => outbox[c] > 0

\* Once a block is committed no call between the two is active, although
\* block_user reads the calls without locking them and start_direct_call
\* checks for a block before it inserts.
NoActiveCallBetweenBlocked ==
    \A u, v \in Users :
        <<u, v>> \in blocks => \A c \in Calls : Active(c) => PairOf(c) # {u, v}

\* Of all the sessions a callee answers from, at most one is ever told to join
\* the media, through lost replies, retries and races.
OneMediaSession ==
    \A c \in Calls : \A s, t \in joined[c] : s = t

\* A call that has left ringing/accepted never comes back to them, and an
\* accepted call never rings again or becomes missed.
ActiveOnlyOnce ==
    [][\A c \in Calls :
          /\ Active(c)' => Active(c) \/ calls[c].status = "unused"
          /\ calls[c].status = "accepted" =>
                calls'[c].status \notin {"ringing", "missed"}]_vars

\* The version counts the updates of a row one by one, so two different states
\* of a call a client may be sent never carry the same version.
VersionCountsUpdates ==
    [][\A c \in Calls :
          LET seen == {"status", "answered", "connected"} IN
          Exists(c) /\ Exists(c)' /\ (\E f \in seen : calls'[c][f] # calls[c][f])
             => calls'[c].version = calls[c].version + 1]_vars

\* A ringing call does not ring for ever, nor keep its two users busy.
RingingIsResolved ==
    \A c \in Calls :
        calls[c].status = "ringing" ~> calls[c].status # "ringing"

(* Strengthenings the proofs rest on. *)

\* No user is in two transactions that hold advisory locks.
LocksExclude ==
    \A t \in starting, b \in blocking :
        {t.caller, t.callee} \cap {b.by, b.target} = {}

\* A start past its checks is still between two users with no block.
StartsUnblocked ==
    \A t \in starting : ~BlockedPair(t.caller, t.callee)

\* The cursor of a block_user in flight has every active call of its pair.
BlockSeesActiveCalls ==
    \A b \in blocking, c \in Calls :
        Active(c) /\ PairOf(c) = {b.by, b.target} => c \in b.seen

\* Only the session that answered is told to join, and nobody before that.
JoinedIsAnswered ==
    \A c \in Calls :
        /\ joined[c] \subseteq {calls[c].answered}
        /\ calls[c].status \in {"unused", "ringing"} => joined[c] = {}
============================================================================
