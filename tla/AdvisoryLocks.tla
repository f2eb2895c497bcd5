--------------------------- MODULE AdvisoryLocks ---------------------------
(***************************************************************************)
(* The locking protocol shared by start_direct_call, block_user,           *)
(* unblock_user, the trigger check_friendship_not_blocked,                 *)
(* create_conversation_message (in a DM) and                           *)
(* get_or_create_dm_conversation.  Each works on two users; it orders them *)
(* by uuid and calls pg_advisory_xact_lock(hashtext(uuid)) on the lesser,  *)
(* then on the greater.  A lock is held to the end of the transaction, a   *)
(* transaction may take a lock it already has, and the key of a lock is a  *)
(* 32-bit hash: two users may share one.                                   *)
(***************************************************************************)
EXTENDS Naturals

CONSTANTS
    Users,      \* uuids, which are numbers of a fixed width
    LastUuid,   \* the greatest of them
    Keys,       \* lock keys
    Hash,       \* hashtext: of a user, the key of its lock
    Txns,       \* transactions (connections)
    NoTxn

ASSUME LockAssumption ==
    /\ LastUuid \in Nat /\ Users \subseteq 0 .. LastUuid
    /\ Hash \in [Users -> Keys]
    /\ NoTxn \notin Txns

VARIABLES
    step,       \* of a transaction: where it is
    low, high,  \* of a transaction: least and greatest of its two users
    owner       \* of a key: the transaction that holds its lock

lockVars == <<step, low, high, owner>>

LockInit ==
    /\ step = [t \in Txns |-> "idle"]
    /\ low = [t \in Txns |-> 0]
    /\ high = [t \in Txns |-> 0]
    /\ owner = [k \in Keys |-> NoTxn]

\* Deviation: the users are locked in the order they are passed in.
BeginAsPassed(t, u, v) ==
    /\ step[t] = "idle" /\ u # v
    /\ step' = [step EXCEPT ![t] = "first"]
    /\ low' = [low EXCEPT ![t] = u]
    /\ high' = [high EXCEPT ![t] = v]
    /\ UNCHANGED owner

\* least() and greatest() of the two users.
Begin(t, u, v) ==
    /\ step[t] = "idle" /\ u < v
    /\ step' = [step EXCEPT ![t] = "first"]
    /\ low' = [low EXCEPT ![t] = u]
    /\ high' = [high EXCEPT ![t] = v]
    /\ UNCHANGED owner

\* A transaction-level advisory lock is free, or already the transaction's own.
Free(t, k) == owner[k] \in {NoTxn, t}

LockFirst(t) ==
    /\ step[t] = "first" /\ Free(t, Hash[low[t]])
    /\ owner' = [owner EXCEPT ![Hash[low[t]]] = t]
    /\ step' = [step EXCEPT ![t] = "second"]
    /\ UNCHANGED <<low, high>>

\* Deviation: the second lock is tried, not waited for.
TrySecond(t) ==
    /\ step[t] = "second"
    /\ owner' = [owner EXCEPT ![Hash[high[t]]] = IF Free(t, Hash[high[t]]) THEN t ELSE @]
    /\ step' = [step EXCEPT ![t] = "inside"]
    /\ UNCHANGED <<low, high>>

LockSecond(t) ==
    /\ step[t] = "second" /\ Free(t, Hash[high[t]])
    /\ owner' = [owner EXCEPT ![Hash[high[t]]] = t]
    /\ step' = [step EXCEPT ![t] = "inside"]
    /\ UNCHANGED <<low, high>>

\* The transaction ends and its users are forgotten.
Ends(t) ==
    /\ step' = [step EXCEPT ![t] = "idle"]
    /\ low' = [low EXCEPT ![t] = 0]
    /\ high' = [high EXCEPT ![t] = 0]

Released(t) == [k \in Keys |-> IF owner[k] = t THEN NoTxn ELSE owner[k]]

\* Deviation: only the second lock is given back.
CommitKeepsFirst(t) ==
    /\ step[t] = "inside"
    /\ Ends(t)
    /\ owner' = [owner EXCEPT ![Hash[high[t]]] = NoTxn]

\* The work is done; every lock of the transaction goes with its end.
Commit(t) ==
    /\ step[t] = "inside"
    /\ Ends(t)
    /\ owner' = Released(t)

\* The transaction fails on the way: a statement timeout, a lost connection, a
\* deadlock found by the server.
Abort(t) ==
    /\ step[t] \in {"first", "second"}
    /\ Ends(t)
    /\ owner' = Released(t)

LockNext ==
    \E t \in Txns : \/ \E u, v \in Users : Begin(t, u, v)
                    \/ LockFirst(t) \/ LockSecond(t) \/ Commit(t) \/ Abort(t)

LockSpec == LockInit /\ [][LockNext]_lockVars

\* The user whose lock a transaction asks for, and the one in its way.
Waiting(t) == step[t] \in {"first", "second"}
Wanted(t) == IF step[t] = "first" THEN low[t] ELSE high[t]
WaitsFor(t, s) == Waiting(t) /\ s # t /\ owner[Hash[Wanted(t)]] = s

\* Transactions each of which waits for one of them: a deadlock.
Circle(S) == S # {} /\ \A t \in S : \E s \in S : WaitsFor(t, s)

\* The server's deadlock detector fails one of those that wait in a circle.
BreakCircle ==
    \E S \in SUBSET Txns :
        /\ Circle(S) /\ \A s \in S : \E t \in S : WaitsFor(t, s)
        /\ \E t \in S : Abort(t)

\* Transactions finish their work, a lock that comes free again and again is
\* granted in turn (the server queues its waiters), and a deadlock is found
\* (after deadlock_timeout).
LockFairSpec ==
    /\ LockSpec
    /\ \A t \in Txns : WF_lockVars(Commit(t)) /\ SF_lockVars(LockFirst(t)) /\ SF_lockVars(LockSecond(t))
    /\ WF_lockVars(BreakCircle)

-----------------------------------------------------------------------------
(* Properties *)

\* Every variable has its type, and a transaction under way is about two users
\* in the order of their uuids.
LockTypeOK ==
    /\ step \in [Txns -> {"idle", "first", "second", "inside"}]
    /\ low \in [Txns -> Nat] /\ high \in [Txns -> Nat]
    /\ owner \in [Keys -> Txns \cup {NoTxn}]
    /\ \A t \in Txns : step[t] # "idle" =>
          low[t] \in Users /\ high[t] \in Users /\ low[t] < high[t]

\* Two locks, taken one after the other under keys that may collide, are one
\* atomic lock on the pair of users.
Inside(t) == IF step[t] = "inside" THEN {low[t], high[t]} ELSE {}
Atomic == INSTANCE PairLocks WITH inside <- [t \in Txns |-> Inside(t)]
OneLockPerPair == Atomic!Spec

\* "chống deadlock": the code takes the locks in the order of the uuids against
\* deadlock.  The order is of users and the locks are on 32-bit hashes of them,
\* so it does not exclude a circle: transactions wait in a circle only through
\* two different users that share a key, and never through the order alone.
CirclesCollide ==
    \A S \in SUBSET Txns : Circle(S) =>
        \E t, s \in S : /\ WaitsFor(t, s)
                        /\ Wanted(t) # low[s] /\ Hash[Wanted(t)] = Hash[low[s]]

\* Whoever waits for its locks gets them, or fails; where keys collide and the
\* order lets a circle form, one of those in it fails and the others go on.
WaitersGetIn == \A t \in Txns : Waiting(t) ~> ~Waiting(t)

(* Strengthening the proofs rest on. *)

\* The lock table and the progress of the transactions agree.
Holds(t, k) ==
    \/ step[t] \in {"second", "inside"} /\ k = Hash[low[t]]
    \/ step[t] = "inside" /\ k = Hash[high[t]]
OwnersHold == \A k \in Keys, t \in Txns : owner[k] = t <=> Holds(t, k)

============================================================================
