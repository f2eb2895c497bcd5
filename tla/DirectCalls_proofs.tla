-------------------------- MODULE DirectCalls_proofs --------------------------
(***************************************************************************)
(* Proofs about DirectCalls for any sets of users, call ids and sessions.  *)
(***************************************************************************)
EXTENDS DirectCalls, TLAPS

-------------------------------------------------------------------------------
(* What the update that finishes a call does to one row and to the tables.    *)

LEMMA OverRow ==
  ASSUME NEW r \in CallRow, NEW status \in CallStatus
  PROVE  /\ Over(r, status) \in CallRow
         /\ Over(r, status).status = status
         /\ Over(r, status).caller = r.caller
         /\ Over(r, status).callee = r.callee
         /\ Over(r, status).answered = r.answered
         /\ Over(r, status).connected = r.connected
         /\ Over(r, status).version = r.version + 1
<1>1. r.version + 1 \in Nat
  BY DEF CallRow
<1>2. [r EXCEPT !.status = status] \in CallRow
  BY DEF CallRow
<1>3. [[r EXCEPT !.status = status] EXCEPT !.version = r.version + 1] \in CallRow
  BY <1>1, <1>2 DEF CallRow
<1> QED
  BY <1>3 DEF Over, CallRow

LEMMA AcceptedRow ==
  ASSUME NEW r \in CallRow, NEW s \in Sessions
  PROVE  /\ Accepted(r, s) \in CallRow
         /\ Accepted(r, s).status = "accepted"
         /\ Accepted(r, s).caller = r.caller
         /\ Accepted(r, s).callee = r.callee
         /\ Accepted(r, s).answered = s
         /\ Accepted(r, s).connected = r.connected
         /\ Accepted(r, s).version = r.version + 1
<1>1. r.version + 1 \in Nat
  BY DEF CallRow
<1>2. [r EXCEPT !.status = "accepted"] \in CallRow
  BY DEF CallRow, CallStatus, ActiveStatus
<1>3. [[r EXCEPT !.status = "accepted"] EXCEPT !.answered = s] \in CallRow
  BY <1>2 DEF CallRow
<1>4. [[[r EXCEPT !.status = "accepted"] EXCEPT !.answered = s]
          EXCEPT !.version = r.version + 1] \in CallRow
  BY <1>1, <1>3 DEF CallRow
<1> QED
  BY <1>4 DEF Accepted, CallRow

LEMMA ConnectedRow ==
  ASSUME NEW r \in CallRow
  PROVE  /\ Connected(r) \in CallRow
         /\ Connected(r).status = r.status
         /\ Connected(r).caller = r.caller
         /\ Connected(r).callee = r.callee
         /\ Connected(r).answered = r.answered
         /\ Connected(r).version = r.version + 1
<1>1. r.version + 1 \in Nat
  BY DEF CallRow
<1>2. [r EXCEPT !.connected = TRUE] \in CallRow
  BY DEF CallRow
<1>3. [[r EXCEPT !.connected = TRUE] EXCEPT !.version = r.version + 1] \in CallRow
  BY <1>1, <1>2 DEF CallRow
<1> QED
  BY <1>3 DEF Connected, CallRow

\* Finishing some existing calls: which rows change, and how.
LEMMA OverRows ==
  ASSUME TypeOK, NEW S, NEW status \in TerminalStatus,
         \A c \in Calls : c \in S => Exists(c),
         calls' = [c \in Calls |-> IF c \in S THEN Over(calls[c], status) ELSE calls[c]]
  PROVE  /\ calls' \in [Calls -> CallRow]
         /\ \A c \in Calls : c \notin S => calls'[c] = calls[c]
         /\ \A c \in S \cap Calls :
              /\ calls'[c].status = status
              /\ calls'[c].caller = calls[c].caller
              /\ calls'[c].callee = calls[c].callee
              /\ calls'[c].answered = calls[c].answered
              /\ calls'[c].connected = calls[c].connected
              /\ calls'[c].version = calls[c].version + 1
         /\ \A c \in Calls : calls'[c].status # "unused" =>
              /\ calls'[c].caller \in Users /\ calls'[c].callee \in Users
              /\ calls'[c].caller # calls'[c].callee
<1>1. status \in CallStatus
  BY DEF CallStatus
<1>2. \A c \in Calls : calls[c] \in CallRow
  BY DEF TypeOK
<1>3. \A c \in Calls : c \in S => calls'[c] = Over(calls[c], status)
  OBVIOUS
<1>4. \A c \in Calls : c \notin S => calls'[c] = calls[c]
  OBVIOUS
<1>5. \A c \in Calls : calls'[c] \in CallRow
  BY <1>1, <1>2, <1>3, <1>4, OverRow
<1>6. \A c \in Calls : c \in S => calls[c].status # "unused"
  BY DEF Exists, Active, Terminal, ActiveStatus, TerminalStatus
<1>7. \A c \in S \cap Calls :
        /\ calls'[c].status = status
        /\ calls'[c].caller = calls[c].caller
        /\ calls'[c].callee = calls[c].callee
        /\ calls'[c].answered = calls[c].answered
        /\ calls'[c].connected = calls[c].connected
        /\ calls'[c].version = calls[c].version + 1
  BY <1>1, <1>2, <1>3, OverRow
<1>8. calls' \in [Calls -> CallRow]
  BY <1>5
<1>9. \A c \in Calls : calls'[c].status # "unused" =>
        /\ calls'[c].caller \in Users /\ calls'[c].callee \in Users
        /\ calls'[c].caller # calls'[c].callee
  BY <1>4, <1>6, <1>7 DEF TypeOK
<1> QED
  BY <1>4, <1>7, <1>8, <1>9

LEMMA ReleasedType ==
  ASSUME TypeOK, NEW S
  PROVE  Released(S) \in [Users -> Calls \cup {NoCall}]
  BY DEF TypeOK, Released

-------------------------------------------------------------------------------
(* TypeOK, which is inductive by itself.                                      *)

LEMMA InitTypeOK == Init => TypeOK
  BY NullsAreNotValues DEF Init, TypeOK, CallRow, NoRow, CallStatus, Pairs, StartTxn, BlockTxn

LEMMA FinishTypeOK ==
  ASSUME TypeOK, NEW S \in SUBSET Calls, NEW status \in TerminalStatus,
         \A c \in S : Exists(c), Finish(S, status)
  PROVE  TypeOK'
<1>1. calls' = [c \in Calls |-> IF c \in S THEN Over(calls[c], status) ELSE calls[c]]
  BY DEF Finish
<1>2. /\ calls' \in [Calls -> CallRow]
      /\ \A c \in Calls : calls'[c].status # "unused" =>
           /\ calls'[c].caller \in Users /\ calls'[c].callee \in Users
           /\ calls'[c].caller # calls'[c].callee
  BY <1>1, OverRows
<1>3. claims' \in [Users -> Calls \cup {NoCall}]
  BY ReleasedType DEF Finish
<1>4. outbox' \in [Calls -> Nat]
  BY DEF TypeOK, Finish
<1> QED
  BY <1>2, <1>3, <1>4 DEF TypeOK, Finish, social, inFlight, replies

LEMMA BlockCommitTypeOK ==
  ASSUME TypeOK, NEW b \in blocking, BlockCommit(b)
  PROVE  TypeOK'
<1> DEFINE S == {c \in b.seen : Exists(c)}
<1>1. b \in BlockTxn
  BY DEF TypeOK
<1>2. calls' = [c \in Calls |-> IF c \in S THEN Over(calls[c], "ended") ELSE calls[c]]
  BY DEF BlockCommit
<1>3. /\ calls' \in [Calls -> CallRow]
      /\ \A c \in Calls : calls'[c].status # "unused" =>
           /\ calls'[c].caller \in Users /\ calls'[c].callee \in Users
           /\ calls'[c].caller # calls'[c].callee
  <2> HIDE DEF S
  <2>1. \A c \in Calls : c \in S => Exists(c)
    BY DEF S
  <2> QED
    BY <1>2, <2>1, OverRows DEF TerminalStatus
<1>4. claims' \in [Users -> Calls \cup {NoCall}]
  BY ReleasedType DEF BlockCommit
<1>5. outbox' \in [Calls -> Nat]
  BY DEF TypeOK, BlockCommit
<1>6. blocks' \subseteq Users \X Users
  BY <1>1 DEF TypeOK, BlockCommit, BlockTxn
<1> QED
  BY <1>3, <1>4, <1>5, <1>6 DEF TypeOK, BlockCommit, replies

LEMMA DropDmTypes ==
  ASSUME TypeOK, NEW p, DropDm(p)
  PROVE  /\ calls' \in [Calls -> CallRow]
         /\ \A c \in Calls : calls'[c].status # "unused" =>
              /\ calls'[c].caller \in Users /\ calls'[c].callee \in Users
              /\ calls'[c].caller # calls'[c].callee
         /\ claims' \in [Users -> Calls \cup {NoCall}]
<1> DEFINE doomed == {c \in Calls : Exists(c) /\ PairOf(c) = p}
<1>1. /\ calls' = [c \in Calls |-> IF c \in doomed THEN [calls[c] EXCEPT !.status = "gone"]
                                                  ELSE calls[c]]
      /\ claims' = Released(doomed)
  BY DEF DropDm
<1>2. \A c \in doomed : calls[c].status # "unused"
  BY DEF Exists, Active, Terminal, ActiveStatus, TerminalStatus
<1> HIDE DEF doomed
<1>3. \A c \in Calls : calls'[c] \in CallRow
  BY <1>1 DEF TypeOK, CallRow, CallStatus
<1>4. \A c \in Calls : /\ calls'[c].caller = calls[c].caller
                       /\ calls'[c].callee = calls[c].callee
                       /\ calls[c].status = "unused" => calls'[c].status = "unused"
  BY <1>1, <1>2 DEF TypeOK, CallRow
<1>5. claims' \in [Users -> Calls \cup {NoCall}]
  BY <1>1, ReleasedType
<1> QED
  BY <1>1, <1>3, <1>4, <1>5 DEF TypeOK

LEMMA NextTypeOK == TypeOK /\ [Next]_vars => TypeOK'
<1> SUFFICES ASSUME TypeOK, [Next]_vars PROVE TypeOK'
  OBVIOUS
<1> USE DEF table, social, inFlight, replies
<1>1. ASSUME NEW u \in Users, NEW v \in Users, StartCheck(u, v)
      PROVE  TypeOK'
  BY <1>1 DEF TypeOK, StartCheck, StartTxn
<1>2. ASSUME NEW u \in Users, NEW v \in Users, BlockRead(u, v)
      PROVE  TypeOK'
  BY <1>2 DEF TypeOK, BlockRead, BlockTxn
<1>3. ASSUME NEW u \in Users, NEW v \in Users, Unblock(u, v)
      PROVE  TypeOK'
  BY <1>3 DEF TypeOK, Unblock
<1>4. ASSUME NEW u \in Users, NEW v \in Users, AcceptFriend(u, v) \/ OpenDm(u, v)
      PROVE  TypeOK'
  BY <1>4 DEF TypeOK, AcceptFriend, OpenDm, Pairs
<1>5. ASSUME NEW t \in starting, StartAbort(t)
      PROVE  TypeOK'
  BY <1>5 DEF TypeOK, StartAbort
<1>6. ASSUME NEW t \in starting, NEW c \in Calls, StartInsert(t, c)
      PROVE  TypeOK'
  <2>1. t.caller \in Users /\ t.callee \in Users /\ t.caller # t.callee
    BY DEF TypeOK, StartTxn
  <2>2. NewCall(t.caller, t.callee) \in CallRow
    BY <2>1 DEF NewCall, CallRow, CallStatus, ActiveStatus
  <2> QED
    BY <1>6, <2>1, <2>2 DEF TypeOK, StartInsert, NewCall
<1>7. ASSUME NEW b \in blocking, BlockCommit(b) \/ BlockAbort(b)
      PROVE  TypeOK'
  BY <1>7, BlockCommitTypeOK DEF TypeOK, BlockAbort
<1>8. ASSUME NEW u \in Users, NEW c \in Calls, Decline(u, c) \/ Cancel(u, c) \/ End(u, c)
      PROVE  TypeOK'
  BY <1>8, FinishTypeOK DEF Decline, Cancel, End, Exists, TerminalStatus
<1>9. ASSUME NEW u \in Users, NEW c \in Calls, AnswerExpired(u, c)
      PROVE  TypeOK'
  BY <1>9 DEF TypeOK, AnswerExpired
<1>10. ASSUME NEW u \in Users, NEW c \in Calls, NEW s \in Sessions, Answer(u, c, s)
       PROVE  TypeOK'
  <2>1. calls[c] \in CallRow /\ calls[c].status # "unused"
    BY <1>10 DEF TypeOK, Answer
  <2>2. /\ calls' = [calls EXCEPT ![c] = Accepted(calls[c], s)]
        /\ calls \in [Calls -> CallRow]
    BY <1>10 DEF TypeOK, Answer
  <2>3. /\ Accepted(calls[c], s) \in CallRow
        /\ Accepted(calls[c], s).caller = calls[c].caller
        /\ Accepted(calls[c], s).callee = calls[c].callee
    BY <2>1, AcceptedRow
  <2>4. calls' \in [Calls -> CallRow]
    BY <2>2, <2>3
  <2>5. \A d \in Calls : /\ calls'[d].caller = calls[d].caller
                         /\ calls'[d].callee = calls[d].callee
                         /\ calls[d].status = "unused" => calls'[d].status = "unused"
    BY <2>1, <2>2, <2>3
  <2>6. joined' \in [Calls -> SUBSET Sessions]
    BY <1>10 DEF TypeOK, Answer
  <2> QED
    BY <1>10, <2>6, <2>4, <2>5 DEF TypeOK, Answer
<1>11. ASSUME NEW u \in Users, NEW c \in Calls, NEW s \in Sessions, AnswerAgain(u, c, s)
       PROVE  TypeOK'
  BY <1>11 DEF TypeOK, AnswerAgain
<1>12. ASSUME NEW c \in Calls, MarkConnected(c)
       PROVE  TypeOK'
  <2>1. calls[c] \in CallRow /\ calls \in [Calls -> CallRow]
    BY DEF TypeOK
  <2>2. calls' = [calls EXCEPT ![c] = Connected(calls[c])]
    BY <1>12 DEF MarkConnected
  <2>3. /\ Connected(calls[c]) \in CallRow
        /\ Connected(calls[c]).caller = calls[c].caller
        /\ Connected(calls[c]).callee = calls[c].callee
        /\ Connected(calls[c]).status = calls[c].status
    BY <2>1, ConnectedRow
  <2>4. calls' \in [Calls -> CallRow]
    BY <2>1, <2>2, <2>3
  <2>5. \A d \in Calls : /\ calls'[d].caller = calls[d].caller
                         /\ calls'[d].callee = calls[d].callee
                         /\ calls'[d].status = calls[d].status
    BY <2>1, <2>2, <2>3
  <2> QED
    BY <1>12, <2>4, <2>5 DEF TypeOK, MarkConnected
<1>13. ASSUME NEW c \in Calls, RingTimeout(c)
       PROVE  TypeOK'
  <2>1. calls[c] \in CallRow /\ calls \in [Calls -> CallRow]
    BY DEF TypeOK
  <2>2. calls' = [calls EXCEPT ![c] = [calls[c] EXCEPT !.expired = TRUE]]
    BY <1>13 DEF RingTimeout
  <2>3. [calls[c] EXCEPT !.expired = TRUE] \in CallRow
    BY <2>1 DEF CallRow
  <2>4. calls' \in [Calls -> CallRow]
    BY <2>1, <2>2, <2>3
  <2>5. \A d \in Calls : /\ calls'[d].caller = calls[d].caller
                         /\ calls'[d].callee = calls[d].callee
                         /\ calls'[d].status = calls[d].status
    BY <2>1, <2>2 DEF CallRow
  <2> QED
    BY <1>13, <2>4, <2>5 DEF TypeOK, RingTimeout
<1>14. ASSUME NEW S \in SUBSET Calls, ExpireRinging(S)
       PROVE  TypeOK'
  BY <1>14, FinishTypeOK DEF ExpireRinging, Exists, Active, ActiveStatus, TerminalStatus
<1>15. ASSUME NEW p \in friends, RemoveFriend(p)
       PROVE  TypeOK'
  BY <1>15 DEF TypeOK, RemoveFriend
<1>16. ASSUME NEW p, DeleteDm(p) \/ DeclineRequest(p)
       PROVE  TypeOK'
  <2>1. DropDm(p)
    BY <1>16 DEF DeleteDm, DeclineRequest
  <2>2. /\ calls' \in [Calls -> CallRow]
        /\ \A c \in Calls : calls'[c].status # "unused" =>
             /\ calls'[c].caller \in Users /\ calls'[c].callee \in Users
             /\ calls'[c].caller # calls'[c].callee
        /\ claims' \in [Users -> Calls \cup {NoCall}]
    BY <2>1, DropDmTypes
  <2> QED
    BY <1>16, <2>1, <2>2 DEF TypeOK, DropDm, DeleteDm, DeclineRequest
<1>17. ASSUME NEW p \in unfriending, DeleteDmFails(p)
       PROVE  TypeOK'
  BY <1>17 DEF TypeOK, DeleteDmFails
<1>18. ASSUME UNCHANGED vars
       PROVE  TypeOK'
  BY <1>18 DEF TypeOK, vars
<1> QED
  BY <1>1, <1>2, <1>3, <1>4, <1>5, <1>6, <1>7, <1>8, <1>9, <1>10, <1>11, <1>12, <1>14,
     <1>15, <1>16, <1>17, <1>18, <1>13 DEF Next

\* Every variable keeps its type, and a call that was ever made names two users.
THEOREM TypeCorrect == Spec => []TypeOK
  BY InitTypeOK, NextTypeOK, PTL DEF Spec

-------------------------------------------------------------------------------
(* Four kinds of steps, told apart by what they do to the call and claim      *)
(* tables: one that leaves every status alone, one that closes some calls,    *)
(* the insert of a new call, and the answer that accepts one.                 *)

Untouched ==
    /\ claims' = claims /\ outbox' = outbox
    /\ \A c \in Calls :
         /\ calls'[c].status = calls[c].status
         /\ calls'[c].caller = calls[c].caller
         /\ calls'[c].callee = calls[c].callee
         /\ calls'[c].answered = calls[c].answered

Closes(S) ==
    /\ claims' = Released(S)
    /\ \A c \in Calls :
         /\ calls'[c].caller = calls[c].caller
         /\ calls'[c].callee = calls[c].callee
         /\ calls'[c].answered = calls[c].answered
         /\ c \notin S => calls'[c].status = calls[c].status /\ outbox'[c] = outbox[c]
         /\ c \in S => /\ calls'[c].status \notin ActiveStatus
                       /\ calls'[c].status \in TerminalStatus => outbox'[c] > 0
                       /\ calls'[c].status = "unused" => calls[c].status = "unused"

LEMMA FinishCloses ==
  ASSUME TypeOK, NEW S \in SUBSET Calls, NEW status \in TerminalStatus,
         \A c \in S : Exists(c), Finish(S, status)
  PROVE  Closes(S)
<1>1. calls' = [c \in Calls |-> IF c \in S THEN Over(calls[c], status) ELSE calls[c]]
  BY DEF Finish
<1>2. /\ \A c \in Calls : c \notin S => calls'[c] = calls[c]
      /\ \A c \in S \cap Calls :
           /\ calls'[c].status = status
           /\ calls'[c].caller = calls[c].caller
           /\ calls'[c].callee = calls[c].callee
           /\ calls'[c].answered = calls[c].answered
  BY <1>1, OverRows
<1>3. \A c \in Calls : /\ c \in S => outbox'[c] > 0
                       /\ c \notin S => outbox'[c] = outbox[c]
  BY DEF Finish, TypeOK
<1>4. status \notin ActiveStatus /\ status # "unused"
  BY DEF TerminalStatus, ActiveStatus
<1>5. claims' = Released(S)
  BY DEF Finish
<1> QED
  BY <1>2, <1>3, <1>4, <1>5 DEF Closes

LEMMA BlockCommitCloses ==
  ASSUME TypeOK, NEW b \in blocking, BlockCommit(b)
  PROVE  b.seen \in SUBSET Calls /\ Closes(b.seen)
<1> DEFINE S == {c \in b.seen : Exists(c)}
<1>1. b.seen \in SUBSET Calls
  BY DEF TypeOK, BlockTxn
<1>2. calls' = [c \in Calls |-> IF c \in S THEN Over(calls[c], "ended") ELSE calls[c]]
  BY DEF BlockCommit
<1>3. \A c \in Calls : c \in S <=> c \in b.seen /\ Exists(c)
  OBVIOUS
<1> HIDE DEF S
<1>4. \A c \in Calls : c \in S => Exists(c)
  BY <1>3
<1>5. /\ \A c \in Calls : c \notin S => calls'[c] = calls[c]
      /\ \A c \in S \cap Calls :
           /\ calls'[c].status = "ended"
           /\ calls'[c].caller = calls[c].caller
           /\ calls'[c].callee = calls[c].callee
           /\ calls'[c].answered = calls[c].answered
  <2>1. "ended" \in TerminalStatus
    BY DEF TerminalStatus
  <2> QED
    BY <1>2, <1>4, <2>1, OverRows
<1>6. \A c \in Calls : /\ c \in b.seen => outbox'[c] > 0
                       /\ c \notin b.seen => outbox'[c] = outbox[c]
  BY DEF BlockCommit, TypeOK
<1>7. claims' = Released(b.seen)
  BY DEF BlockCommit
<1>8. \A c \in Calls : c \in b.seen => /\ calls'[c].status \notin ActiveStatus
                                       /\ calls'[c].status = "unused" => calls[c].status = "unused"
  <2> SUFFICES ASSUME NEW c \in Calls, c \in b.seen
               PROVE  /\ calls'[c].status \notin ActiveStatus
                      /\ calls'[c].status = "unused" => calls[c].status = "unused"
    OBVIOUS
  <2>1. CASE c \in S
    BY <2>1, <1>5 DEF ActiveStatus
  <2>2. CASE c \notin S
    BY <2>2, <1>3, <1>5 DEF Exists, Active
  <2> QED
    BY <2>1, <2>2
<1>9. \A c \in Calls : /\ calls'[c].caller = calls[c].caller
                       /\ calls'[c].callee = calls[c].callee
                       /\ calls'[c].answered = calls[c].answered
                       /\ c \notin b.seen => calls'[c].status = calls[c].status
  BY <1>3, <1>5
<1> QED
  BY <1>1, <1>6, <1>7, <1>8, <1>9 DEF Closes

LEMMA DropDmCloses ==
  ASSUME TypeOK, NEW p, DropDm(p)
  PROVE  \E S \in SUBSET Calls : Closes(S)
<1> DEFINE doomed == {c \in Calls : Exists(c) /\ PairOf(c) = p}
<1>1. /\ calls' = [c \in Calls |-> IF c \in doomed THEN [calls[c] EXCEPT !.status = "gone"]
                                                  ELSE calls[c]]
      /\ claims' = Released(doomed) /\ outbox' = outbox
  BY DEF DropDm
<1>2. doomed \in SUBSET Calls
  OBVIOUS
<1> HIDE DEF doomed
<1>3. \A c \in Calls : /\ calls'[c].caller = calls[c].caller
                       /\ calls'[c].callee = calls[c].callee
                       /\ calls'[c].answered = calls[c].answered
                       /\ c \in doomed => calls'[c].status = "gone"
                       /\ c \notin doomed => calls'[c].status = calls[c].status
  BY <1>1 DEF TypeOK, CallRow
<1>4. Closes(doomed)
  BY <1>1, <1>3 DEF Closes, ActiveStatus, TerminalStatus
<1> QED
  BY <1>2, <1>4

LEMMA StepKinds ==
  ASSUME TypeOK, [Next]_vars
  PROVE  \/ Untouched
         \/ \E S \in SUBSET Calls : Closes(S)
         \/ \E t \in starting, c \in Calls : StartInsert(t, c)
         \/ \E u \in Users, c \in Calls, s \in Sessions : Answer(u, c, s)
<1> USE DEF table, social, inFlight, replies
<1>1. ASSUME NEW u \in Users, NEW v \in Users,
             \/ StartCheck(u, v) \/ BlockRead(u, v) \/ Unblock(u, v)
             \/ AcceptFriend(u, v) \/ OpenDm(u, v)
      PROVE  Untouched
  BY <1>1 DEF Untouched, StartCheck, BlockRead, Unblock, AcceptFriend, OpenDm
<1>2. ASSUME NEW t \in starting, StartAbort(t)
      PROVE  Untouched
  BY <1>2 DEF Untouched, StartAbort
<1>3. ASSUME NEW b \in blocking, BlockAbort(b)
      PROVE  Untouched
  BY <1>3 DEF Untouched, BlockAbort
<1>4. ASSUME NEW b \in blocking, BlockCommit(b)
      PROVE  \E S \in SUBSET Calls : Closes(S)
  BY <1>4, BlockCommitCloses
<1>5. ASSUME NEW u \in Users, NEW c \in Calls, Decline(u, c) \/ Cancel(u, c) \/ End(u, c)
      PROVE  \E S \in SUBSET Calls : Closes(S)
  <2>1. \E status \in TerminalStatus : Finish({c}, status)
    BY <1>5 DEF Decline, Cancel, End, TerminalStatus
  <2>2. Exists(c)
    BY <1>5 DEF Decline, Cancel, End, Exists
  <2>3. Closes({c})
    BY <2>1, <2>2, FinishCloses
  <2> QED
    BY <2>3
<1>6. ASSUME NEW u \in Users, NEW c \in Calls, AnswerExpired(u, c)
      PROVE  Untouched
  BY <1>6 DEF Untouched, AnswerExpired
<1>7. ASSUME NEW u \in Users, NEW c \in Calls, NEW s \in Sessions, AnswerAgain(u, c, s)
      PROVE  Untouched
  BY <1>7 DEF Untouched, AnswerAgain
<1>8. ASSUME NEW c \in Calls, MarkConnected(c)
      PROVE  Untouched
  <2>1. calls[c] \in CallRow /\ calls \in [Calls -> CallRow]
    BY DEF TypeOK
  <2>2. calls' = [calls EXCEPT ![c] = Connected(calls[c])]
    BY <1>8 DEF MarkConnected
  <2>3. /\ Connected(calls[c]).caller = calls[c].caller
        /\ Connected(calls[c]).callee = calls[c].callee
        /\ Connected(calls[c]).status = calls[c].status
        /\ Connected(calls[c]).answered = calls[c].answered
    BY <2>1, ConnectedRow
  <2> QED
    BY <1>8, <2>1, <2>2, <2>3 DEF Untouched, MarkConnected
<1>9. ASSUME NEW c \in Calls, RingTimeout(c)
      PROVE  Untouched
  <2>1. calls' = [calls EXCEPT ![c] = [calls[c] EXCEPT !.expired = TRUE]]
    BY <1>9 DEF RingTimeout
  <2> QED
    BY <1>9, <2>1 DEF TypeOK, CallRow, Untouched, RingTimeout
<1>10. ASSUME NEW S \in SUBSET Calls, ExpireRinging(S)
       PROVE  Closes(S)
  BY <1>10, FinishCloses DEF ExpireRinging, Exists, Active, ActiveStatus, TerminalStatus
<1>11. ASSUME NEW p, RemoveFriend(p) \/ DeleteDmFails(p)
       PROVE  Untouched
  BY <1>11 DEF Untouched, RemoveFriend, DeleteDmFails
<1>12. ASSUME NEW p, DeleteDm(p) \/ DeclineRequest(p)
       PROVE  \E S \in SUBSET Calls : Closes(S)
  BY <1>12, DropDmCloses DEF DeleteDm, DeclineRequest
<1>13. ASSUME UNCHANGED vars
       PROVE  Untouched
  BY <1>13 DEF Untouched, vars
<1> QED
  BY <1>1, <1>2, <1>3, <1>4, <1>5, <1>6, <1>7, <1>8, <1>9, <1>10, <1>11, <1>12, <1>13 DEF Next

-------------------------------------------------------------------------------
(* The claim table mirrors the active calls.                                  *)

LEMMA NextClaims ==
  ASSUME TypeOK, ClaimsMatchActiveCalls, [Next]_vars
  PROVE  ClaimsMatchActiveCalls'
<1>1. CASE Untouched
  BY <1>1 DEF Untouched, ClaimsMatchActiveCalls, Active, PairOf
<1>2. ASSUME NEW S \in SUBSET Calls, Closes(S)
      PROVE  ClaimsMatchActiveCalls'
  <2> SUFFICES ASSUME NEW u \in Users, NEW c \in Calls
               PROVE  claims'[u] = c <=> /\ calls'[c].status \in ActiveStatus
                                         /\ u \in {calls'[c].caller, calls'[c].callee}
    BY DEF ClaimsMatchActiveCalls, Active, PairOf
  <2>1. claims'[u] = IF claims[u] \in S THEN NoCall ELSE claims[u]
    BY <1>2 DEF Closes, Released
  <2>2. claims[u] = c <=> /\ calls[c].status \in ActiveStatus
                          /\ u \in {calls[c].caller, calls[c].callee}
    BY DEF ClaimsMatchActiveCalls, Active, PairOf
  <2>3. CASE c \in S
    <3>1. calls'[c].status \notin ActiveStatus
      BY <1>2, <2>3 DEF Closes
    <3>2. claims'[u] # c
      BY <2>1, <2>3, NullsAreNotValues
    <3> QED
      BY <3>1, <3>2
  <2>4. CASE c \notin S
    <3>1. claims'[u] = c <=> claims[u] = c
      BY <2>1, <2>4, NullsAreNotValues
    <3> QED
      BY <1>2, <2>2, <2>4, <3>1 DEF Closes
  <2> QED
    BY <2>3, <2>4
<1>3. ASSUME NEW t \in starting, NEW c \in Calls, StartInsert(t, c)
      PROVE  ClaimsMatchActiveCalls'
  <2> DEFINE row == NewCall(t.caller, t.callee)
  <2>1. /\ calls' = [calls EXCEPT ![c] = row]
        /\ claims' = [claims EXCEPT ![t.caller] = c, ![t.callee] = c]
        /\ claims[t.caller] = NoCall /\ claims[t.callee] = NoCall
        /\ calls[c].status = "unused"
    BY <1>3 DEF StartInsert
  <2>2. row.status = "ringing" /\ row.caller = t.caller /\ row.callee = t.callee
    BY DEF NewCall
  <2> HIDE DEF row
  <2>3. t.caller \in Users /\ t.callee \in Users
    BY DEF TypeOK, StartTxn
  <2> SUFFICES ASSUME NEW u \in Users, NEW d \in Calls
               PROVE  claims'[u] = d <=> /\ calls'[d].status \in ActiveStatus
                                         /\ u \in {calls'[d].caller, calls'[d].callee}
    BY DEF ClaimsMatchActiveCalls, Active, PairOf
  <2>4. claims[u] = d <=> /\ calls[d].status \in ActiveStatus
                          /\ u \in {calls[d].caller, calls[d].callee}
    BY DEF ClaimsMatchActiveCalls, Active, PairOf
  <2>5. claims'[u] = IF u \in {t.caller, t.callee} THEN c ELSE claims[u]
    BY <2>1, <2>3 DEF TypeOK
  <2>6. CASE d = c
    <3>1. calls'[d] = row
      BY <2>1, <2>6 DEF TypeOK
    <3>2. claims[u] # c
      BY <2>1, <2>4, <2>6 DEF ActiveStatus
    <3> QED
      BY <2>2, <2>5, <2>6, <3>1, <3>2 DEF ActiveStatus
  <2>7. CASE d # c
    <3>1. calls'[d] = calls[d]
      BY <2>1, <2>7 DEF TypeOK
    <3>2. claims'[u] = d <=> claims[u] = d
      BY <2>1, <2>5, <2>7, NullsAreNotValues
    <3> QED
      BY <2>4, <3>1, <3>2
  <2> QED
    BY <2>6, <2>7
<1>4. ASSUME NEW u \in Users, NEW c \in Calls, NEW s \in Sessions, Answer(u, c, s)
      PROVE  ClaimsMatchActiveCalls'
  <2>1. /\ calls' = [calls EXCEPT ![c] = Accepted(calls[c], s)]
        /\ calls[c].status = "ringing" /\ claims' = claims
        /\ calls \in [Calls -> CallRow]
    BY <1>4 DEF Answer, TypeOK
  <2>2. /\ Accepted(calls[c], s).status = "accepted"
        /\ Accepted(calls[c], s).caller = calls[c].caller
        /\ Accepted(calls[c], s).callee = calls[c].callee
    BY <2>1, AcceptedRow
  <2>3. \A d \in Calls :
          /\ calls'[d].status \in ActiveStatus <=> calls[d].status \in ActiveStatus
          /\ calls'[d].caller = calls[d].caller
          /\ calls'[d].callee = calls[d].callee
    BY <2>1, <2>2 DEF ActiveStatus
  <2> QED
    BY <2>1, <2>3 DEF ClaimsMatchActiveCalls, Active, PairOf
<1> QED
  BY <1>1, <1>2, <1>3, <1>4, StepKinds

LEMMA InitClaims == Init => ClaimsMatchActiveCalls
  BY NullsAreNotValues DEF Init, ClaimsMatchActiveCalls, Active, ActiveStatus, NoRow

\* The table of busy users and the table of calls agree in every reachable
\* state, although each procedure writes them by statements of its own.
THEOREM ClaimsConsistent == Spec => []ClaimsMatchActiveCalls
<1>1. Init => TypeOK /\ ClaimsMatchActiveCalls
  BY InitTypeOK, InitClaims
<1>2. TypeOK /\ ClaimsMatchActiveCalls /\ [Next]_vars
        => TypeOK' /\ ClaimsMatchActiveCalls'
  BY NextTypeOK, NextClaims
<1> QED
  BY <1>1, <1>2, PTL DEF Spec

\* The claim table does its work: no user is in two active calls.
THEOREM NobodyTwiceBusy == Spec => []OneActiveCallPerUser
<1>1. TypeOK /\ ClaimsMatchActiveCalls => OneActiveCallPerUser
  <2> SUFFICES ASSUME TypeOK, ClaimsMatchActiveCalls,
                      NEW c \in Calls, NEW d \in Calls, c # d, Active(c), Active(d),
                      NEW u \in PairOf(c), u \in PairOf(d)
               PROVE  FALSE
    BY DEF OneActiveCallPerUser
  <2>1. u \in Users
    BY DEF TypeOK, PairOf, Active, ActiveStatus
  <2>2. claims[u] = c /\ claims[u] = d
    BY <2>1 DEF ClaimsMatchActiveCalls
  <2> QED
    BY <2>2
<1> QED
  BY <1>1, TypeCorrect, ClaimsConsistent, PTL

-------------------------------------------------------------------------------
(* No active call between blocked users: the advisory locks keep a start and  *)
(* a block of one user apart, so what each read is still true when it writes. *)

BlockInv ==
    /\ LocksExclude
    /\ StartsUnblocked
    /\ BlockSeesActiveCalls
    /\ NoActiveCallBetweenBlocked

\* What the steps do to the transactions that hold locks.
LEMMA LockSteps ==
  ASSUME [Next]_vars
  PROVE  \/ \E u, v \in Users : StartCheck(u, v) \/ BlockRead(u, v)
         \/ \E t \in starting : starting' = starting \ {t} /\ blocking' = blocking
         \/ \E b \in blocking : blocking' = blocking \ {b} /\ starting' = starting
         \/ starting' = starting /\ blocking' = blocking
<1>1. ASSUME NEW u \in Users, NEW v \in Users,
             Unblock(u, v) \/ AcceptFriend(u, v) \/ OpenDm(u, v)
      PROVE  starting' = starting /\ blocking' = blocking
  BY <1>1 DEF Unblock, AcceptFriend, OpenDm, inFlight
<1>2. ASSUME NEW t \in starting, StartAbort(t) \/ \E c \in Calls : StartInsert(t, c)
      PROVE  starting' = starting \ {t} /\ blocking' = blocking
  BY <1>2 DEF StartAbort, StartInsert
<1>3. ASSUME NEW b \in blocking, BlockCommit(b) \/ BlockAbort(b)
      PROVE  blocking' = blocking \ {b} /\ starting' = starting
  BY <1>3 DEF BlockCommit, BlockAbort
<1>4. ASSUME NEW u \in Users, NEW c \in Calls,
             \/ Decline(u, c) \/ Cancel(u, c) \/ End(u, c) \/ AnswerExpired(u, c)
             \/ \E s \in Sessions : Answer(u, c, s) \/ AnswerAgain(u, c, s)
      PROVE  starting' = starting /\ blocking' = blocking
  BY <1>4 DEF Decline, Cancel, End, AnswerExpired, Answer, AnswerAgain, Finish, inFlight
<1>5. ASSUME NEW c \in Calls, MarkConnected(c) \/ RingTimeout(c)
      PROVE  starting' = starting /\ blocking' = blocking
  BY <1>5 DEF MarkConnected, RingTimeout, inFlight
<1>6. ASSUME NEW S \in SUBSET Calls, ExpireRinging(S)
      PROVE  starting' = starting /\ blocking' = blocking
  BY <1>6 DEF ExpireRinging, Finish, inFlight
<1>7. ASSUME NEW p, RemoveFriend(p) \/ DeleteDm(p) \/ DeleteDmFails(p) \/ DeclineRequest(p)
      PROVE  starting' = starting /\ blocking' = blocking
  BY <1>7 DEF RemoveFriend, DeleteDm, DeleteDmFails, DeclineRequest, inFlight
<1>8. ASSUME UNCHANGED vars
      PROVE  starting' = starting /\ blocking' = blocking
  BY <1>8 DEF vars
<1> QED
  BY <1>1, <1>2, <1>3, <1>4, <1>5, <1>6, <1>7, <1>8 DEF Next

LEMMA NextLocks ==
  ASSUME LocksExclude, [Next]_vars
  PROVE  LocksExclude'
<1> USE DEF LocksExclude
<1>1. ASSUME NEW u \in Users, NEW v \in Users, StartCheck(u, v)
      PROVE  LocksExclude'
  BY <1>1 DEF StartCheck, Locked
<1>2. ASSUME NEW u \in Users, NEW v \in Users, BlockRead(u, v)
      PROVE  LocksExclude'
  BY <1>2 DEF BlockRead, Locked
<1>3. ASSUME starting' \subseteq starting, blocking' \subseteq blocking
      PROVE  LocksExclude'
  BY <1>3
<1> QED
  BY <1>1, <1>2, <1>3, LockSteps

\* Which steps add a transaction in flight or a block.
LEMMA NewInFlight ==
  ASSUME [Next]_vars
  PROVE  /\ \A t \in starting' : \/ t \in starting
                                 \/ ~BlockedPair(t.caller, t.callee) /\ blocks' = blocks
         /\ \A b \in blocking' : \/ b \in blocking
                                 \/ /\ b.seen = {c \in Calls : Active(c) /\ PairOf(c) = {b.by, b.target}}
                                    /\ calls' = calls
         /\ \/ blocks' \subseteq blocks
            \/ \E b \in blocking : BlockCommit(b) /\ blocks' = blocks \cup {<<b.by, b.target>>}
<1> USE DEF table, social, inFlight, replies
<1>1. ASSUME NEW u \in Users, NEW v \in Users, StartCheck(u, v)
      PROVE  /\ \A t \in starting' : \/ t \in starting
                                     \/ ~BlockedPair(t.caller, t.callee) /\ blocks' = blocks
             /\ blocking' = blocking /\ blocks' = blocks
  BY <1>1 DEF StartCheck
<1>2. ASSUME NEW u \in Users, NEW v \in Users, BlockRead(u, v)
      PROVE  /\ \A b \in blocking' :
                   \/ b \in blocking
                   \/ /\ b.seen = {c \in Calls : Active(c) /\ PairOf(c) = {b.by, b.target}}
                      /\ calls' = calls
             /\ starting' = starting /\ blocks' = blocks
  BY <1>2 DEF BlockRead
<1>3. ASSUME NEW u \in Users, NEW v \in Users,
             Unblock(u, v) \/ AcceptFriend(u, v) \/ OpenDm(u, v)
      PROVE  starting' = starting /\ blocking' = blocking /\ blocks' \subseteq blocks
  BY <1>3 DEF Unblock, AcceptFriend, OpenDm
<1>4. ASSUME NEW t \in starting, StartAbort(t) \/ \E c \in Calls : StartInsert(t, c)
      PROVE  starting' \subseteq starting /\ blocking' = blocking /\ blocks' = blocks
  BY <1>4 DEF StartAbort, StartInsert
<1>5. ASSUME NEW b \in blocking, BlockAbort(b)
      PROVE  starting' = starting /\ blocking' \subseteq blocking /\ blocks' = blocks
  BY <1>5 DEF BlockAbort
<1>6. ASSUME NEW b \in blocking, BlockCommit(b)
       PROVE  /\ starting' = starting /\ blocking' \subseteq blocking
              /\ blocks' = blocks \cup {<<b.by, b.target>>}
  BY <1>6 DEF BlockCommit
<1>7. ASSUME NEW u \in Users, NEW c \in Calls,
             \/ Decline(u, c) \/ Cancel(u, c) \/ End(u, c) \/ AnswerExpired(u, c)
             \/ \E s \in Sessions : Answer(u, c, s) \/ AnswerAgain(u, c, s)
      PROVE  starting' = starting /\ blocking' = blocking /\ blocks' = blocks
  BY <1>7 DEF Decline, Cancel, End, AnswerExpired, Answer, AnswerAgain, Finish
<1>8. ASSUME NEW c \in Calls, MarkConnected(c) \/ RingTimeout(c)
      PROVE  starting' = starting /\ blocking' = blocking /\ blocks' = blocks
  BY <1>8 DEF MarkConnected, RingTimeout
<1>9. ASSUME NEW S \in SUBSET Calls, ExpireRinging(S)
      PROVE  starting' = starting /\ blocking' = blocking /\ blocks' = blocks
  BY <1>9 DEF ExpireRinging, Finish
<1>10. ASSUME NEW p, RemoveFriend(p) \/ DeleteDm(p) \/ DeleteDmFails(p) \/ DeclineRequest(p)
       PROVE  starting' = starting /\ blocking' = blocking /\ blocks' = blocks
  BY <1>10 DEF RemoveFriend, DeleteDm, DeleteDmFails, DeclineRequest, inFlight
<1>11. ASSUME UNCHANGED vars
       PROVE  starting' = starting /\ blocking' = blocking /\ blocks' = blocks
  BY <1>11 DEF vars
<1> QED
  BY <1>1, <1>2, <1>3, <1>4, <1>5, <1>7, <1>8, <1>9, <1>10, <1>11, <1>6 DEF Next

\* A call active after a step was active before it, or it is the call inserted.
LEMMA NewActive ==
  ASSUME TypeOK, [Next]_vars, NEW c \in Calls, calls'[c].status \in ActiveStatus
  PROVE  \/ /\ Active(c)
            /\ calls'[c].caller = calls[c].caller /\ calls'[c].callee = calls[c].callee
         \/ \E t \in starting : /\ StartInsert(t, c)
                                /\ calls'[c].caller = t.caller /\ calls'[c].callee = t.callee
<1>1. CASE Untouched
  BY <1>1 DEF Untouched, Active
<1>2. ASSUME NEW S \in SUBSET Calls, Closes(S)
      PROVE  /\ Active(c)
             /\ calls'[c].caller = calls[c].caller /\ calls'[c].callee = calls[c].callee
  BY <1>2 DEF Closes, Active
<1>3. ASSUME NEW t \in starting, NEW d \in Calls, StartInsert(t, d)
      PROVE  \/ /\ Active(c)
                /\ calls'[c].caller = calls[c].caller /\ calls'[c].callee = calls[c].callee
             \/ /\ StartInsert(t, c)
                /\ calls'[c].caller = t.caller /\ calls'[c].callee = t.callee
  <2>1. CASE c = d
    BY <1>3, <2>1 DEF StartInsert, NewCall, TypeOK
  <2>2. CASE c # d
    <3>1. calls' = [calls EXCEPT ![d] = NewCall(t.caller, t.callee)]
      BY <1>3 DEF StartInsert
    <3>2. calls'[c] = calls[c]
      BY <3>1, <2>2 DEF TypeOK
    <3> QED
      BY <3>2 DEF Active
  <2> QED
    BY <2>1, <2>2
<1>4. ASSUME NEW u \in Users, NEW d \in Calls, NEW s \in Sessions, Answer(u, d, s)
      PROVE  /\ Active(c)
             /\ calls'[c].caller = calls[c].caller /\ calls'[c].callee = calls[c].callee
  <2>1. /\ calls' = [calls EXCEPT ![d] = Accepted(calls[d], s)]
        /\ calls[d].status = "ringing"
        /\ calls \in [Calls -> CallRow]
    BY <1>4 DEF Answer, TypeOK
  <2>2. /\ Accepted(calls[d], s).caller = calls[d].caller
        /\ Accepted(calls[d], s).callee = calls[d].callee
    BY <2>1, AcceptedRow
  <2> QED
    BY <2>1, <2>2 DEF Active, ActiveStatus
<1> QED
  BY <1>1, <1>2, <1>3, <1>4, StepKinds

LEMMA NextBlockInv ==
  ASSUME TypeOK, BlockInv, [Next]_vars
  PROVE  BlockInv'
<1>1. LocksExclude'
  BY NextLocks DEF BlockInv
<1>2. StartsUnblocked'
  <2> SUFFICES ASSUME NEW t \in starting'
               PROVE  /\ <<t.caller, t.callee>> \notin blocks'
                      /\ <<t.callee, t.caller>> \notin blocks'
    BY DEF StartsUnblocked, BlockedPair
  <2>1. CASE t \notin starting
    BY <2>1, NewInFlight DEF BlockedPair
  <2>2. CASE t \in starting /\ blocks' \subseteq blocks
    BY <2>2 DEF BlockInv, StartsUnblocked, BlockedPair
  <2>3. ASSUME t \in starting, NEW b \in blocking, blocks' = blocks \cup {<<b.by, b.target>>}
        PROVE  /\ <<t.caller, t.callee>> \notin blocks'
               /\ <<t.callee, t.caller>> \notin blocks'
    BY <2>3 DEF BlockInv, LocksExclude, StartsUnblocked, BlockedPair
  <2> QED
    BY <2>1, <2>2, <2>3, NewInFlight
<1>3. BlockSeesActiveCalls'
  <2> SUFFICES ASSUME NEW b \in blocking', NEW c \in Calls,
                      calls'[c].status \in ActiveStatus,
                      {calls'[c].caller, calls'[c].callee} = {b.by, b.target}
               PROVE  c \in b.seen
    BY DEF BlockSeesActiveCalls, Active, PairOf
  <2>1. CASE b \notin blocking
    BY <2>1, NewInFlight DEF Active, PairOf
  <2>2. CASE b \in blocking /\ Active(c) /\ PairOf(c) = {b.by, b.target}
    BY <2>2 DEF BlockInv, BlockSeesActiveCalls
  <2>3. CASE b \in blocking /\ \E t \in starting : {t.caller, t.callee} = {b.by, b.target}
    BY <2>3 DEF BlockInv, LocksExclude
  <2> QED
    BY <2>1, <2>2, <2>3, NewActive DEF PairOf
<1>4. NoActiveCallBetweenBlocked'
  <2> SUFFICES ASSUME NEW u \in Users, NEW v \in Users, <<u, v>> \in blocks',
                      NEW c \in Calls, calls'[c].status \in ActiveStatus,
                      {calls'[c].caller, calls'[c].callee} = {u, v}
               PROVE  FALSE
    BY DEF NoActiveCallBetweenBlocked, Active, PairOf
  <2>1. CASE <<u, v>> \in blocks /\ Active(c) /\ PairOf(c) = {u, v}
    BY <2>1 DEF BlockInv, NoActiveCallBetweenBlocked
  <2>2. ASSUME <<u, v>> \in blocks, NEW t \in starting, {t.caller, t.callee} = {u, v}
        PROVE  FALSE
    BY <2>2 DEF BlockInv, StartsUnblocked, BlockedPair
  <2>3. ASSUME NEW b \in blocking, BlockCommit(b), u = b.by, v = b.target
        PROVE  FALSE
    <3>1. c \in b.seen => calls'[c].status \notin ActiveStatus
      BY <2>3, BlockCommitCloses DEF Closes
    <3>2. \A t \in starting : {t.caller, t.callee} # {u, v}
      BY <2>3 DEF BlockInv, LocksExclude
    <3>3. Active(c) /\ PairOf(c) = {u, v}
      BY <3>2, NewActive DEF PairOf
    <3>4. c \in b.seen
      BY <2>3, <3>3 DEF BlockInv, BlockSeesActiveCalls
    <3> QED
      BY <3>1, <3>4
  <2>4. ASSUME <<u, v>> \notin blocks
        PROVE  \E b \in blocking : BlockCommit(b) /\ u = b.by /\ v = b.target
    BY <2>4, NewInFlight
  <2>5. CASE <<u, v>> \in blocks
    BY <2>1, <2>2, <2>5, NewActive DEF PairOf
  <2> QED
    BY <2>3, <2>4, <2>5
<1> QED
  BY <1>1, <1>2, <1>3, <1>4 DEF BlockInv

\* When a block is committed no call between the two users is active, and none
\* becomes active while the block stands, although block_user and
\* start_direct_call read rows they do not lock.
THEOREM BlockEndsCalls == Spec => []NoActiveCallBetweenBlocked
<1>1. Init => TypeOK /\ BlockInv
  BY InitTypeOK DEF Init, BlockInv, LocksExclude, StartsUnblocked, BlockSeesActiveCalls,
                    NoActiveCallBetweenBlocked
<1>2. TypeOK /\ BlockInv /\ [Next]_vars => TypeOK' /\ BlockInv'
  BY NextTypeOK, NextBlockInv
<1>3. BlockInv => NoActiveCallBetweenBlocked
  BY DEF BlockInv
<1> QED
  BY <1>1, <1>2, <1>3, PTL DEF Spec

-------------------------------------------------------------------------------
(* The procedures exclude each other as PairLocks says.                       *)

Transactions == StartTxn \cup BlockTxn

\* The users whose locks a transaction holds between its two steps.
Held(t) ==
  CASE t \in starting -> {t.caller, t.callee}
    [] t \in blocking -> {t.by, t.target}
    [] OTHER -> {}

Exclusion == INSTANCE PairLocks WITH
  Txns <- Transactions, inside <- [t \in Transactions |-> Held(t)]

\* A start is no block.
LEMMA Distinct == StartTxn \cap BlockTxn = {}
<1> SUFFICES ASSUME NEW t \in StartTxn, t \in BlockTxn PROVE FALSE
  OBVIOUS
<1>1. DOMAIN t = {"caller", "callee"}
  BY DEF StartTxn
<1>2. DOMAIN t = {"by", "target", "seen"}
  BY DEF BlockTxn
<1> QED
  BY <1>1, <1>2

LEMMA HeldUsers ==
  ASSUME TypeOK
  PROVE  /\ \A t \in starting : t \in Transactions /\ Held(t) = {t.caller, t.callee}
         /\ \A b \in blocking : b \in Transactions /\ Held(b) = {b.by, b.target}
         /\ \A t \in Transactions : t \notin starting /\ t \notin blocking => Held(t) = {}
<1>1. starting \subseteq StartTxn /\ blocking \subseteq BlockTxn
  BY DEF TypeOK
<1> QED
  BY <1>1, Distinct DEF Held, Transactions

\* Whoever enters had no lock of the pair taken, and takes both at once.
LEMMA Entry ==
  ASSUME TypeOK, TypeOK', NEW t \in Transactions, NEW u \in Users, NEW v \in Users, u # v,
         ~Locked(u), ~Locked(v),
         \/ starting' = starting \cup {t} /\ blocking' = blocking /\ t.caller = u /\ t.callee = v
         \/ blocking' = blocking \cup {t} /\ starting' = starting /\ t.by = u /\ t.target = v
  PROVE  Exclusion!Next
<1>1. \A s \in Transactions : Held(s) \cap {u, v} = {}
  BY HeldUsers DEF Locked
<1>2. t \notin starting /\ t \notin blocking
  <2>1. t \in starting' \/ t \in blocking'
    OBVIOUS
  <2>2. t \in starting => u \in {t.caller, t.callee} \/ t \in blocking'
    OBVIOUS
  <2>3. ~(t \in starting \cup starting' /\ t \in blocking \cup blocking')
    BY Distinct DEF TypeOK
  <2> QED
    BY <2>1, <2>3 DEF Locked
<1>3. Held(t) = {}
  BY <1>2, HeldUsers
<1>4. Held(t)' = {u, v}
  <2>1. ~(t \in starting' /\ t \in blocking')
    BY Distinct DEF TypeOK
  <2> QED
    BY <2>1 DEF Held
<1>5. \A s \in Transactions \ {t} : Held(s)' = Held(s)
  BY DEF Held
<1>6. [s \in Transactions |-> Held(s)]' = [[s \in Transactions |-> Held(s)] EXCEPT ![t] = {u, v}]
  BY <1>4, <1>5
<1>7. Exclusion!Enter(t, u, v)
  BY <1>1, <1>3, <1>6 DEF Exclusion!Enter
<1> QED
  BY <1>7 DEF Exclusion!Next

\* And lets go of both at once.
LEMMA Exit ==
  ASSUME TypeOK, TypeOK', NEW t \in Transactions,
         \/ t \in starting /\ starting' = starting \ {t} /\ blocking' = blocking
         \/ t \in blocking /\ blocking' = blocking \ {t} /\ starting' = starting
  PROVE  Exclusion!Next
<1>1. Held(t) # {}
  BY HeldUsers
<1>2. Held(t)' = {}
  <2>1. ~(t \in starting /\ t \in blocking)
    BY Distinct DEF TypeOK
  <2> QED
    BY <2>1 DEF Held
<1>3. \A s \in Transactions \ {t} : Held(s)' = Held(s)
  BY DEF Held
<1>4. [s \in Transactions |-> Held(s)]' = [[s \in Transactions |-> Held(s)] EXCEPT ![t] = {}]
  BY <1>2, <1>3
<1>5. Exclusion!Leave(t)
  BY <1>1, <1>4 DEF Exclusion!Leave
<1> QED
  BY <1>5 DEF Exclusion!Next

\* start_direct_call and block_user, with their reads and their writes apart,
\* keep to what PairLocks promises: a procedure that finds its users not Locked
\* enters as under the atomic lock on a pair of users, which AdvisoryLocks
\* implements with two single locks in a fixed order.
THEOREM CallsUnderPairLocks == Spec => Exclusion!Spec
<1>1. Init => Exclusion!Init
  BY DEF Init, Exclusion!Init, Held
<1>2. TypeOK /\ TypeOK' /\ [Next]_vars => [Exclusion!Next]_([t \in Transactions |-> Held(t)])
  <2> SUFFICES ASSUME TypeOK, TypeOK', [Next]_vars
               PROVE  \/ Exclusion!Next
                      \/ UNCHANGED [t \in Transactions |-> Held(t)]
    OBVIOUS
  <2>1. ASSUME NEW u \in Users, NEW v \in Users, StartCheck(u, v)
        PROVE  Exclusion!Next
    <3>1. [caller |-> u, callee |-> v] \in Transactions
      BY <2>1 DEF StartCheck, StartTxn, Transactions
    <3> QED
      BY <2>1, <3>1, Entry DEF StartCheck
  <2>2. ASSUME NEW u \in Users, NEW v \in Users, BlockRead(u, v)
        PROVE  Exclusion!Next
    <3> DEFINE b == [by |-> u, target |-> v, seen |-> {c \in Calls : Active(c) /\ PairOf(c) = {u, v}}]
    <3>1. b \in Transactions /\ b.by = u /\ b.target = v
      BY DEF BlockTxn, Transactions
    <3>2. /\ u # v /\ ~Locked(u) /\ ~Locked(v)
          /\ blocking' = blocking \cup {b} /\ starting' = starting
      BY <2>2 DEF BlockRead
    <3> HIDE DEF b
    <3> QED
      BY <3>1, <3>2, Entry
  <2>3. ASSUME NEW t \in starting, starting' = starting \ {t}, blocking' = blocking
        PROVE  Exclusion!Next
    BY <2>3, HeldUsers, Exit
  <2>4. ASSUME NEW b \in blocking, blocking' = blocking \ {b}, starting' = starting
        PROVE  Exclusion!Next
    BY <2>4, HeldUsers, Exit
  <2>5. ASSUME starting' = starting, blocking' = blocking
        PROVE  UNCHANGED [t \in Transactions |-> Held(t)]
    BY <2>5 DEF Held
  <2> QED
    BY <2>1, <2>2, <2>3, <2>4, <2>5, LockSteps
<1> QED
  BY <1>1, <1>2, TypeCorrect, PTL DEF Spec, Exclusion!Spec

-------------------------------------------------------------------------------
(* The room of every finished call will be cleaned up.                        *)

LEMMA NextCleanup ==
  ASSUME TypeOK, FinishedCallsHaveCleanup, [Next]_vars
  PROVE  FinishedCallsHaveCleanup'
<1> SUFFICES ASSUME NEW c \in Calls, calls'[c].status \in TerminalStatus
             PROVE  outbox'[c] > 0
  BY DEF FinishedCallsHaveCleanup, Terminal
<1>1. calls[c].status \in TerminalStatus => outbox[c] > 0
  BY DEF FinishedCallsHaveCleanup, Terminal
<1>2. CASE Untouched
  BY <1>1, <1>2 DEF Untouched
<1>3. ASSUME NEW S \in SUBSET Calls, Closes(S)
      PROVE  outbox'[c] > 0
  BY <1>1, <1>3 DEF Closes
<1>4. ASSUME NEW t \in starting, NEW d \in Calls, StartInsert(t, d)
      PROVE  outbox'[c] > 0
  <2>1. calls' = [calls EXCEPT ![d] = NewCall(t.caller, t.callee)] /\ outbox' = outbox
    BY <1>4 DEF StartInsert
  <2>2. NewCall(t.caller, t.callee).status = "ringing"
    BY DEF NewCall
  <2>3. c # d /\ calls'[c] = calls[c]
    BY <2>1, <2>2 DEF TypeOK, TerminalStatus
  <2> QED
    BY <1>1, <2>1, <2>3
<1>5. ASSUME NEW u \in Users, NEW d \in Calls, NEW s \in Sessions, Answer(u, d, s)
      PROVE  outbox'[c] > 0
  <2>1. /\ calls' = [calls EXCEPT ![d] = Accepted(calls[d], s)] /\ outbox' = outbox
        /\ calls \in [Calls -> CallRow]
    BY <1>5 DEF Answer, TypeOK
  <2>2. Accepted(calls[d], s).status = "accepted"
    BY <2>1, AcceptedRow
  <2>3. c # d /\ calls'[c] = calls[c]
    BY <2>1, <2>2 DEF TerminalStatus
  <2> QED
    BY <1>1, <2>1, <2>3
<1> QED
  BY <1>2, <1>3, <1>4, <1>5, StepKinds

\* Whatever finished a call whose row is kept, its room has a cleanup job.
THEOREM CleanupPromised == Spec => []FinishedCallsHaveCleanup
<1>1. Init => TypeOK /\ FinishedCallsHaveCleanup
  BY InitTypeOK DEF Init, FinishedCallsHaveCleanup, Terminal, TerminalStatus, NoRow
<1>2. TypeOK /\ FinishedCallsHaveCleanup /\ [Next]_vars
        => TypeOK' /\ FinishedCallsHaveCleanup'
  BY NextTypeOK, NextCleanup
<1> QED
  BY <1>1, <1>2, PTL DEF Spec

-------------------------------------------------------------------------------
(* One session joins the media.                                               *)

LEMMA WhoJoins ==
  ASSUME [Next]_vars
  PROVE  \/ joined' = joined
         \/ \E u \in Users, c \in Calls, s \in Sessions : Answer(u, c, s) \/ AnswerAgain(u, c, s)
<1> USE DEF replies
<1>1. ASSUME NEW u \in Users, NEW v \in Users,
             \/ StartCheck(u, v) \/ BlockRead(u, v) \/ Unblock(u, v)
             \/ AcceptFriend(u, v) \/ OpenDm(u, v)
      PROVE  joined' = joined
  BY <1>1 DEF StartCheck, BlockRead, Unblock, AcceptFriend, OpenDm
<1>2. ASSUME NEW t \in starting, StartAbort(t) \/ \E c \in Calls : StartInsert(t, c)
      PROVE  joined' = joined
  BY <1>2 DEF StartAbort, StartInsert
<1>3. ASSUME NEW b \in blocking, BlockCommit(b) \/ BlockAbort(b)
      PROVE  joined' = joined
  BY <1>3 DEF BlockCommit, BlockAbort
<1>4. ASSUME NEW u \in Users, NEW c \in Calls,
             Decline(u, c) \/ Cancel(u, c) \/ End(u, c) \/ AnswerExpired(u, c)
      PROVE  joined' = joined
  BY <1>4 DEF Decline, Cancel, End, AnswerExpired, Finish
<1>5. ASSUME NEW c \in Calls, MarkConnected(c) \/ RingTimeout(c)
      PROVE  joined' = joined
  BY <1>5 DEF MarkConnected, RingTimeout
<1>6. ASSUME NEW S \in SUBSET Calls, ExpireRinging(S)
      PROVE  joined' = joined
  BY <1>6 DEF ExpireRinging, Finish
<1>7. ASSUME NEW p, RemoveFriend(p) \/ DeleteDm(p) \/ DeleteDmFails(p) \/ DeclineRequest(p)
      PROVE  joined' = joined
  BY <1>7 DEF RemoveFriend, DeleteDm, DeleteDmFails, DeclineRequest, inFlight
<1>8. ASSUME UNCHANGED vars
      PROVE  joined' = joined
  BY <1>8 DEF vars
<1> QED
  BY <1>1, <1>2, <1>3, <1>4, <1>5, <1>6, <1>7, <1>8 DEF Next

LEMMA NextJoined ==
  ASSUME TypeOK, JoinedIsAnswered, [Next]_vars
  PROVE  JoinedIsAnswered'
<1> SUFFICES ASSUME NEW c \in Calls
             PROVE  /\ joined'[c] \subseteq {calls'[c].answered}
                    /\ calls'[c].status \in {"unused", "ringing"} => joined'[c] = {}
  BY DEF JoinedIsAnswered
<1>1. /\ joined[c] \subseteq {calls[c].answered}
      /\ calls[c].status \in {"unused", "ringing"} => joined[c] = {}
  BY DEF JoinedIsAnswered
<1>2. CASE joined' = joined /\ Untouched
  BY <1>1, <1>2 DEF Untouched
<1>3. ASSUME joined' = joined, NEW S \in SUBSET Calls, Closes(S)
      PROVE  /\ joined'[c] \subseteq {calls'[c].answered}
             /\ calls'[c].status \in {"unused", "ringing"} => joined'[c] = {}
  BY <1>1, <1>3 DEF Closes, ActiveStatus
<1>4. ASSUME NEW t \in starting, NEW d \in Calls, StartInsert(t, d)
      PROVE  /\ joined'[c] \subseteq {calls'[c].answered}
             /\ calls'[c].status \in {"unused", "ringing"} => joined'[c] = {}
  <2>1. /\ calls' = [calls EXCEPT ![d] = NewCall(t.caller, t.callee)]
        /\ calls[d].status = "unused" /\ joined' = joined
    BY <1>4 DEF StartInsert, replies
  <2>2. CASE c = d
    BY <1>1, <2>1, <2>2
  <2>3. CASE c # d
    <3>1. calls'[c] = calls[c]
      BY <2>1, <2>3 DEF TypeOK
    <3> QED
      BY <1>1, <2>1, <3>1
  <2> QED
    BY <2>2, <2>3
<1>5. ASSUME NEW u \in Users, NEW d \in Calls, NEW s \in Sessions, Answer(u, d, s)
      PROVE  /\ joined'[c] \subseteq {calls'[c].answered}
             /\ calls'[c].status \in {"unused", "ringing"} => joined'[c] = {}
  <2>1. /\ calls' = [calls EXCEPT ![d] = Accepted(calls[d], s)]
        /\ calls[d].status = "ringing"
        /\ joined' \in {joined, [joined EXCEPT ![d] = joined[d] \cup {s}]}
        /\ calls \in [Calls -> CallRow] /\ joined \in [Calls -> SUBSET Sessions]
    BY <1>5 DEF Answer, TypeOK
  <2>2. /\ Accepted(calls[d], s).status = "accepted"
        /\ Accepted(calls[d], s).answered = s
    BY <2>1, AcceptedRow
  <2>3. CASE c = d
    BY <1>1, <2>1, <2>2, <2>3
  <2>4. CASE c # d
    <3>1. calls'[c] = calls[c] /\ joined'[c] = joined[c]
      BY <2>1, <2>4
    <3> QED
      BY <1>1, <3>1
  <2> QED
    BY <2>3, <2>4
<1>6. ASSUME NEW u \in Users, NEW d \in Calls, NEW s \in Sessions, AnswerAgain(u, d, s)
      PROVE  /\ joined'[c] \subseteq {calls'[c].answered}
             /\ calls'[c].status \in {"unused", "ringing"} => joined'[c] = {}
  <2>1. calls' = calls /\ calls[d].status = "accepted"
    BY <1>6 DEF AnswerAgain, table
  <2>2. \/ joined' = joined
        \/ calls[d].answered = s /\ joined' = [joined EXCEPT ![d] = joined[d] \cup {s}]
    BY <1>6 DEF AnswerAgain
  <2> QED
    BY <1>1, <2>1, <2>2 DEF TypeOK
<1> QED
  BY <1>2, <1>3, <1>4, <1>5, <1>6, StepKinds, WhoJoins

\* At most one session of the callee is ever told to join the media of a call.
THEOREM OneSessionJoins == Spec => []OneMediaSession
<1>1. Init => TypeOK /\ JoinedIsAnswered
  BY InitTypeOK DEF Init, JoinedIsAnswered
<1>2. TypeOK /\ JoinedIsAnswered /\ [Next]_vars => TypeOK' /\ JoinedIsAnswered'
  BY NextTypeOK, NextJoined
<1>3. JoinedIsAnswered => OneMediaSession
  BY DEF JoinedIsAnswered, OneMediaSession
<1> QED
  BY <1>1, <1>2, <1>3, PTL DEF Spec

-------------------------------------------------------------------------------
(* What one step may do to one row: leave what clients see of it, update it   *)
(* and count the update, insert it, or delete it with its conversation.       *)

Kept(c) ==
    /\ calls'[c].status = calls[c].status
    /\ calls'[c].answered = calls[c].answered
    /\ calls'[c].connected = calls[c].connected

Updated(c) ==
    /\ calls'[c].version = calls[c].version + 1
    /\ \/ calls'[c].status = calls[c].status
       \/ calls[c].status = "ringing" /\ calls'[c].status = "accepted"
       \/ /\ calls'[c].status \in TerminalStatus
          /\ calls[c].status = "accepted" => calls'[c].status # "missed"

InsertedOrDeleted(c) ==
    \/ calls[c].status = "unused" /\ calls'[c].status = "ringing"
    \/ calls'[c].status = "gone"

RowSteps == \A c \in Calls : Kept(c) \/ Updated(c) \/ InsertedOrDeleted(c)

LEMMA FinishRows ==
  ASSUME TypeOK, NEW S, NEW status \in TerminalStatus,
         \A c \in Calls : c \in S => Exists(c),
         \A c \in Calls : c \in S /\ calls[c].status = "accepted" => status # "missed",
         calls' = [c \in Calls |-> IF c \in S THEN Over(calls[c], status) ELSE calls[c]]
  PROVE  RowSteps
<1> SUFFICES ASSUME NEW c \in Calls PROVE Kept(c) \/ Updated(c)
  BY DEF RowSteps
<1>1. /\ c \notin S => calls'[c] = calls[c]
      /\ c \in S => /\ calls'[c].status = status
                    /\ calls'[c].version = calls[c].version + 1
  BY OverRows
<1> QED
  BY <1>1 DEF Kept, Updated

\* A step that rewrites one row in place, with the version.
LEMMA OneRow ==
  ASSUME TypeOK, NEW d \in Calls, NEW row, calls' = [calls EXCEPT ![d] = row],
         \/ calls[d].status = "unused" /\ row.status = "ringing"
         \/ /\ row.version = calls[d].version + 1
            /\ \/ row.status = calls[d].status
               \/ calls[d].status = "ringing" /\ row.status = "accepted"
  PROVE  RowSteps
<1> SUFFICES ASSUME NEW c \in Calls PROVE Kept(c) \/ Updated(c) \/ InsertedOrDeleted(c)
  BY DEF RowSteps
<1>1. CASE c = d
  <2>1. calls'[c] = row
    BY <1>1 DEF TypeOK
  <2> QED
    BY <1>1, <2>1 DEF Updated, InsertedOrDeleted
<1>2. CASE c # d
  <2>1. calls'[c] = calls[c]
    BY <1>2 DEF TypeOK
  <2> QED
    BY <2>1 DEF Kept
<1> QED
  BY <1>1, <1>2

LEMMA NextRows ==
  ASSUME TypeOK, [Next]_vars
  PROVE  RowSteps
<1>1. CASE calls' = calls
  BY <1>1 DEF RowSteps, Kept
<1>2. ASSUME NEW t \in starting, NEW c \in Calls, StartInsert(t, c)
      PROVE  RowSteps
  <2>1. /\ calls' = [calls EXCEPT ![c] = NewCall(t.caller, t.callee)]
        /\ calls[c].status = "unused"
    BY <1>2 DEF StartInsert
  <2>2. NewCall(t.caller, t.callee).status = "ringing"
    BY DEF NewCall
  <2> QED
    BY <2>1, <2>2, OneRow
<1>3. ASSUME NEW b \in blocking, BlockCommit(b)
      PROVE  RowSteps
  <2> DEFINE S == {c \in b.seen : Exists(c)}
  <2>1. calls' = [c \in Calls |-> IF c \in S THEN Over(calls[c], "ended") ELSE calls[c]]
    BY <1>3 DEF BlockCommit
  <2>2. \A c \in Calls : c \in S => Exists(c)
    OBVIOUS
  <2>3. "ended" \in TerminalStatus /\ "ended" # "missed"
    BY DEF TerminalStatus
  <2> HIDE DEF S
  <2> QED
    BY <2>1, <2>2, <2>3, FinishRows
<1>4. ASSUME NEW u \in Users, NEW c \in Calls, Decline(u, c) \/ Cancel(u, c) \/ End(u, c)
      PROVE  RowSteps
  <2>1. PICK status \in TerminalStatus : status # "missed" /\ Finish({c}, status)
    BY <1>4 DEF Decline, Cancel, End, TerminalStatus
  <2>2. Exists(c)
    BY <1>4 DEF Decline, Cancel, End, Exists
  <2>3. calls' = [d \in Calls |-> IF d \in {c} THEN Over(calls[d], status) ELSE calls[d]]
    BY <2>1 DEF Finish
  <2> QED
    BY <2>1, <2>2, <2>3, FinishRows
<1>5. ASSUME NEW u \in Users, NEW c \in Calls, NEW s \in Sessions, Answer(u, c, s)
      PROVE  RowSteps
  <2>1. /\ calls' = [calls EXCEPT ![c] = Accepted(calls[c], s)]
        /\ calls[c].status = "ringing"
        /\ calls[c] \in CallRow
    BY <1>5 DEF Answer, TypeOK
  <2>2. /\ Accepted(calls[c], s).status = "accepted"
        /\ Accepted(calls[c], s).version = calls[c].version + 1
    BY <2>1, AcceptedRow
  <2> QED
    BY <2>1, <2>2, OneRow
<1>6. ASSUME NEW c \in Calls, MarkConnected(c)
      PROVE  RowSteps
  <2>1. /\ calls' = [calls EXCEPT ![c] = Connected(calls[c])]
        /\ calls[c] \in CallRow
    BY <1>6 DEF MarkConnected, TypeOK
  <2>2. /\ Connected(calls[c]).status = calls[c].status
        /\ Connected(calls[c]).version = calls[c].version + 1
    BY <2>1, ConnectedRow
  <2> QED
    BY <2>1, <2>2, OneRow
<1>7. ASSUME NEW c \in Calls, RingTimeout(c)
      PROVE  RowSteps
  <2>1. calls' = [calls EXCEPT ![c] = [calls[c] EXCEPT !.expired = TRUE]]
    BY <1>7 DEF RingTimeout
  <2> QED
    BY <2>1 DEF TypeOK, CallRow, RowSteps, Kept
<1>8. ASSUME NEW S \in SUBSET Calls, ExpireRinging(S)
      PROVE  RowSteps
  <2>1. calls' = [c \in Calls |-> IF c \in S THEN Over(calls[c], "missed") ELSE calls[c]]
    BY <1>8 DEF ExpireRinging, Finish
  <2>2. /\ \A c \in Calls : c \in S => Exists(c)
        /\ \A c \in Calls : c \in S => calls[c].status # "accepted"
    BY <1>8 DEF ExpireRinging, Exists, Active, ActiveStatus
  <2>3. "missed" \in TerminalStatus
    BY DEF TerminalStatus
  <2> QED
    BY <2>1, <2>2, <2>3, FinishRows
<1>9. ASSUME NEW p, DeleteDm(p) \/ DeclineRequest(p)
      PROVE  RowSteps
  <2> DEFINE doomed == {c \in Calls : Exists(c) /\ PairOf(c) = p}
  <2>1. calls' = [c \in Calls |-> IF c \in doomed THEN [calls[c] EXCEPT !.status = "gone"]
                                                  ELSE calls[c]]
    BY <1>9 DEF DeleteDm, DeclineRequest, DropDm
  <2> HIDE DEF doomed
  <2> SUFFICES ASSUME NEW c \in Calls PROVE Kept(c) \/ calls'[c].status = "gone"
    BY DEF RowSteps, InsertedOrDeleted
  <2> QED
    BY <2>1 DEF TypeOK, CallRow, Kept
<1>10. \/ calls' = calls
       \/ \E t \in starting, c \in Calls : StartInsert(t, c)
       \/ \E b \in blocking : BlockCommit(b)
       \/ \E u \in Users, c \in Calls : \/ Decline(u, c) \/ Cancel(u, c) \/ End(u, c)
                                        \/ \E s \in Sessions : Answer(u, c, s)
       \/ \E c \in Calls : MarkConnected(c) \/ RingTimeout(c)
       \/ \E S \in SUBSET Calls : ExpireRinging(S)
       \/ \E p : DeleteDm(p) \/ DeclineRequest(p)
  BY DEF Next, vars, table, StartCheck, BlockRead, Unblock, AcceptFriend, OpenDm, StartAbort,
         BlockAbort, AnswerExpired, AnswerAgain, RemoveFriend, DeleteDmFails
<1> QED
  BY <1>1, <1>2, <1>3, <1>4, <1>5, <1>6, <1>7, <1>8, <1>9, <1>10

\* A call that is over never becomes active again, and an accepted one neither
\* rings again nor becomes missed.
THEOREM NeverActiveAgain == Spec => ActiveOnlyOnce
<1>1. ASSUME TypeOK, [Next]_vars, NEW c \in Calls
      PROVE  /\ Active(c)' => Active(c) \/ calls[c].status = "unused"
             /\ calls[c].status = "accepted" => calls'[c].status \notin {"ringing", "missed"}
  <2>1. Kept(c) \/ Updated(c) \/ InsertedOrDeleted(c)
    BY <1>1, NextRows DEF RowSteps
  <2> QED
    BY <2>1 DEF Kept, Updated, InsertedOrDeleted, Active, ActiveStatus, TerminalStatus
<1>2. TypeOK /\ [Next]_vars =>
        [\A c \in Calls :
          /\ Active(c)' => Active(c) \/ calls[c].status = "unused"
          /\ calls[c].status = "accepted" =>
                calls'[c].status \notin {"ringing", "missed"}]_vars
  BY <1>1
<1> QED
  BY <1>2, TypeCorrect, PTL DEF Spec, ActiveOnlyOnce

\* Every update a client could notice raises the version of the row by one.
THEOREM VersionsTellApart == Spec => VersionCountsUpdates
<1>1. ASSUME TypeOK, [Next]_vars, NEW c \in Calls, Exists(c), Exists(c)',
             \E f \in {"status", "answered", "connected"} : calls'[c][f] # calls[c][f]
      PROVE  calls'[c].version = calls[c].version + 1
  <2>1. Kept(c) \/ Updated(c) \/ InsertedOrDeleted(c)
    BY <1>1, NextRows DEF RowSteps
  <2>2. ~Kept(c)
    BY <1>1 DEF Kept
  <2>3. ~InsertedOrDeleted(c)
    BY <1>1 DEF InsertedOrDeleted, Exists, Active, Terminal, ActiveStatus, TerminalStatus
  <2> QED
    BY <2>1, <2>2, <2>3 DEF Updated
<1>2. TypeOK /\ [Next]_vars =>
        [\A c \in Calls :
          LET seen == {"status", "answered", "connected"} IN
          Exists(c) /\ Exists(c)' /\ (\E f \in seen : calls'[c][f] # calls[c][f])
             => calls'[c].version = calls[c].version + 1]_vars
  BY <1>1
<1> QED
  BY <1>2, TypeCorrect, PTL DEF Spec, VersionCountsUpdates

===============================================================================
