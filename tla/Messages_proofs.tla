---------------------------- MODULE Messages_proofs ----------------------------
(* Proofs about Messages, for any users, scopes, nonces, requests, workers and *)
(* limits.                                                                     *)
EXTENDS Messages, FiniteSetTheorems, SequenceTheorems, TLAPS

-----------------------------------------------------------------------------
(* The invariant *)

Paths(r) == {p \in Path : p[1] = r}

\* Steps before anything of a request can be in the tables.
Before == {"idle", "lookup", "upload", "procedure", "insert", "rows"}

\* A request is about a message of the table, of somebody, in some scope, and
\* stores files under its own paths.
Shape(r, q, l, known) ==
    /\ q.pc \in {"lookup", "procedure", "insert"} => q.op \in {"post", "forward"}
    /\ q.pc = "upload" => q.op \in {"post", "forward", "edit"}
    /\ q.pc \in {"rows", "update", "unrow"} => q.op = "edit"
    /\ q.pc = "fallback" => q.op = "recall"
    /\ q.op \in {"post", "forward"} => q.user \in Users /\ q.scope \in Scopes
    /\ q.op = "edit" \/ q.pc \in {"emit", "fallback"} => q.msg \in known
    /\ q.todo \cup q.stored \subseteq Paths(r) /\ l \subseteq Paths(r)
Formed(r) == Shape(r, req[r], late[r], Known)

\* What a request stores is there until its rows are; its paths are new.
Stores(r) ==
    req[r].pc \in Before =>
        /\ req[r].stored \subseteq bucket
        /\ \A p \in Paths(r) : outbox[p].status = "none" /\ \A m \in Ids : <<m, p>> \notin rows

\* What is about to be removed is of no row, but one that was left behind unknown.
Removes(r) ==
    req[r].pc = "cleanup" => \A p \in req[r].stored, m \in Ids : <<m, p>> \in rows => p \in lost

\* A path is of one row, of a message in the table, and has no cleanup job.
Rowed ==
    \A m \in Ids, p \in Path : <<m, p>> \in rows =>
        /\ m \in Known /\ outbox[p].status = "none"
        /\ \A n \in Ids : <<n, p>> \in rows => n = m

\* Attempts are left as long as a job is open; a worker whose job it still is
\* knows how many were made.
Counted ==
    /\ \A p \in Path :
        /\ outbox[p].status \in {"pending", "processing"} => outbox[p].attempts < MaxAttempts
        /\ outbox[p].status = "failed" => outbox[p].attempts >= MaxAttempts
    /\ \A w \in Workers : \A c \in hand[w] :
        /\ outbox[c.path].status # "none"
        /\ Mine(w, c.path) => c.attempts = outbox[c.path].attempts

Emptied == \A m \in Known : msgs[m].state # "live" => msgs[m].text = Null

\* r is about to announce message m.
Announces(r, m) ==
    /\ req[r].pc = "emit" /\ req[r].op = "post" /\ ~req[r].quiet /\ req[r].msg = m
    /\ req[r].scope = msgs[m].scope
Quieted ==
    /\ \A m \in Known : msgs[m].scope \in Conversations =>
        /\ created[m] <= 1
        /\ \A r \in Requests : Announces(r, m) =>
            /\ created[m] = 0
            /\ \A q \in Requests : Announces(q, m) => q = r
    /\ \A m \in Ids \ Known : created[m] = 0

FilesFinite == \A m \in Ids : IsFiniteSet(FilesOf(m))

\* The actions of requests, in the order of a request's steps.
Starts(r) == PostConversation(r) \/ PostChannel(r) \/ Forward(r) \/ Edit(r) \/ Recall(r)
                \/ RecallUnaided(r)
Loads(r) ==
    \/ LookUpConversation(r) \/ LookUpChannel(r) \/ LookUpForward(r)
    \/ \E p \in Path :
        \/ UploadConversation(r, p) \/ UploadChannel(r, p) \/ UploadEdit(r, p)
        \/ UploadFailsConversation(r, p) \/ UploadFailsInTurn(r, p) \/ LateUpload(r, p)
    \/ \E p, q \in Path : Copy(r, p, q)
    \/ Uploaded(r)
Calls(r) ==
    \/ CreateInConversation(r) \/ CreateInChannel(r) \/ CreateForward(r)
    \/ InsertLoses(r) \/ Insert(r) \/ InsertReplyLost(r) \/ Refused(r)
Changes(r) ==
    \/ InsertRows(r) \/ InsertRowsFails(r) \/ InsertRowsReplyLost(r)
    \/ Update(r) \/ UpdateFails(r) \/ UpdateReplyLost(r) \/ Unrow(r) \/ UnrowFails(r)
    \/ RecallFallback(r)
Ends(r) ==
    \/ Cleanup(r) \/ CleanupFails(r) \/ Crash(r)
    \/ EmitConversation(r) \/ EmitChannel(r) \/ EmitForward(r) \/ EmitOther(r)

LEMMA NextCases ==
    ASSUME [Next]_vars
    PROVE  \/ UNCHANGED vars
           \/ \E r \in Requests : Starts(r) \/ Loads(r) \/ Calls(r) \/ Changes(r) \/ Ends(r)
           \/ \E w \in Workers : WorkerStep(w)
           \/ \E m \in Known : WindowCloses(m)
           \/ \E s \in Channels : DeleteChannel(s)
           \/ \E p \in Path : LeaseEnds(p)
<1>1. ASSUME NEW r \in Requests, SendStep(r)
      PROVE  Starts(r) \/ Loads(r) \/ Calls(r) \/ Ends(r)
    BY <1>1 DEF SendStep, Starts, Loads, Calls, Ends
<1>2. ASSUME NEW r \in Requests, ChangeStep(r)
      PROVE  Starts(r) \/ Changes(r) \/ Ends(r)
    BY <1>2 DEF ChangeStep, Starts, Changes, Ends
<1> QED
    BY <1>1, <1>2 DEF Next

-----------------------------------------------------------------------------
(* The table of messages *)

TableTyped == msgs \in Seq(Message) /\ Len(msgs) <= MaxMessages /\ Emptied

\* Messages are added, and one that is not live stays so, without a text.
Grown ==
    /\ Len(msgs) <= Len(msgs')
    /\ \A m \in Known :
        /\ msgs'[m].scope = msgs[m].scope
        /\ msgs[m].state # "live" => msgs'[m].state # "live" /\ msgs'[m].text = Null

LEMMA RowTyped == ASSUME TableTyped, NEW m \in Known PROVE msgs[m] \in Message /\ m \in Ids
<1>1. msgs[m] \in Message
    BY ElementOfSeq DEF TableTyped, Known
<1>2. Len(msgs) \in Nat
    BY LenProperties DEF TableTyped
<1> QED
    BY <1>1, <1>2, MessagesAssumption DEF TableTyped, Known, Ids

LEMMA SameTable == ASSUME TableTyped, msgs' = msgs PROVE TableTyped' /\ Grown
<1>1. Len(msgs) \in Nat
    BY LenProperties DEF TableTyped
<1> QED
    BY <1>1 DEF TableTyped, Grown, Known, Emptied

LEMMA AddedRow ==
    ASSUME TableTyped, NEW x \in Message, x.state = "live", Len(msgs) + 1 <= MaxMessages,
           msgs' = Append(msgs, x)
    PROVE  /\ TableTyped' /\ Grown /\ Known' = Known \cup {Len(msgs) + 1}
           /\ Len(msgs') = Len(msgs) + 1 /\ Len(msgs) \in Nat
           /\ msgs'[Len(msgs) + 1] = x /\ \A i \in Known : msgs'[i] = msgs[i]
<1>1. /\ msgs' \in Seq(Message) /\ Len(msgs') = Len(msgs) + 1
      /\ msgs'[Len(msgs) + 1] = x /\ \A i \in Known : msgs'[i] = msgs[i]
    BY AppendProperties DEF TableTyped, Known
<1>2. Len(msgs) \in Nat
    BY LenProperties DEF TableTyped
<1>3. Known' = Known \cup {Len(msgs) + 1}
    BY <1>1, <1>2 DEF Known
<1>4. Emptied'
    BY <1>1, <1>3 DEF TableTyped, Emptied
<1>5. TableTyped'
    BY <1>1, <1>4 DEF TableTyped
<1>6. Grown
    <2>1. Len(msgs) <= Len(msgs')
        BY <1>1, <1>2
    <2>2. \A i \in Known : msgs[i].state # "live" => msgs[i].text = Null
        BY DEF TableTyped, Emptied
    <2> QED
        BY <1>1, <2>1, <2>2 DEF Grown
<1> QED
    BY <1>1, <1>2, <1>3, <1>5, <1>6

\* The ways to change a row.
LEMMA ChangedRow ==
    ASSUME TableTyped, NEW m \in Known, NEW x \in Message, msgs' = [msgs EXCEPT ![m] = x],
           x.scope = msgs[m].scope, x.state # "live" => x.text = Null,
           msgs[m].state # "live" => x.state # "live"
    PROVE  TableTyped' /\ Grown
<1>1. /\ msgs' \in Seq(Message) /\ Len(msgs') = Len(msgs)
      /\ \A j \in 1..Len(msgs) : msgs'[j] = IF j = m THEN x ELSE msgs[j]
    BY ExceptSeq DEF TableTyped, Known
<1>2. Len(msgs) \in Nat
    BY LenProperties DEF TableTyped
<1> QED
    BY <1>1, <1>2 DEF TableTyped, Grown, Emptied, Known

LEMMA TableErased ==
    ASSUME TableTyped, NEW s, DeleteChannel(s)
    PROVE  TableTyped' /\ Grown
<1> DEFINE row(m) == IF msgs[m].scope = s
                     THEN [msgs[m] EXCEPT !.state = "erased", !.text = Null] ELSE msgs[m]
<1>1. msgs' = [m \in Known |-> row(m)]
    BY DEF DeleteChannel
<1>2. \A m \in Known : /\ row(m) \in Message /\ row(m).scope = msgs[m].scope
                       /\ row(m).state # "live" => row(m).text = Null
                       /\ msgs[m].state # "live" => row(m).state # "live"
    <2> SUFFICES ASSUME NEW m \in Known
                 PROVE  /\ row(m) \in Message /\ row(m).scope = msgs[m].scope
                        /\ row(m).state # "live" => row(m).text = Null
                        /\ msgs[m].state # "live" => row(m).state # "live"
        OBVIOUS
    <2>1. msgs[m] \in Message /\ (msgs[m].state # "live" => msgs[m].text = Null)
        BY RowTyped DEF TableTyped, Emptied
    <2> QED
        BY <2>1 DEF Message
<1> HIDE DEF row
<1>3. msgs' \in [1..Len(msgs) -> Message] /\ Len(msgs) \in Nat
    BY <1>1, <1>2, LenProperties DEF TableTyped, Known
<1>4. msgs' \in Seq(Message)
    BY <1>3, IsASeq
<1>5. Len(msgs') = Len(msgs)
    BY <1>3, <1>4, LenProperties
<1> QED
    BY <1>1, <1>2, <1>3, <1>4, <1>5 DEF TableTyped, Grown, Emptied, Known

LEMMA TableGrows ==
    ASSUME TableTyped, TypeOK, \A r \in Requests : Formed(r), [Next]_vars
    PROVE  TableTyped' /\ Grown
<1>1. CASE msgs' = msgs
    BY <1>1, SameTable
<1>2. ASSUME NEW r \in Requests, Insert(r) \/ InsertReplyLost(r) PROVE TableTyped' /\ Grown
    <2> DEFINE x == [author |-> req[r].user, scope |-> req[r].scope, nonce |-> req[r].nonce,
                     text |-> req[r].text, state |-> "live", fresh |-> TRUE]
    <2>1. Commit(r)
        BY <1>2 DEF Insert, InsertReplyLost
    <2>2. x \in Message /\ x.state = "live"
        BY <2>1 DEF Commit, TypeOK, Formed, Shape, Request, Message
    <2>3. msgs' = Append(msgs, x) /\ Len(msgs) + 1 <= MaxMessages
        BY <2>1 DEF Commit
    <2> HIDE DEF x
    <2> QED
        BY <2>2, <2>3, AddedRow
<1>3. ASSUME NEW r \in Requests, Update(r) \/ UpdateReplyLost(r) PROVE TableTyped' /\ Grown
    <2>1. PICK m \in Known : m = req[r].msg /\ msgs[m].state = "live"
        BY <1>3 DEF Update, UpdateReplyLost, WriteText, Live
    <2>2. PICK x : x = [msgs[m] EXCEPT !.text = req[r].text] /\ msgs' = [msgs EXCEPT ![m] = x]
        BY <1>3, <2>1 DEF Update, UpdateReplyLost, WriteText
    <2>t. msgs[m] \in Message /\ req[r].text \in Requests \cup {Null}
        BY RowTyped DEF TypeOK, Request
    <2>3. x \in Message /\ x.scope = msgs[m].scope /\ x.state = "live"
        BY <2>1, <2>2, <2>t DEF Message
    <2> QED
        BY <2>1, <2>2, <2>3, ChangedRow
<1>4. ASSUME NEW r \in Requests, RecallFallback(r), msgs' # msgs PROVE TableTyped' /\ Grown
    <2>1. PICK m \in Known : m = req[r].msg
        BY <1>4 DEF RecallFallback, Formed, Shape
    <2>2. msgs' = [msgs EXCEPT ![m].state = "recalled", ![m].text = Null]
        BY <1>4, <2>1 DEF RecallFallback
    <2>3. PICK x : /\ x = [msgs[m] EXCEPT !.state = "recalled", !.text = Null]
                   /\ msgs' = [msgs EXCEPT ![m] = x]
        BY <2>1, <2>2, RowTyped, LenProperties DEF TableTyped, Known, Message
    <2>4. x \in Message /\ x.scope = msgs[m].scope /\ x.state # "live" /\ x.text = Null
        BY <2>3, RowTyped DEF Message
    <2> QED
        BY <2>3, <2>4, ChangedRow
<1>5. ASSUME NEW r \in Requests, Recall(r), msgs' # msgs PROVE TableTyped' /\ Grown
    <2>1. PICK m \in Known : msgs' = [msgs EXCEPT ![m].state = "recalled", ![m].text = Null]
        BY <1>5 DEF Recall, RecallForEveryone
    <2>2. PICK x : /\ x = [msgs[m] EXCEPT !.state = "recalled", !.text = Null]
                   /\ msgs' = [msgs EXCEPT ![m] = x]
        BY <2>1, RowTyped, LenProperties DEF TableTyped, Known, Message
    <2>3. x \in Message /\ x.scope = msgs[m].scope /\ x.state # "live" /\ x.text = Null
        BY <2>2, RowTyped DEF Message
    <2> QED
        BY <2>2, <2>3, ChangedRow
<1>6. ASSUME NEW m \in Known, WindowCloses(m) PROVE TableTyped' /\ Grown
    <2>1. PICK x : x = [msgs[m] EXCEPT !.fresh = FALSE] /\ msgs' = [msgs EXCEPT ![m] = x]
        BY <1>6 DEF WindowCloses
    <2>2. x \in Message /\ x.scope = msgs[m].scope /\ x.state = "live" /\ msgs[m].state = "live"
        BY <1>6, <2>1, RowTyped DEF Message, WindowCloses, Live
    <2> QED
        BY <2>1, <2>2, ChangedRow
<1>7. ASSUME NEW r \in Requests, Starts(r) \/ Loads(r) \/ Calls(r) \/ Changes(r) \/ Ends(r)
      PROVE  TableTyped' /\ Grown
    <2>1. CASE Starts(r)
        BY <1>1, <1>5, <2>1 DEF Starts, PostConversation, PostChannel, Post, Forward, Edit,
            RecallUnaided, tables
    <2>2. CASE Loads(r)
        BY <1>1, <2>2 DEF Loads, LookUpConversation, LookUpChannel, LookUpForward, LookUp,
            UploadConversation, UploadChannel, UploadEdit, Upload, UploadFailsConversation,
            UploadFailsInTurn, LateUpload, Copy, Uploaded, tables
    <2>3. CASE Calls(r)
        BY <1>1, <1>2, <2>3 DEF Calls, CreateInConversation, CreateInChannel, CreateForward,
            FindNonce, InsertLoses, Refused, tables
    <2>4. CASE Changes(r)
        BY <1>1, <1>3, <1>4, <2>4 DEF Changes, InsertRows, InsertRowsFails, InsertRowsReplyLost,
            UpdateFails, Unrow, UnrowFails, tables
    <2>5. CASE Ends(r)
        BY <1>1, <2>5 DEF Ends, Cleanup, CleanupFails, Crash, EmitConversation, EmitChannel,
            EmitForward, Tell, EmitOther, tables
    <2> QED
        BY <1>7, <2>1, <2>2, <2>3, <2>4, <2>5
<1>8. ASSUME NEW w \in Workers, WorkerStep(w) PROVE TableTyped' /\ Grown
    BY <1>1, <1>8 DEF WorkerStep, Claim, Remove, RemoveFails, Record, RecordLost, WorkerStops, tables
<1>9. ASSUME NEW p \in Path, LeaseEnds(p) PROVE TableTyped' /\ Grown
    BY <1>1, <1>9 DEF LeaseEnds, tables
<1> QED
    BY <1>1, <1>6, <1>7, <1>8, <1>9, TableErased, NextCases DEF vars

-----------------------------------------------------------------------------
(* The requests *)

Core == TypeOK /\ Emptied /\ Counted /\ FilesFinite /\ \A r \in Requests : Formed(r)

\* A step of request r leaves it well formed, and the others alone.
Moved(r) ==
    /\ req' \in [Requests -> Request] /\ late' \in [Requests -> SUBSET Path]
    /\ Shape(r, req'[r], late'[r], Known')
    /\ \A q \in Requests \ {r} : req'[q] = req[q] /\ late'[q] = late[q]

LEMMA FreshPaths ==
    ASSUME NEW r \in Requests, NEW n \in 0..MaxPaths
    PROVE  Fresh(r, n) \subseteq Paths(r) /\ Fresh(r, n) \subseteq Path
BY MessagesAssumption DEF Fresh, Paths, Path

LEMMA KnownIds == ASSUME Core PROVE Known \subseteq Ids /\ 0 \notin Known /\ Known \subseteq 0..MaxMessages
<1>1. Len(msgs) \in Nat /\ Len(msgs) <= MaxMessages
    BY LenProperties DEF Core, TypeOK
<1> QED
    BY <1>1, MessagesAssumption DEF Known, Ids

LEMMA FilesCount ==
    ASSUME Core, NEW m \in Known
    PROVE  FilesOf(m) \subseteq Path /\ Cardinality(FilesOf(m)) \in Nat
<1>1. IsFiniteSet(FilesOf(m))
    BY KnownIds DEF Core, FilesFinite
<1> QED
    BY <1>1, FS_CardinalityType DEF FilesOf

LEMMA Replaced ==
    ASSUME Core, Known \subseteq Known', NEW r \in Requests, NEW y \in Request,
           req' = [req EXCEPT ![r] = y], late' = late, Shape(r, y, late[r], Known')
    PROVE  Moved(r)
BY DEF Moved, Core, TypeOK, Formed, Shape

LEMMA StartsMoved ==
    ASSUME Core, Known \subseteq Known', NEW r \in Requests, Starts(r)
    PROVE  Moved(r)
<1> USE DEF Core
<1>n. \A n \in 0..MaxFiles : n \in 0..MaxPaths
    BY MessagesAssumption
<1>i. Idle \in Request /\ late[r] \subseteq Paths(r)
    BY MessagesAssumption DEF Idle, Request, Steps, Ops, Formed, Shape
<1>1. ASSUME NEW u \in Users, NEW s \in Scopes, NEW k \in Nonces \cup {Null}, NEW t \in {r, Null},
             NEW n \in 0..MaxFiles, Post(r, u, s, k, t, n)
      PROVE  Moved(r)
    <2>1. Fresh(r, n) \subseteq Paths(r) /\ Fresh(r, n) \subseteq Path
        BY <1>n, FreshPaths
    <2>2. PICK F : F = Fresh(r, n)
        OBVIOUS
    <2>3. /\ req' = [req EXCEPT ![r] = [Idle EXCEPT !.pc = "lookup", !.op = "post", !.user = u,
                     !.scope = s, !.nonce = k, !.text = t, !.todo = F]]
          /\ late' = late
        BY <1>1, <2>2 DEF Post
    <2>4. /\ req' \in [Requests -> Request] /\ req'[r].todo = F /\ req'[r].stored = {}
          /\ req'[r].pc = "lookup" /\ req'[r].op = "post" /\ req'[r].user = u /\ req'[r].scope = s
          /\ \A q \in Requests \ {r} : req'[q] = req[q]
        <3>1. [Idle EXCEPT !.pc = "lookup", !.op = "post", !.user = u,
                     !.scope = s, !.nonce = k, !.text = t, !.todo = F] \in Request
            BY <1>i, <2>1, <2>2 DEF Request, Idle, Steps, Ops
        <3> QED
            BY <2>3, <3>1 DEF TypeOK, Idle
    <2> QED
        BY <1>i, <2>1, <2>2, <2>3, <2>4 DEF Moved, Shape, TypeOK
<1>2. CASE PostConversation(r) \/ PostChannel(r)
    BY <1>1, <1>2 DEF PostConversation, PostChannel, Scopes
<1>3. CASE Forward(r)
    <2>1. PICK u \in Users, m \in Known, s \in Scopes, k \in Nonces :
              /\ req[r].pc = "idle" /\ Live(m) /\ Cardinality(FilesOf(m)) <= MaxPaths
              /\ req' = [req EXCEPT ![r] =
                    [Idle EXCEPT !.pc = "lookup", !.op = "forward", !.user = u, !.scope = s,
                                 !.nonce = k, !.text = IF msgs[m].text = Null THEN Null ELSE r,
                                 !.todo = Fresh(r, Cardinality(FilesOf(m))),
                                 !.from = FilesOf(m)]]
              /\ UNCHANGED <<tables, bucket, storage, late, history>>
        BY <1>3 DEF Forward
    <2>a. (IF msgs[m].text = Null THEN Null ELSE r) \in {r, Null}
        OBVIOUS
    <2>b. PICK t \in {r, Null} : t = IF msgs[m].text = Null THEN Null ELSE r
        BY <2>a
    <2>2. PICK F, D, n : D = FilesOf(m) /\ n = Cardinality(FilesOf(m)) /\ F = Fresh(r, n)
        OBVIOUS
    <2>c. D \subseteq Path /\ n \in Nat
        BY <2>2, FilesCount
    <2>d. n \in 0..MaxPaths
        BY <2>1, <2>2, <2>c, MessagesAssumption
    <2>3. F \subseteq Paths(r) /\ F \subseteq Path /\ D \subseteq Path
        BY <2>2, <2>c, <2>d, FreshPaths
    <2>4. PICK y : /\ req' = [req EXCEPT ![r] = y] /\ late' = late
                   /\ y = [Idle EXCEPT !.pc = "lookup", !.op = "forward", !.user = u,
                     !.scope = s, !.nonce = k, !.text = t, !.todo = F, !.from = D]
        BY <2>1, <2>2, <2>b
    <2>5. y \in Request /\ Shape(r, y, late[r], Known')
        BY <1>i, <2>3, <2>4 DEF Shape, Request, Idle, Steps, Ops
    <2> QED
        BY <2>4, <2>5, Replaced
<1>4. CASE Edit(r)
    <2>1. PICK m \in Known, t \in {r, Null}, n \in 0..MaxFiles :
              /\ req' = [req EXCEPT ![r] =
                    [Idle EXCEPT !.pc = "upload", !.op = "edit", !.user = msgs[m].author,
                                 !.scope = msgs[m].scope, !.text = t, !.msg = m,
                                 !.todo = Fresh(r, n)]]
              /\ UNCHANGED <<tables, bucket, storage, late, history>>
        BY <1>4 DEF Edit
    <2>2. PICK F, u, s : F = Fresh(r, n) /\ u = msgs[m].author /\ s = msgs[m].scope
        OBVIOUS
    <2>3. F \subseteq Paths(r) /\ F \subseteq Path
        BY <1>n, <2>2, FreshPaths
    <2>4. u \in Users /\ s \in Scopes /\ m \in 0..MaxMessages
        BY <2>2, RowTyped, KnownIds DEF TableTyped, TypeOK, Message
    <2>5. PICK y : /\ req' = [req EXCEPT ![r] = y] /\ late' = late
                   /\ y = [Idle EXCEPT !.pc = "upload", !.op = "edit", !.user = u,
                     !.scope = s, !.text = t, !.msg = m, !.todo = F]
        BY <2>1, <2>2
    <2>6. y \in Request /\ Shape(r, y, late[r], Known')
        BY <1>i, <2>3, <2>4, <2>5 DEF Shape, Request, Idle, Steps, Ops
    <2> QED
        BY <2>5, <2>6, Replaced
<1>5. CASE Recall(r) \/ RecallUnaided(r)
    <2>1. PICK m \in Known, c \in {"emit", "fallback"} :
              /\ req' = [req EXCEPT ![r] = [Idle EXCEPT !.pc = c, !.op = "recall", !.msg = m]]
              /\ late' = late
        BY <1>5 DEF Recall, RecallUnaided
    <2>2. m \in 0..MaxMessages
        BY KnownIds
    <2> QED
        BY <1>i, <2>1, <2>2 DEF Moved, Shape, TypeOK, Request, Idle, Steps, Ops
<1> QED
    BY <1>2, <1>3, <1>4, <1>5 DEF Starts

LEMMA DoneTyped == Done \in Request /\ Done.pc = "done" /\ Done.op = "none" /\ Done.todo = {} /\ Done.stored = {}
<1>1. Idle \in Request
    BY MessagesAssumption DEF Idle, Request, Steps, Ops
<1> QED
    BY <1>1 DEF Done, Request, Steps, Idle

LEMMA LoadsMoved ==
    ASSUME Core, Known \subseteq Known', NEW r \in Requests, Loads(r)
    PROVE  Moved(r)
<1> USE DEF Core, Moved
<1>t. req \in [Requests -> Request] /\ late \in [Requests -> SUBSET Path]
    BY DEF TypeOK
<1>f. Shape(r, req[r], late[r], Known)
    BY DEF Formed
<1>1. CASE LookUp(r)
    BY <1>1, <1>t, <1>f, DoneTyped DEF LookUp, Shape, Request, Steps
<1>2. ASSUME NEW p \in Path, Upload(r, p) PROVE Moved(r)
    <2>q. PICK q \in Request : q = req[r]
        BY <1>t
    <2>1. PICK y : /\ req' = [req EXCEPT ![r] = y] /\ late' = late /\ p \in q.todo
                   /\ y = [q EXCEPT !.todo = @ \ {p}, !.stored = @ \cup {p}]
        BY <1>2, <1>t, <2>q DEF Upload, Request
    <2>2. y \in Request /\ Shape(r, y, late[r], Known')
        BY <2>q, <2>1, <1>f DEF Shape, Request
    <2> QED
        BY <2>1, <2>2, Replaced
<1>3. ASSUME NEW p \in Path, NEW q \in Path, Copy(r, p, q) PROVE Moved(r)
    BY <1>3, <1>t, <1>f DEF Copy, Shape, Request
<1>4. ASSUME NEW p \in Path, UploadFailsConversation(r, p) PROVE Moved(r)
    BY <1>4, <1>t, <1>f DEF UploadFailsConversation, Shape, Request, Steps
<1>5. ASSUME NEW p \in Path, UploadFailsInTurn(r, p) PROVE Moved(r)
    BY <1>5, <1>t, <1>f DEF UploadFailsInTurn, Shape, Request, Steps
<1>6. ASSUME NEW p \in Path, LateUpload(r, p) PROVE Moved(r)
    BY <1>6, <1>t, <1>f DEF LateUpload, Shape
<1>7. CASE Uploaded(r)
    <2>1. PICK c \in {"rows", "procedure"} :
              /\ req' = [req EXCEPT ![r].pc = c] /\ late' = late /\ req[r].pc = "upload"
              /\ c = IF req[r].op = "edit" THEN "rows" ELSE "procedure"
        BY <1>7 DEF Uploaded
    <2> QED
        BY <2>1, <1>t, <1>f DEF Shape, Request, Steps, Ops
<1> QED
    BY <1>1, <1>2, <1>3, <1>4, <1>5, <1>6, <1>7 DEF Loads, LookUpConversation, LookUpChannel,
        LookUpForward, UploadConversation, UploadChannel, UploadEdit

\* Where a message with the nonce is chosen.
LEMMA Chosen ==
    ASSUME NEW u, NEW k, SameNonce(u, k) # {}
    PROVE  (CHOOSE x \in SameNonce(u, k) : TRUE) \in SameNonce(u, k) /\ SameNonce(u, k) \subseteq Known
BY DEF SameNonce

\* What a commit adds to the table.
LEMMA Committed ==
    ASSUME Core, NEW r \in Requests, Commit(r)
    PROVE  \E x \in Message : msgs' = Append(msgs, x) /\ x.state = "live"
<1>1. req[r] \in Request /\ Shape(r, req[r], late[r], Known)
    BY DEF Core, TypeOK, Formed
<1>2. PICK x : /\ msgs' = Append(msgs, x)
               /\ x = [author |-> req[r].user, scope |-> req[r].scope, nonce |-> req[r].nonce,
                       text |-> req[r].text, state |-> "live", fresh |-> TRUE]
    BY DEF Commit
<1>3. x \in Message /\ x.state = "live"
    BY <1>1, <1>2 DEF Commit, Shape, Request, Message
<1> QED
    BY <1>2, <1>3

LEMMA CallsMoved ==
    ASSUME Core, Known \subseteq Known', NEW r \in Requests, Calls(r)
    PROVE  Moved(r)
<1> USE DEF Core, Moved
<1>t. req \in [Requests -> Request] /\ late \in [Requests -> SUBSET Path]
    BY DEF TypeOK
<1>f. Shape(r, req[r], late[r], Known)
    BY DEF Formed
<1>m. SameNonce(req[r].user, req[r].nonce) # {} =>
        (CHOOSE x \in SameNonce(req[r].user, req[r].nonce) : TRUE) \in Known \cap Ids \cap 0..MaxMessages
    BY Chosen, KnownIds
<1>p. PICK S, m : /\ S = SameNonce(req[r].user, req[r].nonce) /\ m = CHOOSE x \in S : TRUE
                  /\ S # {} => m \in Known /\ m \in 0..MaxMessages
    BY <1>m
<1>q. PICK q \in Request : q = req[r]
    BY <1>t
<1>c. ASSUME NEW c \in {"insert", "cleanup"}, req' = [req EXCEPT ![r] = [@ EXCEPT !.pc = c]], late' = late,
             q.pc \in {"procedure", "insert"}
      PROVE  Moved(r)
    <2>1. PICK y : req' = [req EXCEPT ![r] = y] /\ y = [q EXCEPT !.pc = c]
        BY <1>c, <1>q
    <2>2. y \in Request /\ Shape(r, y, late[r], Known')
        BY <1>c, <2>1, <1>q, <1>f DEF Shape, Request, Steps
    <2> QED
        BY <1>c, <2>1, <2>2, Replaced
<1>e. ASSUME NEW b \in BOOLEAN, S # {}, late' = late,
             req' = [req EXCEPT ![r] = [@ EXCEPT !.pc = "emit", !.msg = m, !.quiet = b]]
      PROVE  Moved(r)
    <2>1. PICK y : req' = [req EXCEPT ![r] = y] /\ y = [q EXCEPT !.pc = "emit", !.msg = m, !.quiet = b]
        BY <1>e, <1>q
    <2>2. y \in Request /\ Shape(r, y, late[r], Known')
        BY <1>e, <2>1, <1>q, <1>f, <1>p DEF Shape, Request, Steps
    <2> QED
        BY <1>e, <2>1, <2>2, Replaced
<1>1. ASSUME NEW b \in BOOLEAN, FindNonce(r, b)
      PROVE  Moved(r)
    <2>1. late' = late /\ q.pc = "procedure"
        BY <1>1, <1>q DEF FindNonce
    <2>2. CASE S = {} /\ Fits(r)
        <3>1. req' = [req EXCEPT ![r] = [@ EXCEPT !.pc = "insert"]]
            BY <1>1, <2>2, <1>p DEF FindNonce
        <3> QED
            BY <3>1, <2>1, <1>c
    <2>3. CASE S = {} /\ ~Fits(r)
        <3>1. req' = [req EXCEPT ![r] = [@ EXCEPT !.pc = "cleanup"]]
            BY <1>1, <2>3, <1>p DEF FindNonce
        <3> QED
            BY <3>1, <2>1, <1>c
    <2>4. CASE S # {} /\ Elsewhere(m, req[r].scope)
        <3>1. req' = [req EXCEPT ![r] = [@ EXCEPT !.pc = "cleanup"]]
            BY <1>1, <2>4, <1>p DEF FindNonce
        <3> QED
            BY <3>1, <2>1, <1>c
    <2>5. CASE S # {} /\ ~Elsewhere(m, req[r].scope)
        <3>1. req' = [req EXCEPT ![r] = [@ EXCEPT !.pc = "emit", !.msg = m, !.quiet = b]]
            BY <1>1, <2>5, <1>p DEF FindNonce
        <3> QED
            BY <3>1, <2>1, <2>5, <1>e
    <2> QED
        BY <2>2, <2>3, <2>4, <2>5
<1>2. CASE InsertLoses(r)
    <2>1. S # {} /\ late' = late /\ q.pc = "insert"
        BY <1>2, <1>p, <1>q DEF InsertLoses
    <2>2. CASE req' = [req EXCEPT ![r] = [@ EXCEPT !.pc = "cleanup"]]
        BY <2>1, <2>2, <1>c
    <2>3. PICK b \in BOOLEAN : b = (req[r].op = "post")
        OBVIOUS
    <2>4. CASE req' = [req EXCEPT ![r] = [@ EXCEPT !.pc = "emit", !.msg = m, !.quiet = b]]
        BY <2>1, <2>4, <1>e
    <2> QED
        BY <1>2, <1>p, <2>2, <2>3, <2>4 DEF InsertLoses
<1>3. CASE Insert(r)
    <2>1. PICK y \in Message : msgs' = Append(msgs, y) /\ y.state = "live" /\ Len(msgs) + 1 <= MaxMessages
        BY <1>3, Committed DEF Insert, Commit
    <2>2. Len(msgs') = Len(msgs) + 1 /\ Len(msgs) \in Nat /\ Known' = Known \cup {Len(msgs) + 1}
        BY <2>1, AddedRow DEF TableTyped, TypeOK
    <2>3. Len(msgs') \in 0..MaxMessages /\ Len(msgs') \in Known'
        BY <2>1, <2>2, MessagesAssumption
    <2>n. PICK n : n = Len(msgs')
        OBVIOUS
    <2>4. PICK z : /\ req' = [req EXCEPT ![r] = z] /\ late' = late
                   /\ z = [q EXCEPT !.pc = "emit", !.msg = n]
        BY <1>3, <1>t, <1>q, <2>n DEF Insert, Request
    <2>5. q.pc = "insert"
        BY <1>3, <1>q DEF Insert, Commit
    <2>6. z \in Request /\ Shape(r, z, late[r], Known')
        BY <1>q, <1>f, <2>3, <2>n, <2>4, <2>5 DEF Shape, Request, Steps
    <2> QED
        BY <2>4, <2>6, Replaced
<1>4. CASE InsertReplyLost(r) \/ Refused(r)
    BY <1>4, <1>t, <1>f DEF InsertReplyLost, Refused, Shape, Request, Steps
<1> QED
    BY <1>1, <1>2, <1>3, <1>4 DEF Calls, CreateInConversation, CreateInChannel, CreateForward

LEMMA ChangesMoved ==
    ASSUME Core, Known \subseteq Known', NEW r \in Requests, Changes(r)
    PROVE  Moved(r)
<1> USE DEF Core, Moved
<1>t. req \in [Requests -> Request] /\ late \in [Requests -> SUBSET Path]
    BY DEF TypeOK
<1>f. Shape(r, req[r], late[r], Known)
    BY DEF Formed
<1> QED
    BY <1>t, <1>f DEF Changes, InsertRows, AddRows, InsertRowsFails, InsertRowsReplyLost, Update,
        UpdateFails, UpdateReplyLost, WriteText, Unrow, UnrowFails, RecallFallback, Shape, Request, Steps

LEMMA EndsMoved ==
    ASSUME Core, Known \subseteq Known', NEW r \in Requests, Ends(r)
    PROVE  Moved(r)
<1> USE DEF Core, Moved
<1>t. req \in [Requests -> Request] /\ late \in [Requests -> SUBSET Path]
    BY DEF TypeOK
<1>f. Shape(r, req[r], late[r], Known)
    BY DEF Formed
<1> QED
    BY <1>t, <1>f, DoneTyped DEF Ends, Cleanup, CleanupFails, Crash, EmitConversation, EmitChannel,
        EmitForward, Tell, EmitOther, Shape

\* Every request is well formed after every step.
LEMMA Going ==
    ASSUME Core, [Next]_vars
    PROVE  /\ TableTyped' /\ Grown /\ Known \subseteq Known'
           /\ req' \in [Requests -> Request] /\ late' \in [Requests -> SUBSET Path]
           /\ \A q \in Requests : Formed(q)'
<1>1. TableTyped' /\ Grown
    BY TableGrows DEF Core, TableTyped, TypeOK
<1>2. Len(msgs) \in Nat /\ Len(msgs') \in Nat
    BY <1>1, LenProperties DEF TableTyped, Core, TypeOK
<1>3. Known \subseteq Known'
    BY <1>1, <1>2 DEF Grown, Known
<1>t. /\ req \in [Requests -> Request] /\ late \in [Requests -> SUBSET Path]
      /\ \A q \in Requests : Shape(q, req[q], late[q], Known)
    BY DEF Core, TypeOK, Formed
<1>4. ASSUME NEW r \in Requests, Moved(r)
      PROVE  /\ req' \in [Requests -> Request] /\ late' \in [Requests -> SUBSET Path]
             /\ \A q \in Requests : Shape(q, req'[q], late'[q], Known')
    BY <1>3, <1>t, <1>4 DEF Moved, Shape
<1>5. CASE UNCHANGED <<req, late>>
    BY <1>1, <1>3, <1>5, <1>t DEF Formed, Shape
<1>6. ASSUME NEW r \in Requests, Starts(r) \/ Loads(r) \/ Calls(r) \/ Changes(r) \/ Ends(r)
      PROVE  Moved(r)
    BY <1>3, <1>6, StartsMoved, LoadsMoved, CallsMoved, ChangesMoved, EndsMoved
<1>7. ASSUME NEW w \in Workers, WorkerStep(w) PROVE UNCHANGED <<req, late>>
    BY <1>7 DEF WorkerStep, Claim, Remove, RemoveFails, Record, RecordLost, WorkerStops
<1> QED
    BY <1>1, <1>3, <1>4, <1>5, <1>6, <1>7, NextCases DEF vars, WindowCloses, DeleteChannel, LeaseEnds, Formed

-----------------------------------------------------------------------------
(* The cleanup jobs *)

JobTyped == outbox \in [Path -> Job] /\ hand \in [Workers -> SUBSET Claimed]

LEMMA JobsSame ==
    ASSUME Core, outbox' = outbox,
           \/ hand' = hand
           \/ \E w \in Workers : \E H \in SUBSET hand[w] : hand' = [hand EXCEPT ![w] = H]
    PROVE  JobTyped' /\ Counted'
BY DEF JobTyped, Core, TypeOK, Counted, Mine

\* New jobs: for files that had none, or anew for those of a deleted channel.
LEMMA JobsOpened ==
    ASSUME Core, hand' = hand, outbox' \in [Path -> Job],
           \A p \in Path : \/ outbox'[p] = outbox[p]
                           \/ outbox'[p].status = "pending" /\ outbox'[p].attempts = 0
    PROVE  JobTyped' /\ Counted'
<1>1. 0 < MaxAttempts /\ MaxAttempts \in Nat
    BY MessagesAssumption
<1>2. \A w \in Workers : \A c \in hand[w] : c.path \in Path
    BY DEF Core, TypeOK, Claimed
<1>3. JobTyped'
    BY DEF JobTyped, Core, TypeOK
<1>4. \A p \in Path : /\ outbox'[p].status \in {"pending", "processing"} => outbox'[p].attempts < MaxAttempts
                      /\ outbox'[p].status = "failed" => outbox'[p].attempts >= MaxAttempts
    BY <1>1 DEF Core, Counted
<1>5. \A w \in Workers : \A c \in hand[w] :
        /\ outbox'[c.path].status # "none"
        /\ outbox'[c.path].status = "processing" /\ outbox'[c.path].by = w
              => c.attempts = outbox'[c.path].attempts
    BY <1>2 DEF Core, Counted, Mine
<1> QED
    BY <1>3, <1>4, <1>5 DEF Counted, Mine

LEMMA JobsQueued ==
    ASSUME Core, NEW r \in Requests, Recall(r)
    PROVE  JobTyped' /\ Counted'
<1>1. CASE outbox' = outbox
    BY <1>1, JobsSame DEF Recall
<1>2. CASE outbox' # outbox
    <2>1. PICK m \in Known : outbox' = Queued(FilesOf(m))
        BY <1>2 DEF Recall, RecallForEveryone
    <2>2. [NoJob EXCEPT !.status = "pending"] \in Job /\ [NoJob EXCEPT !.status = "pending"].status = "pending"
          /\ [NoJob EXCEPT !.status = "pending"].attempts = 0
        <3>1. 0 \in 0..MaxAttempts
            BY MessagesAssumption
        <3> QED
            BY <3>1 DEF NoJob, Job
    <2>3. /\ outbox' \in [Path -> Job]
          /\ \A p \in Path : \/ outbox'[p] = outbox[p]
                             \/ outbox'[p].status = "pending" /\ outbox'[p].attempts = 0
        BY <2>1, <2>2 DEF Queued, Core, TypeOK
    <2> QED
        BY <2>3, JobsOpened DEF Recall
<1> QED
    BY <1>1, <1>2

LEMMA JobsReopened ==
    ASSUME Core, NEW s, DeleteChannel(s)
    PROVE  JobTyped' /\ Counted'
<1> DEFINE again(p) == [outbox[p] EXCEPT !.status = "pending", !.attempts = 0]
<1>1. \A p \in Path : again(p) \in Job /\ again(p).status = "pending" /\ again(p).attempts = 0
    <2>1. 0 \in 0..MaxAttempts
        BY MessagesAssumption
    <2>2. \A p \in Path : outbox[p] \in Job
        BY DEF Core, TypeOK
    <2> QED
        BY <2>1, <2>2 DEF Job
<1>2. PICK G : outbox' = [p \in Path |-> IF \E m \in G : p \in FilesOf(m) THEN again(p) ELSE outbox[p]]
    BY DEF DeleteChannel
<1> HIDE DEF again
<1>3. /\ outbox' \in [Path -> Job]
      /\ \A p \in Path : \/ outbox'[p] = outbox[p]
                         \/ outbox'[p].status = "pending" /\ outbox'[p].attempts = 0
    BY <1>1, <1>2 DEF Core, TypeOK
<1> QED
    BY <1>3, JobsOpened DEF DeleteChannel

LEMMA JobsClaimed ==
    ASSUME Core, NEW w \in Workers, NEW P \in SUBSET Path, Claim(w, P)
    PROVE  JobTyped' /\ Counted'
<1> DEFINE held(p) == [outbox[p] EXCEPT !.status = "processing", !.by = w, !.leased = TRUE]
           mine(p) == [path |-> p, attempts |-> outbox[p].attempts, removed |-> "no"]
<1>0. /\ MaxAttempts \in Nat /\ outbox \in [Path -> Job] /\ hand \in [Workers -> SUBSET Claimed]
      /\ \A p \in Path : outbox[p].status \in {"pending", "processing"} => outbox[p].attempts < MaxAttempts
      /\ \A v \in Workers : \A c \in hand[v] :
            outbox[c.path].status # "none" /\ (Mine(v, c.path) => c.attempts = outbox[c.path].attempts)
    BY MessagesAssumption DEF Core, TypeOK, Counted
<1>1. \A p \in P : /\ held(p) \in Job /\ held(p).status = "processing" /\ held(p).by = w
                   /\ held(p).attempts = outbox[p].attempts /\ outbox[p].attempts < MaxAttempts
    BY <1>0 DEF Job, Claim, Claimable
<1>2. \A p \in P : mine(p) \in Claimed /\ mine(p).path = p /\ mine(p).attempts = outbox[p].attempts
    BY <1>0 DEF Job, Claimed
<1>3. /\ outbox' = [p \in Path |-> IF p \in P THEN held(p) ELSE outbox[p]]
      /\ hand' = [hand EXCEPT ![w] = {mine(p) : p \in P}]
    BY DEF Claim
<1> HIDE DEF held, mine
<1>4. JobTyped'
    BY <1>0, <1>1, <1>2, <1>3 DEF JobTyped
<1>5. \A p \in Path : /\ outbox'[p].status \in {"pending", "processing"} => outbox'[p].attempts < MaxAttempts
                      /\ outbox'[p].status = "failed" => outbox'[p].attempts >= MaxAttempts
    BY <1>0, <1>1, <1>3 DEF Core, Counted
<1>6. ASSUME NEW v \in Workers, NEW c \in hand'[v]
      PROVE  /\ outbox'[c.path].status # "none"
             /\ outbox'[c.path].status = "processing" /\ outbox'[c.path].by = v
                    => c.attempts = outbox'[c.path].attempts
    <2>1. CASE v = w
        <3>1. PICK p \in P : c = mine(p)
            BY <1>0, <1>3, <1>6, <2>1
        <3> QED
            BY <3>1, <1>1, <1>2, <1>3
    <2>2. CASE v # w
        <3>1. c \in hand[v] /\ c.path \in Path
            BY <1>0, <1>3, <1>6, <2>2 DEF Claimed
        <3>2. CASE c.path \in P
            BY <3>1, <3>2, <1>1, <1>3, <2>2
        <3>3. CASE c.path \notin P
            <4>1. outbox'[c.path] = outbox[c.path]
                BY <3>1, <3>3, <1>3
            <4> QED
                BY <3>1, <4>1, <1>0 DEF Mine
        <3> QED
            BY <3>2, <3>3
    <2> QED
        BY <2>1, <2>2
<1> QED
    BY <1>4, <1>5, <1>6 DEF Counted, Mine

LEMMA JobsTried ==
    ASSUME Core, NEW w \in Workers, NEW c \in hand[w], Remove(w, c) \/ RemoveFails(w, c)
    PROVE  JobTyped' /\ Counted'
<1>0. c \in Claimed /\ hand \in [Workers -> SUBSET Claimed]
    BY DEF Core, TypeOK
<1>1. PICK d : /\ d \in Claimed /\ d.path = c.path /\ d.attempts = c.attempts
               /\ hand' = [hand EXCEPT ![w] = (@ \ {c}) \cup {d}] /\ outbox' = outbox
    <2>1. /\ [c EXCEPT !.removed = "yes"] \in Claimed /\ [c EXCEPT !.removed = "yes"].path = c.path
          /\ [c EXCEPT !.removed = "yes"].attempts = c.attempts
          /\ [c EXCEPT !.removed = "error"] \in Claimed /\ [c EXCEPT !.removed = "error"].path = c.path
          /\ [c EXCEPT !.removed = "error"].attempts = c.attempts
        BY <1>0 DEF Claimed
    <2> QED
        BY <2>1 DEF Remove, RemoveFails
<1>2. hand' \in [Workers -> SUBSET Claimed]
    BY <1>0, <1>1
<1>3. \A v \in Workers : \A e \in hand'[v] : \E f \in hand[v] : e.path = f.path /\ e.attempts = f.attempts
    BY <1>0, <1>1
<1> QED
    BY <1>1, <1>2, <1>3 DEF JobTyped, Core, TypeOK, Counted, Mine

LEMMA JobsRecorded ==
    ASSUME Core, NEW w \in Workers, NEW c \in hand[w], Record(w, c)
    PROVE  JobTyped' /\ Counted'
<1>1. CASE outbox' = outbox
    <2>1. hand[w] \ {c} \in SUBSET hand[w] /\ hand' = [hand EXCEPT ![w] = hand[w] \ {c}]
        BY DEF Record
    <2> QED
        BY <1>1, <2>1, JobsSame
<1>2. CASE outbox' # outbox
    <2>0. /\ MaxAttempts \in Nat /\ outbox \in [Path -> Job] /\ hand \in [Workers -> SUBSET Claimed]
          /\ c \in Claimed /\ c.path \in Path
        BY MessagesAssumption DEF Core, TypeOK, Claimed
    <2>1. Mine(w, c.path)
        BY <1>2 DEF Record
    <2>2. c.attempts = outbox[c.path].attempts /\ c.attempts < MaxAttempts /\ c.attempts \in Nat
        BY <2>0, <2>1 DEF Core, Counted, Mine, Claimed
    <2>3. PICK y : /\ y \in Job /\ y.by = Null /\ y.status \in {"completed", "failed", "pending"}
                   /\ y.status = "pending" => y.attempts < MaxAttempts
                   /\ y.status = "failed" => y.attempts >= MaxAttempts
                   /\ outbox' = [outbox EXCEPT ![c.path] = y]
        <3>1. CASE c.removed = "yes"
            <4>1. PICK y : /\ outbox' = [outbox EXCEPT ![c.path] = y]
                           /\ y = [status |-> "completed", attempts |-> outbox[c.path].attempts,
                                   by |-> Null, leased |-> FALSE]
                BY <2>1, <3>1 DEF Record
            <4> QED
                BY <4>1, <2>0 DEF Job
        <3>2. CASE c.removed # "yes"
            <4>1. PICK t : t = c.attempts + 1
                OBVIOUS
            <4>2. t \in 0..MaxAttempts
                BY <2>0, <2>2, <4>1
            <4>3. PICK y, g : /\ outbox' = [outbox EXCEPT ![c.path] = y]
                              /\ y = [status |-> g, attempts |-> t, by |-> Null, leased |-> FALSE]
                              /\ g = IF t >= MaxAttempts THEN "failed" ELSE "pending"
                BY <2>1, <3>2, <4>1 DEF Record
            <4>4. (t >= MaxAttempts /\ g = "failed") \/ (t < MaxAttempts /\ g = "pending")
                BY <2>0, <4>2, <4>3
            <4> QED
                BY <4>2, <4>3, <4>4, <2>0 DEF Job
        <3> QED
            BY <3>1, <3>2
    <2>4. hand' = [hand EXCEPT ![w] = hand[w] \ {c}]
        BY DEF Record
    <2>5. JobTyped'
        BY <2>0, <2>3, <2>4 DEF JobTyped
    <2>6. \A v \in Workers : hand'[v] \subseteq hand[v] /\ \A d \in hand[v] : d.path \in Path
        BY <2>0, <2>4 DEF Claimed
    <2>7. y.by \notin Workers
        BY <2>3, MessagesAssumption
    <2> QED
        BY <2>0, <2>3, <2>5, <2>6, <2>7 DEF Core, Counted, Mine
<1> QED
    BY <1>1, <1>2

LEMMA JobsLapse ==
    ASSUME Core, NEW p \in Path, LeaseEnds(p)
    PROVE  JobTyped' /\ Counted'
<1>0. outbox \in [Path -> Job] /\ hand \in [Workers -> SUBSET Claimed]
    BY DEF Core, TypeOK
<1>1. PICK y : outbox' = [outbox EXCEPT ![p] = y] /\ y = [outbox[p] EXCEPT !.leased = FALSE] /\ hand' = hand
    BY DEF LeaseEnds
<1>2. y \in Job /\ y.status = outbox[p].status /\ y.by = outbox[p].by /\ y.attempts = outbox[p].attempts
    BY <1>0, <1>1 DEF Job
<1>3. /\ outbox' \in [Path -> Job]
      /\ \A q \in Path : outbox'[q].status = outbox[q].status /\ outbox'[q].by = outbox[q].by
                            /\ outbox'[q].attempts = outbox[q].attempts
    BY <1>0, <1>1, <1>2
<1>4. \A w \in Workers : \A c \in hand[w] : c.path \in Path
    BY <1>0 DEF Claimed
<1> QED
    BY <1>0, <1>1, <1>3, <1>4 DEF JobTyped, Core, Counted, Mine

LEMMA Jobs ==
    ASSUME Core, [Next]_vars
    PROVE  JobTyped' /\ Counted'
<1>1. CASE UNCHANGED storage
    BY <1>1, JobsSame DEF storage
<1>2. ASSUME NEW r \in Requests, Starts(r) \/ Loads(r) \/ Calls(r) \/ Changes(r) \/ Ends(r)
      PROVE  JobTyped' /\ Counted'
    <2>1. CASE Starts(r)
        BY <1>1, <2>1, JobsQueued DEF Starts, PostConversation, PostChannel, Post, Forward, Edit,
            RecallUnaided
    <2>2. CASE Loads(r)
        BY <1>1, <2>2 DEF Loads, LookUpConversation, LookUpChannel, LookUpForward, LookUp,
            UploadConversation, UploadChannel, UploadEdit, Upload, UploadFailsConversation,
            UploadFailsInTurn, LateUpload, Copy, Uploaded
    <2>3. CASE Calls(r)
        BY <1>1, <2>3 DEF Calls, CreateInConversation, CreateInChannel, CreateForward,
            FindNonce, InsertLoses, Insert, InsertReplyLost, Refused
    <2>4. CASE Changes(r)
        BY <1>1, <2>4 DEF Changes, InsertRows, InsertRowsFails, InsertRowsReplyLost,
            Update, UpdateReplyLost, UpdateFails, Unrow, UnrowFails, RecallFallback
    <2>5. CASE Ends(r)
        BY <1>1, <2>5 DEF Ends, Cleanup, CleanupFails, Crash, EmitConversation, EmitChannel,
            EmitForward, Tell, EmitOther
    <2> QED
        BY <1>2, <2>1, <2>2, <2>3, <2>4, <2>5
<1>3. ASSUME NEW w \in Workers, WorkerStep(w) PROVE JobTyped' /\ Counted'
    <2>1. ASSUME NEW c \in hand[w], RecordLost(w, c) PROVE JobTyped' /\ Counted'
        <3>1. hand[w] \ {c} \in SUBSET hand[w] /\ hand' = [hand EXCEPT ![w] = hand[w] \ {c}] /\ outbox' = outbox
            BY <2>1 DEF RecordLost
        <3> QED
            BY <3>1, JobsSame
    <2>2. CASE WorkerStops(w)
        <3>1. {} \in SUBSET hand[w] /\ hand' = [hand EXCEPT ![w] = {}] /\ outbox' = outbox
            BY <2>2 DEF WorkerStops
        <3> QED
            BY <3>1, JobsSame
    <2> QED
        BY <1>3, <2>1, <2>2, JobsClaimed, JobsTried, JobsRecorded DEF WorkerStep
<1> QED
    BY <1>1, <1>2, <1>3, JobsReopened, JobsLapse, NextCases DEF vars, WindowCloses, storage

-----------------------------------------------------------------------------
(* The rows, the files and the histories *)

RowTypes == rows \in SUBSET (Ids \X Path) /\ FilesFinite

LEMMA PathsFinite == ASSUME NEW r \in Requests PROVE IsFiniteSet(Paths(r))
<1>1. IsFiniteSet({r}) /\ IsFiniteSet(1..MaxPaths)
    <2>1. 1 \in Int /\ MaxPaths \in Int
        BY MessagesAssumption
    <2> QED
        BY <2>1, FS_Singleton, FS_Interval
<1>2. IsFiniteSet({r} \X (1..MaxPaths))
    BY <1>1, FS_Product
<1>3. Paths(r) \subseteq {r} \X (1..MaxPaths)
    BY DEF Paths, Path
<1> QED
    BY <1>2, <1>3, FS_Subset

LEMMA RowsRemoved == ASSUME Core, rows' \subseteq rows PROVE RowTypes'
<1>1. \A m \in Ids : FilesOf(m)' \subseteq FilesOf(m)
    BY DEF FilesOf
<1> QED
    BY <1>1, FS_Subset DEF RowTypes, FilesFinite, Core, TypeOK

LEMMA RowsAdded ==
    ASSUME Core, NEW r \in Requests, NEW m \in Ids, rows' = rows \cup ({m} \X req[r].stored)
    PROVE  RowTypes'
<1>1. req[r].stored \subseteq Paths(r) /\ req[r].stored \subseteq Path
    BY DEF Core, TypeOK, Request, Formed, Shape
<1>2. IsFiniteSet(req[r].stored)
    BY <1>1, PathsFinite, FS_Subset
<1>3. ASSUME NEW n \in Ids PROVE IsFiniteSet(FilesOf(n)')
    <2>1. FilesOf(n)' \subseteq FilesOf(n) \cup req[r].stored
        BY DEF FilesOf
    <2>2. IsFiniteSet(FilesOf(n) \cup req[r].stored)
        BY <1>2, FS_Union DEF Core, FilesFinite
    <2> QED
        BY <2>1, <2>2, FS_Subset
<1> QED
    BY <1>1, <1>3 DEF RowTypes, FilesFinite, Core, TypeOK

LEMMA Rows ==
    ASSUME Core, [Next]_vars
    PROVE  RowTypes'
<1>1. CASE rows' \subseteq rows
    BY <1>1, RowsRemoved
<1>2. ASSUME NEW r \in Requests, Insert(r) \/ InsertReplyLost(r) PROVE RowTypes'
    <2>1. PICK m : m = Len(msgs) + 1 /\ m <= MaxMessages /\ rows' = rows \cup ({m} \X req[r].stored)
        BY <1>2 DEF Insert, InsertReplyLost, Commit
    <2>2. m \in Ids
        BY <2>1, LenProperties, MessagesAssumption DEF Core, TypeOK, Ids
    <2> QED
        BY <2>1, <2>2, RowsAdded
<1>3. ASSUME NEW r \in Requests, InsertRows(r) \/ InsertRowsReplyLost(r) PROVE RowTypes'
    <2>1. req[r].msg \in Ids /\ rows' = rows \cup ({req[r].msg} \X req[r].stored)
        BY <1>3, KnownIds DEF InsertRows, InsertRowsReplyLost, AddRows, Core, Formed, Shape
    <2> QED
        BY <2>1, RowsAdded
<1>4. ASSUME NEW r \in Requests, Starts(r) \/ Loads(r) \/ Calls(r) \/ Changes(r) \/ Ends(r)
      PROVE  RowTypes'
    <2>1. CASE Starts(r)
        BY <1>1, <2>1 DEF Starts, PostConversation, PostChannel, Post, Forward, Edit,
            Recall, RecallForEveryone, RecallUnaided, tables
    <2>2. CASE Loads(r)
        BY <1>1, <2>2 DEF Loads, LookUpConversation, LookUpChannel, LookUpForward, LookUp,
            UploadConversation, UploadChannel, UploadEdit, Upload, UploadFailsConversation,
            UploadFailsInTurn, LateUpload, Copy, Uploaded, tables
    <2>3. CASE Calls(r)
        BY <1>1, <1>2, <2>3 DEF Calls, CreateInConversation, CreateInChannel, CreateForward,
            FindNonce, InsertLoses, Refused, tables
    <2>4. CASE Changes(r)
        BY <1>1, <1>3, <2>4 DEF Changes, InsertRowsFails, Update, UpdateReplyLost,
            UpdateFails, Unrow, UnrowFails, RecallFallback, tables
    <2>5. CASE Ends(r)
        BY <1>1, <2>5 DEF Ends, Cleanup, CleanupFails, Crash, EmitConversation, EmitChannel,
            EmitForward, Tell, EmitOther, tables
    <2> QED
        BY <1>4, <2>1, <2>2, <2>3, <2>4, <2>5
<1>5. ASSUME NEW w \in Workers, WorkerStep(w) PROVE rows' = rows
    BY <1>5 DEF WorkerStep, Claim, Remove, RemoveFails, Record, RecordLost, WorkerStops, tables
<1> QED
    BY <1>1, <1>4, <1>5, NextCases DEF vars, WindowCloses, DeleteChannel, LeaseEnds, tables

OtherTypes ==
    /\ bucket \in SUBSET Path /\ closed \in SUBSET Channels /\ lost \in SUBSET Path
    /\ created \in [Ids -> Nat] /\ faults \in 0..MaxFaults

LEMMA FaultCounted == ASSUME Core, Fault PROVE faults' \in 0..MaxFaults
BY MessagesAssumption DEF Fault, Core, TypeOK

LEMMA Others ==
    ASSUME Core, [Next]_vars
    PROVE  OtherTypes'
<1>o. /\ bucket \subseteq Path /\ closed \subseteq Channels /\ lost \subseteq Path
      /\ created \in [Ids -> Nat] /\ faults \in 0..MaxFaults
    BY DEF Core, TypeOK
<1>f. Fault => faults' \in 0..MaxFaults
    BY FaultCounted
<1>l. \A r \in Requests : req[r].stored \subseteq Path
    BY DEF Core, Formed, Shape, Paths
<1> USE DEF OtherTypes, tables, history
<1>1. ASSUME NEW r \in Requests, Starts(r) PROVE OtherTypes'
    BY <1>1, <1>o DEF Starts, PostConversation, PostChannel, Post, Forward, Edit,
            Recall, RecallUnaided
<1>2. ASSUME NEW r \in Requests, Loads(r) PROVE OtherTypes'
    BY <1>2, <1>o, <1>f DEF Loads, LookUpConversation, LookUpChannel, LookUpForward, LookUp,
        UploadConversation, UploadChannel, UploadEdit, Upload, UploadFailsConversation,
        UploadFailsInTurn, LateUpload, Copy, Uploaded
<1>3. ASSUME NEW r \in Requests, Calls(r) PROVE OtherTypes'
    <2>1. CASE Insert(r)
        BY <2>1, <1>o DEF Insert, Commit
    <2> QED
        BY <1>3, <2>1, <1>o, <1>f, <1>l DEF Calls, CreateInConversation, CreateInChannel, CreateForward,
            FindNonce, InsertLoses, InsertReplyLost, Refused
<1>4. ASSUME NEW r \in Requests, Changes(r) PROVE OtherTypes'
    BY <1>4, <1>o, <1>f, <1>l DEF Changes, InsertRows, AddRows, InsertRowsFails, InsertRowsReplyLost, Update,
            UpdateReplyLost, UpdateFails, Unrow, UnrowFails, RecallFallback
<1>5. ASSUME NEW r \in Requests, Ends(r) PROVE OtherTypes'
    <2>1. ASSUME NEW n \in {0, 1}, Tell(r, n) PROVE OtherTypes'
        <3>1. PICK m : m = req[r].msg /\ m \in Ids
            BY <2>1, KnownIds DEF Tell, Core, Formed, Shape
        <3>2. PICK k \in {0, 1} : created' = [created EXCEPT ![m] = @ + k]
            <4>1. CASE msgs[m].scope = req[r].scope
                BY <2>1, <3>1, <4>1 DEF Tell
            <4>2. CASE msgs[m].scope # req[r].scope
                <5>1. created' = [created EXCEPT ![m] = created[m]]
                    BY <2>1, <3>1, <4>2 DEF Tell
                <5>2. created[m] + 0 = created[m]
                    BY <3>1, <1>o
                <5> QED
                    BY <5>1, <5>2
            <4> QED
                BY <4>1, <4>2
        <3>3. created' \in [Ids -> Nat]
            BY <3>1, <3>2, <1>o
        <3> QED
            BY <2>1, <3>3, <1>o DEF Tell
    <2> QED
        BY <1>5, <2>1, <1>o, <1>f DEF Ends, Cleanup, CleanupFails, Crash, EmitConversation, EmitChannel,
            EmitForward, EmitOther
<1>6. ASSUME NEW w \in Workers, WorkerStep(w) PROVE OtherTypes'
    BY <1>6, <1>o, <1>f DEF WorkerStep, Claim, Remove, RemoveFails, Record, RecordLost, WorkerStops
<1> QED
    BY <1>1, <1>2, <1>3, <1>4, <1>5, <1>6, <1>o, NextCases DEF vars, WindowCloses, DeleteChannel, LeaseEnds

-----------------------------------------------------------------------------
(* Types, and recalled messages *)

LEMMA CoreHolds == Spec => []Core
<1>1. Init => Core
    <2> SUFFICES ASSUME Init PROVE Core
        OBVIOUS
    <2>1. \A r \in Requests : req[r] = Idle /\ late[r] = {}
        BY DEF Init
    <2>2. Idle \in Request /\ NoJob \in Job /\ 0 \in 0..MaxFaults
        BY MessagesAssumption DEF Idle, Request, Steps, Ops, NoJob, Job
    <2>3. Len(msgs) = 0 /\ msgs \in Seq(Message)
        BY EmptySeq DEF Init
    <2>4. Known = {}
        BY <2>3 DEF Known
    <2>5. Emptied
        BY <2>4 DEF Emptied
    <2>6. \A r \in Requests : Formed(r)
        BY <2>1 DEF Formed, Shape, Idle
    <2>7. FilesFinite
        <3>1. \A m \in Ids : FilesOf(m) = {}
            BY DEF Init, FilesOf
        <3> QED
            BY <3>1, FS_EmptySet DEF FilesFinite
    <2>8. Counted
        BY DEF Init, Counted, NoJob
    <2>9. TypeOK
        BY <2>2, <2>3, MessagesAssumption DEF Init, TypeOK
    <2> QED
        BY <2>5, <2>6, <2>7, <2>8, <2>9 DEF Core
<1>2. Core /\ [Next]_vars => Core'
    BY Going, Jobs, Rows, Others DEF Core, TypeOK, TableTyped, JobTyped, RowTypes, OtherTypes
<1> QED
    BY <1>1, <1>2, PTL DEF Spec

\* The variables have their types, whatever users, requests and limits there are.
THEOREM TypeCorrect == Spec => []TypeOK
BY CoreHolds, PTL DEF Core

\* No step of anybody brings a recalled message, or one that went with its
\* channel, or its text back.
THEOREM RecalledStayEmpty == Spec => RecallIsFinal
<1>1. Core /\ [Next]_vars => [\A m \in Known : msgs[m].state # "live" =>
            msgs'[m].state # "live" /\ msgs'[m].text = Null]_vars
    BY Going DEF Grown
<1> QED
    BY <1>1, CoreHolds, PTL DEF Spec, RecallIsFinal

-----------------------------------------------------------------------------
(* Announcements *)

\* A step that announces nothing, and after which r announces only a message
\* that it announced before, or a new one.
LEMMA QuietStep ==
    ASSUME Core, Quieted, Grown, Known \subseteq Known', Known' \subseteq Ids, NEW r,
           \A q \in Requests : q # r => req'[q] = req[q], created' = created,
           \A m \in Known : msgs[m].scope \in Conversations /\ Announces(r, m)' => Announces(r, m)
    PROVE  Quieted'
<1>1. \A m \in Known : msgs'[m].scope = msgs[m].scope
    BY DEF Grown
<1>2. ASSUME NEW m \in Known, msgs[m].scope \in Conversations, NEW q \in Requests, Announces(q, m)'
      PROVE  Announces(q, m)
    BY <1>1, <1>2 DEF Announces
<1>3. ASSUME NEW m \in Known' \ Known, NEW q \in Requests, Announces(q, m)'
      PROVE  q = r
    BY <1>3 DEF Announces, Core, Formed, Shape
<1>4. \A m \in Ids \ Known : created[m] = 0
    BY DEF Quieted
<1>5. ASSUME NEW m \in Known', msgs'[m].scope \in Conversations
      PROVE  /\ created[m] <= 1
             /\ \A q \in Requests : Announces(q, m)' =>
                    created[m] = 0 /\ \A x \in Requests : Announces(x, m)' => x = q
    <2>1. CASE m \in Known
        BY <1>1, <1>2, <1>5, <2>1 DEF Quieted
    <2>2. CASE m \notin Known
        BY <1>3, <1>4, <2>2
    <2> QED
        BY <2>1, <2>2
<1> QED
    BY <1>4, <1>5 DEF Quieted

LEMMA QuietCalls ==
    ASSUME Core, NEW r \in Requests, Calls(r), Moved(r), NEW m \in Known, msgs[m].scope \in Conversations,
           Announces(r, m)', Grown
    PROVE  FALSE
<1>t. req \in [Requests -> Request] /\ Shape(r, req[r], late[r], Known)
    BY DEF Core, TypeOK, Formed
<1>d. Conversations \cap Channels = {}
    BY MessagesAssumption
<1>s. msgs'[m].scope = msgs[m].scope
    BY DEF Grown
<1>1. ASSUME NEW b \in BOOLEAN, FindNonce(r, b), b \/ IsPost(r, Channels) \/ req[r].op = "forward"
      PROVE  FALSE
    <2>1. req'[r].quiet = b /\ req'[r].op = req[r].op /\ req'[r].scope = req[r].scope
        BY <1>1, <1>t DEF FindNonce, Announces, Request
    <2> QED
        BY <1>1, <2>1, <1>d, <1>s DEF Announces, IsPost
<1>2. CASE CreateInConversation(r) \/ CreateInChannel(r) \/ CreateForward(r)
    BY <1>1, <1>2 DEF CreateInConversation, CreateInChannel, CreateForward
<1>3. CASE InsertLoses(r)
    <2>1. PICK b \in BOOLEAN : b = (req[r].op = "post")
        OBVIOUS
    <2>2. req'[r].pc = "emit" => req'[r].quiet = b /\ req'[r].op = req[r].op
        BY <1>3, <1>t, <2>1 DEF InsertLoses, Request
    <2> QED
        BY <2>1, <2>2 DEF Announces
<1>4. CASE Insert(r)
    <2>1. req'[r].msg = Len(msgs')
        BY <1>4, <1>t DEF Insert, Request
    <2>2. PICK x \in Message : msgs' = Append(msgs, x) /\ x.state = "live"
        BY <1>4, Committed DEF Insert
    <2>3. Len(msgs') = Len(msgs) + 1 /\ Len(msgs) \in Nat
        BY <2>2, AppendProperties, LenProperties DEF Core, TypeOK
    <2> QED
        BY <2>1, <2>3 DEF Announces, Known
<1>5. CASE InsertReplyLost(r) \/ Refused(r)
    BY <1>5, <1>t DEF InsertReplyLost, Refused, Announces, Request
<1> QED
    BY <1>2, <1>3, <1>4, <1>5 DEF Calls

\* The posts: after one that is not quiet, nobody else is about to announce the message.
LEMMA QuietTold ==
    ASSUME Core, Quieted, Grown, Known' = Known, msgs' = msgs, NEW r \in Requests, NEW S, IsPost(r, S),
           NEW n \in {0, 1}, n = 1 => ~req[r].quiet, Tell(r, n)
    PROVE  Quieted'
<1>t. req \in [Requests -> Request] /\ Shape(r, req[r], late[r], Known) /\ created \in [Ids -> Nat]
      /\ Known \subseteq Ids
    BY KnownIds DEF Core, TypeOK, Formed
<1>m. PICK m : m = req[r].msg /\ m \in Known
    BY <1>t DEF Tell, Shape
<1>r. /\ \A q \in Requests : q # r => req'[q] = req[q]
      /\ \A x \in Known : ~Announces(r, x)'
    BY <1>t, DoneTyped DEF Tell, Announces
<1>1. CASE created' = created
    BY <1>1, <1>r, <1>t, QuietStep
<1>2. CASE created' # created
    <2>1. n = 1 /\ msgs[m].scope = req[r].scope /\ created' = [created EXCEPT ![m] = @ + n]
        <3>1. msgs[m].scope = req[r].scope /\ created' = [created EXCEPT ![m] = @ + n]
            BY <1>2, <1>m, <1>t DEF Tell
        <3>2. created[m] + 0 = created[m]
            BY <1>t, <1>m
        <3>3. n # 0
            BY <1>2, <1>t, <1>m, <3>1, <3>2
        <3> QED
            BY <3>1, <3>3
    <2>2. Announces(r, m)
        BY <1>m, <2>1 DEF Announces, Tell, IsPost
    <2>3. \A x \in Ids : x # m => created'[x] = created[x]
        BY <1>t, <2>1
    <2>4. \A x \in Known, q \in Requests : Announces(q, x)' => q # r /\ Announces(q, x)
        BY <1>r DEF Announces
    <2>5. msgs[m].scope \in Conversations =>
            created'[m] = 1 /\ \A q \in Requests : ~Announces(q, m)'
        BY <1>t, <1>m, <2>1, <2>2, <2>4 DEF Quieted
    <2>6. ASSUME NEW x \in Known, msgs[x].scope \in Conversations
          PROVE  /\ created'[x] <= 1
                 /\ \A q \in Requests : Announces(q, x)' =>
                      created'[x] = 0 /\ \A y \in Requests : Announces(y, x)' => y = q
        <3>1. CASE x = m
            BY <2>5, <2>6, <3>1
        <3>2. CASE x # m
            BY <1>t, <2>3, <2>4, <2>6, <3>2 DEF Quieted
        <3> QED
            BY <3>1, <3>2
    <2>7. \A x \in Ids \ Known : created'[x] = 0
        BY <1>m, <2>3 DEF Quieted
    <2> QED
        BY <2>6, <2>7 DEF Quieted
<1> QED
    BY <1>1, <1>2

LEMMA QuietNext ==
    ASSUME Core, Quieted, [Next]_vars
    PROVE  Quieted'
<1>g. TableTyped' /\ Grown /\ Known \subseteq Known'
    BY Going
<1>i. Known' \subseteq Ids
    <2>1. Len(msgs') \in Nat /\ Len(msgs') <= MaxMessages
        BY <1>g, LenProperties DEF TableTyped
    <2> QED
        BY <2>1, MessagesAssumption DEF Known, Ids
<1>t. /\ req \in [Requests -> Request]
      /\ \A q \in Requests : Shape(q, req[q], late[q], Known)
    BY DEF Core, TypeOK, Formed
<1>s. \A m \in Known : msgs'[m].scope = msgs[m].scope
    BY <1>g DEF Grown
<1>0. CASE req' = req /\ created' = created
    <2>1. \A r : \A m \in Known : Announces(r, m)' => Announces(r, m)
        BY <1>0, <1>s DEF Announces
    <2> QED
        BY <1>0, <1>g, <1>i, <2>1, QuietStep
<1>1. ASSUME NEW r \in Requests, Moved(r), created' = created,
             req'[r].pc = "emit" => req'[r].op # "post"
      PROVE  Quieted'
    <2>1. \A m \in Known : ~Announces(r, m)'
        BY <1>1 DEF Announces
    <2> QED
        BY <1>1, <1>g, <1>i, <2>1, QuietStep DEF Moved
<1>2. ASSUME NEW r \in Requests, Starts(r) PROVE Quieted'
    <2>0. Idle.pc = "idle" /\ created' = created
        BY <1>2 DEF Starts, PostConversation, PostChannel, Post, Forward, Edit, Recall, RecallUnaided,
            Idle, history
    <2>1. Moved(r)
        BY <1>2, <1>g, StartsMoved
    <2>2. req'[r].pc = "emit" => req'[r].op # "post"
        <3>1. CASE PostConversation(r) \/ PostChannel(r)
            BY <3>1, <1>t DEF PostConversation, PostChannel, Post, Idle
        <3>2. CASE Forward(r)
            BY <3>2, <1>t DEF Forward, Idle
        <3>3. CASE Edit(r)
            BY <3>3, <1>t DEF Edit, Idle
        <3>4. CASE Recall(r) \/ RecallUnaided(r)
            BY <3>4, <1>t DEF Recall, RecallUnaided, Idle
        <3> QED
            BY <1>2, <3>1, <3>2, <3>3, <3>4 DEF Starts
    <2> QED
        BY <1>1, <2>0, <2>1, <2>2
<1>3. ASSUME NEW r \in Requests, Loads(r) PROVE Quieted'
    <2>0. created' = created
        BY <1>3 DEF Loads, LookUpConversation, LookUpChannel, LookUpForward, LookUp,
            UploadConversation, UploadChannel, UploadEdit, Upload, UploadFailsConversation,
            UploadFailsInTurn, LateUpload, Copy, Uploaded, history
    <2>1. Moved(r)
        BY <1>3, <1>g, LoadsMoved
    <2>2. req' = req \/ req'[r].pc # "emit"
        <3>1. CASE LookUp(r)
            BY <3>1, <1>t, DoneTyped DEF LookUp, Request
        <3>2. ASSUME NEW p \in Path, \/ Upload(r, p) \/ UploadFailsConversation(r, p)
                                    \/ UploadFailsInTurn(r, p) \/ \E q \in Path : Copy(r, p, q)
              PROVE  req'[r].pc # "emit"
            BY <3>2, <1>t DEF Upload, UploadFailsConversation, UploadFailsInTurn, Copy, Request
        <3>3. CASE Uploaded(r)
            BY <3>3, <1>t DEF Uploaded, Request
        <3> QED
            BY <1>3, <3>1, <3>2, <3>3 DEF Loads, LookUpConversation, LookUpChannel, LookUpForward,
                UploadConversation, UploadChannel, UploadEdit, LateUpload
    <2> QED
        BY <1>0, <1>1, <2>0, <2>1, <2>2
<1>4. ASSUME NEW r \in Requests, Calls(r) PROVE Quieted'
    <2>0. created' = created
        BY <1>4 DEF Calls, CreateInConversation, CreateInChannel, CreateForward, FindNonce, InsertLoses,
            Insert, InsertReplyLost, Refused, history
    <2>1. Moved(r)
        BY <1>4, <1>g, CallsMoved
    <2>2. \A m \in Known : msgs[m].scope \in Conversations /\ Announces(r, m)' => Announces(r, m)
        BY <1>4, <1>g, <2>1, QuietCalls
    <2> QED
        BY <1>g, <1>i, <2>0, <2>1, <2>2, QuietStep DEF Moved
<1>5. ASSUME NEW r \in Requests, Changes(r) PROVE Quieted'
    <2>0. created' = created
        BY <1>5 DEF Changes, InsertRows, InsertRowsFails, InsertRowsReplyLost,
            Update, UpdateReplyLost, UpdateFails, Unrow, UnrowFails, RecallFallback, history
    <2>1. Moved(r)
        BY <1>5, <1>g, ChangesMoved
    <2>2. req'[r].op # "post"
        BY <1>5, <1>t DEF Changes, InsertRows, AddRows, InsertRowsFails, InsertRowsReplyLost,
            Update, UpdateReplyLost, UpdateFails, WriteText, Unrow, UnrowFails, RecallFallback, Request, Shape
    <2> QED
        BY <1>1, <2>0, <2>1, <2>2
<1>6. ASSUME NEW r \in Requests, Ends(r) PROVE Quieted'
    <2>1. Moved(r) /\ req'[r].pc = "done"
        <3>1. Moved(r)
            BY <1>6, <1>g, EndsMoved
        <3> QED
            BY <1>6, <3>1, <1>t, DoneTyped DEF Ends, Cleanup, CleanupFails, Crash, EmitConversation,
                EmitChannel, EmitForward, Tell, EmitOther
    <2>2. ASSUME NEW n \in {0, 1}, Tell(r, n) PROVE msgs' = msgs /\ Known' = Known
        BY <2>2 DEF Tell, tables, Known
    <2>3. CASE EmitConversation(r)
        <3>1. PICK n \in {0, 1} : n = (IF req[r].quiet THEN 0 ELSE 1) /\ (n = 1 => ~req[r].quiet)
            BY DEF Tell
        <3>2. Tell(r, n) /\ IsPost(r, Conversations)
            BY <2>3, <3>1 DEF EmitConversation
        <3> QED
            BY <1>g, <2>2, <3>1, <3>2, QuietTold
    <2>4. CASE EmitChannel(r)
        <3>1. PICK n \in {0, 1} : n = (IF req[r].quiet THEN 0 ELSE 1) /\ (n = 1 => ~req[r].quiet)
            BY DEF Tell
        <3>2. Tell(r, n) /\ IsPost(r, Channels)
            BY <2>4, <3>1 DEF EmitChannel
        <3> QED
            BY <1>g, <2>2, <3>1, <3>2, QuietTold
    <2>5. CASE EmitForward(r)
        <3>1. Tell(r, 0)
            BY <2>5 DEF EmitForward
        <3>2. PICK m \in Known : m = req[r].msg /\ m \in Ids
            BY <3>1, <1>t, KnownIds DEF Tell, Shape
        <3>3. created[m] + 0 = created[m] /\ created \in [Ids -> Nat]
            BY <3>2 DEF Core, TypeOK
        <3>4. created' = created
            BY <3>1, <3>2, <3>3 DEF Tell
        <3> QED
            BY <1>1, <2>1, <3>4
    <2>6. CASE Cleanup(r) \/ CleanupFails(r) \/ Crash(r) \/ EmitOther(r)
        <3>1. created' = created
            BY <2>6 DEF Cleanup, CleanupFails, Crash, EmitOther, history
        <3> QED
            BY <1>1, <2>1, <3>1
    <2> QED
        BY <1>6, <2>3, <2>4, <2>5, <2>6 DEF Ends
<1>7. ASSUME NEW w \in Workers, WorkerStep(w) PROVE req' = req /\ created' = created
    BY <1>7 DEF WorkerStep, Claim, Remove, RemoveFails, Record, RecordLost, WorkerStops, history
<1> QED
    BY <1>0, <1>2, <1>3, <1>4, <1>5, <1>6, <1>7, NextCases
    DEF vars, WindowCloses, DeleteChannel, LeaseEnds, history

\* However often a nonce is sent to a conversation, by however many requests at
\* once, its message is announced at most once.
THEOREM NoSecondAnnouncement == Spec => []AnnouncedOnce
<1>1. Init => Quieted
    <2> SUFFICES ASSUME Init PROVE Quieted
        OBVIOUS
    <2>1. Len(msgs) = 0
        BY EmptySeq DEF Init
    <2>2. Known = {}
        BY <2>1 DEF Known
    <2> QED
        BY <2>2 DEF Init, Quieted
<1>2. Core /\ Quieted /\ [Next]_vars => Quieted'
    BY QuietNext
<1>3. Quieted => AnnouncedOnce
    BY DEF Quieted, AnnouncedOnce
<1> QED
    BY <1>1, <1>2, <1>3, CoreHolds, PTL DEF Spec

-----------------------------------------------------------------------------
(* Files and rows *)

Kept == Rowed /\ \A r \in Requests : Stores(r) /\ Removes(r)

\* What a step may do to rows, jobs, files and requests.

\* Rows are deleted; or a request adds those of what it has stored.
RowChange ==
    \/ rows' \subseteq rows
    \/ \E r \in Requests, m \in Known' :
        /\ rows' = rows \cup ({m} \X req[r].stored)
        /\ req[r].pc \in Before /\ req'[r].pc \notin Before
        /\ req'[r].pc = "cleanup" => req[r].stored \subseteq lost'
        /\ outbox' = outbox /\ bucket' = bucket

\* A job is new only for a file that loses its row.
JobChange == \A p \in Path : outbox[p].status = "none" /\ outbox'[p].status # "none" =>
    (\E m \in Ids : <<m, p>> \in rows) /\ (\A m \in Ids : <<m, p>> \notin rows')

\* A file is removed because of its job, or by the request that has stored it.
FileChange == \A p \in bucket \ bucket' :
    \/ outbox[p].status # "none"
    \/ \E r \in Requests : p \in req[r].stored /\ req[r].pc = "cleanup" /\ req'[r].pc = "done"

\* What a request has newly stored is there; it starts to clean up before its
\* rows are added, when they are gone, or without knowing of them.
Onward(r) ==
    /\ req'[r].pc \in Before => req[r].pc \in Before /\ req'[r].stored \subseteq req[r].stored \cup bucket'
    /\ req'[r].pc = "cleanup" =>
        /\ req'[r].stored = req[r].stored
        /\ \/ req[r].pc \in Before
           \/ \A p \in req[r].stored, m \in Ids : <<m, p>> \notin rows'
           \/ req[r].stored \subseteq lost'
RequestChange == \A r \in Requests : req'[r] = req[r] \/ Onward(r)

Changed == RowChange /\ JobChange /\ FileChange /\ RequestChange /\ lost \subseteq lost'

\* That is enough.
LEMMA KeptStep ==
    ASSUME Core, Core', Grown, Known \subseteq Known', Kept, Changed
    PROVE  Kept' /\ (FilesOfRows => FilesOfRows')
<1>k. Known' \subseteq Ids
    <2>1. Len(msgs') \in Nat /\ Len(msgs') <= MaxMessages
        BY LenProperties DEF Core, TypeOK
    <2> QED
        BY <2>1, MessagesAssumption DEF Known, Ids
<1>o. \A r \in Requests : req[r].stored \subseteq Paths(r) /\ req'[r].stored \subseteq Paths(r)
    BY DEF Core, Formed, Shape, Paths
<1>d. \A r, q \in Requests : \A p \in Paths(r) : p \in Paths(q) => r = q
    BY DEF Paths
<1>p. \A r \in Requests : Paths(r) \subseteq Path
    BY DEF Paths
<1>r. ASSUME NEW m \in Ids, NEW p \in Path, <<m, p>> \in rows
      PROVE  /\ m \in Known /\ outbox[p].status = "none" /\ \A n \in Ids : <<n, p>> \in rows => n = m
    BY <1>r DEF Kept, Rowed
<1>s. ASSUME NEW r \in Requests, req[r].pc \in Before
      PROVE  /\ req[r].stored \subseteq bucket
             /\ \A p \in Paths(r) : outbox[p].status = "none" /\ \A m \in Ids : <<m, p>> \notin rows
    BY <1>s DEF Kept, Stores
\* A row is an old one, or one that a request adds to what it has stored.
<1>n. ASSUME NEW m \in Ids, NEW p \in Path, <<m, p>> \in rows', <<m, p>> \notin rows
      PROVE  \E r \in Requests :
                /\ p \in req[r].stored /\ p \in Paths(r) /\ m \in Known'
                /\ req[r].pc \in Before /\ req'[r].pc \notin Before
                /\ req'[r].pc = "cleanup" => p \in lost'
                /\ outbox' = outbox /\ bucket' = bucket
                /\ rows' = rows \cup ({m} \X req[r].stored)
    <2>1. PICK r \in Requests, x \in Known' :
            /\ rows' = rows \cup ({x} \X req[r].stored)
            /\ req[r].pc \in Before /\ req'[r].pc \notin Before
            /\ req'[r].pc = "cleanup" => req[r].stored \subseteq lost'
            /\ outbox' = outbox /\ bucket' = bucket
        BY <1>n DEF Changed, RowChange
    <2>2. m = x /\ p \in req[r].stored
        BY <1>n, <2>1
    <2> QED
        BY <2>1, <2>2, <1>o
<1>1. Rowed'
    <2> SUFFICES ASSUME NEW m \in Ids, NEW p \in Path, <<m, p>> \in rows'
                 PROVE  /\ m \in Known' /\ outbox'[p].status = "none"
                        /\ \A n \in Ids : <<n, p>> \in rows' => n = m
        BY DEF Rowed
    <2>1. CASE <<m, p>> \in rows
        <3>1. m \in Known' /\ outbox'[p].status = "none"
            BY <1>r, <2>1 DEF Changed, JobChange
        <3>2. ASSUME NEW n \in Ids, <<n, p>> \in rows' PROVE n = m
            BY <1>r, <1>n, <1>s, <2>1, <3>2
        <3> QED
            BY <3>1, <3>2
    <2>2. CASE <<m, p>> \notin rows
        <3>1. PICK r \in Requests :
                /\ p \in req[r].stored /\ p \in Paths(r) /\ m \in Known'
                /\ req[r].pc \in Before /\ outbox' = outbox
                /\ rows' = rows \cup ({m} \X req[r].stored)
            BY <1>n, <2>2
        <3>2. outbox[p].status = "none" /\ \A n \in Ids : <<n, p>> \notin rows
            BY <1>s, <3>1
        <3> QED
            BY <3>1, <3>2
    <2> QED
        BY <2>1, <2>2
<1>2. ASSUME NEW q \in Requests PROVE Stores(q)'
    <2> SUFFICES ASSUME req'[q].pc \in Before
                 PROVE  /\ req'[q].stored \subseteq bucket'
                        /\ \A p \in Paths(q) : /\ outbox'[p].status = "none"
                                               /\ \A m \in Ids : <<m, p>> \notin rows'
        BY DEF Stores, Before, Paths
    <2>1. req[q].pc \in Before /\ req'[q].stored \subseteq req[q].stored \cup bucket'
        BY DEF Changed, RequestChange, Onward
    <2>2. /\ req[q].stored \subseteq bucket
          /\ \A p \in Paths(q) : outbox[p].status = "none" /\ \A m \in Ids : <<m, p>> \notin rows
        BY <1>s, <2>1
    <2>3. req[q].pc # "cleanup"
        BY <2>1 DEF Before
    <2>4. ASSUME NEW p \in req[q].stored, p \notin bucket' PROVE FALSE
        <3>1. p \in bucket \ bucket' /\ p \in Paths(q)
            BY <1>o, <2>2, <2>4
        <3>2. PICK r \in Requests : p \in req[r].stored /\ req[r].pc = "cleanup"
            BY <2>2, <3>1 DEF Changed, FileChange
        <3>3. r = q
            BY <1>o, <1>d, <3>1, <3>2
        <3> QED
            BY <2>3, <3>2, <3>3
    <2>5. ASSUME NEW p \in Paths(q) PROVE outbox'[p].status = "none"
        BY <1>p, <2>2, <2>5 DEF Changed, JobChange
    <2>6. ASSUME NEW p \in Paths(q), NEW m \in Ids PROVE <<m, p>> \notin rows'
        BY <1>n, <1>d, <1>p, <2>2, <2>6
    <2> QED
        BY <2>1, <2>4, <2>5, <2>6
<1>3. ASSUME NEW q \in Requests PROVE Removes(q)'
    <2> SUFFICES ASSUME req'[q].pc = "cleanup", NEW p \in req'[q].stored, NEW m \in Ids, <<m, p>> \in rows'
                 PROVE  p \in lost'
        BY DEF Removes
    <2>1. req'[q].stored = req[q].stored /\ p \in Paths(q) /\ p \in Path
        BY <1>o, <1>p DEF Changed, RequestChange, Onward
    <2>2. CASE <<m, p>> \in rows
        <3>1. req[q].pc \notin Before
            BY <1>s, <2>1, <2>2
        <3>2. req[q].pc = "cleanup" \/ p \in lost'
            BY <2>1, <3>1 DEF Changed, RequestChange, Onward
        <3> QED
            BY <2>1, <2>2, <3>2 DEF Kept, Removes, Changed
    <2>3. CASE <<m, p>> \notin rows
        <3>1. PICK r \in Requests : p \in Paths(r) /\ (req'[r].pc = "cleanup" => p \in lost')
            BY <1>n, <2>1, <2>3
        <3> QED
            BY <1>d, <2>1, <3>1
    <2> QED
        BY <2>2, <2>3
<1>4. ASSUME FilesOfRows PROVE FilesOfRows'
    <2> SUFFICES ASSUME NEW m \in Known', NEW p \in Path, <<m, p>> \in rows', Live(m)', p \notin lost'
                 PROVE  p \in bucket'
        BY DEF FilesOfRows, Path
    <2>0. m \in Ids
        BY <1>k
    <2>1. CASE <<m, p>> \in rows
        <3>1. m \in Known /\ outbox[p].status = "none"
            BY <1>r, <2>0, <2>1
        <3>2. Live(m) /\ p \notin lost
            BY <3>1 DEF Live, Grown, Changed
        <3>3. p \in bucket
            BY <1>4, <2>1, <3>1, <3>2 DEF FilesOfRows
        <3>4. ASSUME NEW r \in Requests, p \in req[r].stored, req[r].pc = "cleanup" PROVE FALSE
            BY <2>0, <2>1, <3>2, <3>4 DEF Kept, Removes
        <3> QED
            BY <3>1, <3>3, <3>4 DEF Changed, FileChange
    <2>2. CASE <<m, p>> \notin rows
        <3>1. PICK r \in Requests : p \in req[r].stored /\ req[r].pc \in Before /\ bucket' = bucket
            BY <1>n, <2>0, <2>2
        <3> QED
            BY <1>s, <3>1
    <2> QED
        BY <2>1, <2>2
<1> QED
    BY <1>1, <1>2, <1>3, <1>4 DEF Kept

LEMMA Single ==
    ASSUME NEW r \in Requests, Moved(r), Onward(r)
    PROVE  RequestChange
BY DEF Moved, RequestChange

\* A step of a request that leaves the tables and the jobs alone.
LEMMA Aside ==
    ASSUME NEW r \in Requests, Moved(r), Onward(r), rows' = rows, outbox' = outbox, bucket \subseteq bucket',
           lost' = lost
    PROVE  Changed
BY Single DEF Changed, RowChange, JobChange, FileChange

LEMMA RecallChanged ==
    ASSUME Core, Kept, NEW r \in Requests, Moved(r), Recall(r)
    PROVE  Changed
<1>t. req \in [Requests -> Request] /\ outbox \in [Path -> Job]
    BY DEF Core, TypeOK
<1>1. Onward(r)
    BY <1>t DEF Recall, Onward, Idle, Before
<1>2. bucket' = bucket /\ lost' = lost
    BY DEF Recall, history
<1>3. CASE rows' = rows /\ outbox' = outbox
    BY <1>1, <1>2, <1>3, Aside
<1>4. CASE ~(rows' = rows /\ outbox' = outbox)
    <2>1. PICK m \in Known : outbox' = Queued(FilesOf(m)) /\ rows' = {x \in rows : x[1] # m}
        BY <1>4 DEF Recall, RecallForEveryone
    <2>2. JobChange
        <3> SUFFICES ASSUME NEW p \in Path, outbox[p].status = "none", outbox'[p].status # "none"
                     PROVE  /\ \E n \in Ids : <<n, p>> \in rows
                            /\ \A n \in Ids : <<n, p>> \notin rows'
            BY DEF JobChange
        <3>1. <<m, p>> \in rows /\ m \in Ids
            BY <2>1, KnownIds DEF Queued, FilesOf
        <3>2. \A n \in Ids : <<n, p>> \in rows => n = m
            BY <3>1 DEF Kept, Rowed
        <3> QED
            BY <2>1, <3>1, <3>2
    <2> QED
        BY <1>1, <1>2, <2>1, <2>2, Single DEF Changed, RowChange, FileChange
<1> QED
    BY <1>3, <1>4

LEMMA StartsChanged ==
    ASSUME Core, Kept, NEW r \in Requests, Moved(r), Starts(r)
    PROVE  Changed
<1>t. req \in [Requests -> Request]
    BY DEF Core, TypeOK
<1>i. Idle.stored = {}
    BY DEF Idle
<1>1. ASSUME NEW u, NEW s, NEW k, NEW t, NEW n, Post(r, u, s, k, t, n) PROVE Changed
    <2>1. Onward(r)
        BY <1>1, <1>t DEF Post, Onward, Idle, Before
    <2> QED
        BY <1>1, <2>1, Aside DEF Post, tables, storage, history
<1>2. CASE Forward(r)
    <2>1. Onward(r)
        BY <1>2, <1>t DEF Forward, Onward, Idle, Before
    <2> QED
        BY <1>2, <2>1, Aside DEF Forward, tables, storage, history
<1>3. CASE Edit(r)
    <2>1. Onward(r)
        BY <1>3, <1>t DEF Edit, Onward, Idle, Before
    <2> QED
        BY <1>3, <2>1, Aside DEF Edit, tables, storage, history
<1>4. CASE RecallUnaided(r)
    <2>1. Onward(r)
        BY <1>4, <1>t DEF RecallUnaided, Onward, Idle, Before
    <2> QED
        BY <1>4, <2>1, Aside DEF RecallUnaided, tables, storage, history
<1> QED
    BY <1>1, <1>2, <1>3, <1>4, RecallChanged DEF Starts, PostConversation, PostChannel

LEMMA LoadsChanged ==
    ASSUME Core, NEW r \in Requests, Moved(r), Loads(r)
    PROVE  Changed
<1>t. req \in [Requests -> Request] /\ late \in [Requests -> SUBSET Path]
    BY DEF Core, TypeOK
<1> USE DEF tables, storage, history
<1>1. CASE LookUp(r)
    <2>1. Onward(r)
        BY <1>1, <1>t, DoneTyped DEF LookUp, Onward, Before, Request
    <2> QED
        BY <1>1, <2>1, Aside DEF LookUp
<1>2. ASSUME NEW p \in Path, Upload(r, p) \/ \E q \in Path : Copy(r, p, q) PROVE Changed
    <2>0. /\ req'[r].pc = "upload" /\ req[r].pc = "upload"
          /\ req'[r].stored = req[r].stored \cup {p} /\ p \in bucket'
        <3>1. CASE Upload(r, p)
            BY <3>1, <1>t DEF Upload, Request
        <3>2. ASSUME NEW q \in Path, Copy(r, p, q)
              PROVE  /\ req'[r].pc = "upload" /\ req[r].pc = "upload"
                     /\ req'[r].stored = req[r].stored \cup {p} /\ p \in bucket'
            BY <3>2, <1>t DEF Copy, Request
        <3> QED
            BY <1>2, <3>1, <3>2
    <2>1. Onward(r)
        BY <2>0 DEF Onward, Before
    <2> QED
        BY <1>2, <2>1, Aside DEF Upload, Copy
<1>3. ASSUME NEW p \in Path, UploadFailsConversation(r, p) \/ UploadFailsInTurn(r, p) PROVE Changed
    <2>1. Onward(r)
        BY <1>3, <1>t DEF UploadFailsConversation, UploadFailsInTurn, Onward, Before, Request
    <2> QED
        BY <1>3, <2>1, Aside DEF UploadFailsConversation, UploadFailsInTurn
<1>4. ASSUME NEW p \in Path, LateUpload(r, p) PROVE Changed
    BY <1>4 DEF LateUpload, Changed, RowChange, JobChange, FileChange, RequestChange
<1>5. CASE Uploaded(r)
    <2>1. Onward(r)
        BY <1>5, <1>t DEF Uploaded, Onward, Before, Request
    <2> QED
        BY <1>5, <2>1, Aside DEF Uploaded
<1> QED
    BY <1>1, <1>2, <1>3, <1>4, <1>5 DEF Loads, LookUpConversation, LookUpChannel,
        LookUpForward, UploadConversation, UploadChannel, UploadEdit

LEMMA CallsChanged ==
    ASSUME Core, NEW r \in Requests, Moved(r), Calls(r)
    PROVE  Changed
<1>t. req \in [Requests -> Request]
    BY DEF Core, TypeOK
<1> USE DEF tables, storage, history
<1>1. ASSUME NEW b, FindNonce(r, b) PROVE Changed
    <2>1. Onward(r)
        BY <1>1, <1>t DEF FindNonce, Onward, Before, Request
    <2> QED
        BY <1>1, <2>1, Aside DEF FindNonce
<1>2. CASE InsertLoses(r) \/ Refused(r)
    <2>1. Onward(r)
        BY <1>2, <1>t DEF InsertLoses, Refused, Onward, Before, Request
    <2> QED
        BY <1>2, <2>1, Aside DEF InsertLoses, Refused
<1>3. CASE Insert(r) \/ InsertReplyLost(r)
    <2>1. PICK x \in Message : msgs' = Append(msgs, x) /\ x.state = "live"
        BY <1>3, Committed DEF Insert, InsertReplyLost
    <2>2. PICK m : m = Len(msgs) + 1 /\ rows' = rows \cup ({m} \X req[r].stored)
        BY <1>3 DEF Insert, InsertReplyLost, Commit
    <2>3. Len(msgs') = m /\ m \in Known'
        BY <2>1, <2>2, AppendProperties, LenProperties DEF Core, TypeOK, Known
    <2>4. /\ req[r].pc = "insert" /\ req'[r].pc \in {"emit", "cleanup"} /\ req'[r].stored = req[r].stored
          /\ req'[r].pc = "cleanup" => req[r].stored \subseteq lost'
        BY <1>3, <1>t, <2>3 DEF Insert, InsertReplyLost, Commit, Request
    <2>5. Onward(r) /\ RequestChange
        BY <2>4, Single DEF Onward, Before
    <2>6. RowChange
        BY <1>3, <2>2, <2>3, <2>4 DEF Insert, InsertReplyLost, RowChange, Before
    <2> QED
        BY <1>3, <2>5, <2>6 DEF Insert, InsertReplyLost, Changed, JobChange, FileChange
<1> QED
    BY <1>1, <1>2, <1>3 DEF Calls, CreateInConversation, CreateInChannel, CreateForward

LEMMA ChangesChanged ==
    ASSUME Core, Known \subseteq Known', NEW r \in Requests, Moved(r), Changes(r)
    PROVE  Changed
<1>t. req \in [Requests -> Request] /\ Shape(r, req[r], late[r], Known) /\ rows \in SUBSET (Ids \X Path)
    BY DEF Core, TypeOK, Formed
<1> USE DEF tables, storage, history
<1>1. CASE InsertRows(r) \/ InsertRowsReplyLost(r)
    <2>1. PICK m \in Known' : m = req[r].msg
        BY <1>1, <1>t DEF InsertRows, InsertRowsReplyLost, AddRows, Shape
    <2>2. /\ req[r].pc = "rows" /\ req'[r].pc \in {"update", "cleanup"} /\ req'[r].stored = req[r].stored
          /\ req'[r].pc = "cleanup" => req[r].stored \subseteq lost'
          /\ rows' = rows \cup ({m} \X req[r].stored)
        BY <1>1, <1>t, <2>1 DEF InsertRows, InsertRowsReplyLost, AddRows, Request
    <2>3. Onward(r) /\ RequestChange
        BY <2>2, Single DEF Onward, Before
    <2>4. RowChange
        BY <1>1, <2>1, <2>2 DEF InsertRows, InsertRowsReplyLost, RowChange, Before
    <2> QED
        BY <1>1, <2>3, <2>4 DEF InsertRows, InsertRowsReplyLost, Changed, JobChange, FileChange
<1>2. CASE InsertRowsFails(r) \/ Update(r) \/ UpdateFails(r) \/ UpdateReplyLost(r) \/ RecallFallback(r)
    <2>1. Onward(r)
        BY <1>2, <1>t DEF InsertRowsFails, Update, UpdateFails, UpdateReplyLost, RecallFallback,
            Onward, Before, Request
    <2> QED
        BY <1>2, <2>1, Aside DEF InsertRowsFails, Update, UpdateFails, UpdateReplyLost, RecallFallback
<1>3. CASE Unrow(r)
    <2>1. rows' = {x \in rows : x[2] \notin req[r].stored}
        BY <1>3 DEF Unrow
    <2>2. req'[r].pc = "cleanup" /\ req'[r].stored = req[r].stored
        BY <1>3, <1>t DEF Unrow, Request
    <2>3. Onward(r) /\ RequestChange
        BY <2>1, <2>2, Single DEF Onward, Before
    <2> QED
        BY <1>3, <2>1, <2>3 DEF Unrow, Changed, RowChange, JobChange, FileChange
<1>4. CASE UnrowFails(r)
    <2>1. req'[r].pc = "cleanup" /\ req'[r].stored = req[r].stored /\ lost' = lost \cup req[r].stored
        BY <1>4, <1>t DEF UnrowFails, Request
    <2>2. Onward(r) /\ RequestChange
        BY <2>1, Single DEF Onward, Before
    <2> QED
        BY <1>4, <2>1, <2>2 DEF UnrowFails, Changed, RowChange, JobChange, FileChange
<1> QED
    BY <1>1, <1>2, <1>3, <1>4 DEF Changes

LEMMA EndsChanged ==
    ASSUME Core, NEW r \in Requests, Moved(r), Ends(r)
    PROVE  Changed
<1>t. req \in [Requests -> Request]
    BY DEF Core, TypeOK
<1>1. req'[r].pc = "done"
    BY <1>t, DoneTyped DEF Ends, Cleanup, CleanupFails, Crash, EmitConversation,
        EmitChannel, EmitForward, Tell, EmitOther
<1>2. RequestChange
    BY <1>1, Single DEF Onward, Before
<1>3. rows' = rows /\ outbox' = outbox /\ lost' = lost
    BY DEF Ends, Cleanup, CleanupFails, Crash, EmitConversation, EmitChannel, EmitForward, Tell, EmitOther,
        tables, storage, history
<1>4. FileChange
    BY <1>1 DEF Ends, Cleanup, CleanupFails, Crash, EmitConversation, EmitChannel, EmitForward, Tell,
        EmitOther, FileChange
<1> QED
    BY <1>2, <1>3, <1>4 DEF Changed, RowChange, JobChange

LEMMA WorkChanged ==
    ASSUME Core, NEW w \in Workers, WorkerStep(w)
    PROVE  Changed
<1>t. outbox \in [Path -> Job] /\ \A c \in hand[w] : c.path \in Path /\ outbox[c.path].status # "none"
    BY DEF Core, TypeOK, Counted, Claimed
<1>1. rows' = rows /\ req' = req /\ lost' = lost
    BY DEF WorkerStep, Claim, Remove, RemoveFails, Record, RecordLost, WorkerStops, tables, history
<1>2. JobChange
    BY <1>t DEF WorkerStep, Claim, Claimable, Remove, RemoveFails, Record, RecordLost, WorkerStops, JobChange
<1>3. FileChange
    BY <1>t DEF WorkerStep, Claim, Remove, RemoveFails, Record, RecordLost, WorkerStops, FileChange
<1> QED
    BY <1>1, <1>2, <1>3 DEF Changed, RowChange, RequestChange

LEMMA DeletedChanged ==
    ASSUME Core, Kept, NEW s, DeleteChannel(s)
    PROVE  Changed
<1>1. PICK G : /\ G = {m \in Known : msgs[m].scope = s}
               /\ outbox' = [p \in Path |-> IF \E m \in G : p \in FilesOf(m)
                                THEN [outbox[p] EXCEPT !.status = "pending", !.attempts = 0] ELSE outbox[p]]
               /\ rows' = {x \in rows : x[1] \notin G}
               /\ req' = req /\ lost' = lost /\ bucket' = bucket
    BY DEF DeleteChannel, history
<1>2. JobChange
    <2> SUFFICES ASSUME NEW p \in Path, outbox[p].status = "none", outbox'[p].status # "none"
                 PROVE  /\ \E n \in Ids : <<n, p>> \in rows
                        /\ \A n \in Ids : <<n, p>> \notin rows'
        BY DEF JobChange
    <2>1. PICK m \in G : <<m, p>> \in rows /\ m \in Ids
        BY <1>1, KnownIds DEF FilesOf
    <2>2. \A n \in Ids : <<n, p>> \in rows => n = m
        BY <2>1 DEF Kept, Rowed
    <2> QED
        BY <1>1, <2>1, <2>2
<1> QED
    BY <1>1, <1>2 DEF Changed, RowChange, FileChange, RequestChange

LEMMA NextChanged ==
    ASSUME Core, Kept, [Next]_vars
    PROVE  Changed
<1>g. Known \subseteq Known'
    BY Going
<1>1. ASSUME NEW r \in Requests, Starts(r) \/ Loads(r) \/ Calls(r) \/ Changes(r) \/ Ends(r)
      PROVE  Changed
    <2>1. Moved(r)
        BY <1>g, <1>1, StartsMoved, LoadsMoved, CallsMoved, ChangesMoved, EndsMoved
    <2> QED
        BY <1>g, <1>1, <2>1, StartsChanged, LoadsChanged, CallsChanged, ChangesChanged, EndsChanged
<1>2. CASE UNCHANGED <<rows, req, lost, bucket, outbox>>
    BY <1>2 DEF Changed, RowChange, JobChange, FileChange, RequestChange
<1>3. ASSUME NEW p \in Path, LeaseEnds(p) PROVE Changed
    <2>1. UNCHANGED <<rows, req, lost, bucket>>
        BY <1>3 DEF LeaseEnds, tables, history
    <2>2. JobChange
        BY <1>3 DEF LeaseEnds, JobChange, Core, TypeOK
    <2> QED
        BY <2>1, <2>2 DEF Changed, RowChange, FileChange, RequestChange
<1> QED
    BY <1>1, <1>2, <1>3, WorkChanged, DeletedChanged, NextCases DEF vars, WindowCloses, history, storage

LEMMA KeptHolds == Spec => [](Kept /\ FilesOfRows)
<1>1. Init => Kept /\ FilesOfRows
    BY DEF Init, Kept, Rowed, Stores, Removes, FilesOfRows, Idle, NoJob, Paths
<1>2. Core /\ Core' /\ Kept /\ FilesOfRows /\ [Next]_vars => Kept' /\ FilesOfRows'
    BY Going, NextChanged, KeptStep
<1> QED
    BY <1>1, <1>2, CoreHolds, PTL DEF Spec

\* Whatever requests, retries, compensations, recalls and removals overlap, a live
\* message has the files of its attachment rows, but those that a handler took away
\* not knowing that it left their rows.
THEOREM RowsHaveFiles == Spec => []FilesOfRows
BY KeptHolds, PTL

\* No step of any worker takes back an attempt or opens a job that was settled.
THEOREM AttemptsCount == Spec => AttemptsNeverForgotten
<1> DEFINE Told(p) == outbox[p].status # "none" =>
            /\ outbox'[p].attempts >= outbox[p].attempts
            /\ outbox[p].status \in {"completed", "failed"} => outbox'[p] = outbox[p]
<1>1. ASSUME Core, Kept, [Next]_vars, NEW p \in Path PROVE Told(p)
    <2>t. /\ outbox \in [Path -> Job] /\ outbox[p].attempts \in Nat /\ outbox[p].attempts >= outbox[p].attempts
        BY <1>1 DEF Core, TypeOK, Job
    <2>1. CASE outbox'[p] = outbox[p]
        BY <2>1, <2>t
    <2>2. ASSUME NEW r \in Requests, Recall(r) PROVE outbox[p].status # "none" => outbox'[p] = outbox[p]
        BY <2>2 DEF Recall, RecallForEveryone, Queued
    <2>3. ASSUME NEW r \in Requests, Starts(r) \/ Loads(r) \/ Calls(r) \/ Changes(r) \/ Ends(r), ~Recall(r)
          PROVE  outbox' = outbox
        <3>1. CASE Starts(r)
            BY <2>3, <3>1 DEF Starts, PostConversation, PostChannel, Post, Forward, Edit, RecallUnaided, storage
        <3>2. CASE Loads(r)
            BY <3>2 DEF Loads, LookUpConversation, LookUpChannel, LookUpForward, LookUp,
                UploadConversation, UploadChannel, UploadEdit, Upload, UploadFailsConversation,
                UploadFailsInTurn, LateUpload, Copy, Uploaded, storage
        <3>3. CASE Calls(r)
            BY <3>3 DEF Calls, CreateInConversation, CreateInChannel, CreateForward,
                FindNonce, InsertLoses, Insert, InsertReplyLost, Refused, storage
        <3>4. CASE Changes(r)
            BY <3>4 DEF Changes, InsertRows, InsertRowsFails, InsertRowsReplyLost,
                Update, UpdateReplyLost, UpdateFails, Unrow, UnrowFails, RecallFallback, storage
        <3>5. CASE Ends(r)
            BY <3>5 DEF Ends, Cleanup, CleanupFails, Crash, EmitConversation, EmitChannel,
                EmitForward, Tell, EmitOther, storage
        <3> QED
            BY <2>3, <3>1, <3>2, <3>3, <3>4, <3>5
    <2>4. ASSUME NEW s \in Channels, DeleteChannel(s), outbox[p].status # "none" PROVE outbox'[p] = outbox[p]
        <3>1. \A m \in Known : p \notin FilesOf(m)
            BY <1>1, <2>4, KnownIds DEF Kept, Rowed, FilesOf
        <3> QED
            BY <2>4, <3>1 DEF DeleteChannel
    <2>5. ASSUME NEW w \in Workers, NEW P \in SUBSET Path, Claim(w, P), outbox[p].status # "none" PROVE Told(p)
        <3>1. CASE p \in P
            <4>1. outbox[p].status \notin {"completed", "failed"}
                <5>1. ~(outbox[p].attempts < MaxAttempts /\ outbox[p].attempts >= MaxAttempts)
                    BY <2>t, MessagesAssumption
                <5>2. outbox[p].status = "failed" => outbox[p].attempts >= MaxAttempts
                    BY <1>1 DEF Core, Counted
                <5>3. Claimable(p)
                    BY <2>5, <3>1 DEF Claim
                <5> QED
                    BY <5>1, <5>2, <5>3 DEF Claimable
            <4>2. outbox'[p] = [outbox[p] EXCEPT !.status = "processing", !.by = w, !.leased = TRUE]
                BY <2>5, <3>1 DEF Claim
            <4>3. outbox'[p].attempts = outbox[p].attempts
                BY <2>t, <4>2 DEF Job
            <4> QED
                BY <2>t, <4>1, <4>3
        <3>2. CASE p \notin P
            BY <2>5, <2>1, <3>2 DEF Claim
        <3> QED
            BY <3>1, <3>2
    <2>6. ASSUME NEW w \in Workers, NEW c \in hand[w], Record(w, c), outbox'[p] # outbox[p] PROVE Told(p)
        <3>1. p = c.path /\ Mine(w, p)
            BY <2>6, <2>t DEF Record
        <3>2. outbox[p].status = "processing" /\ c.attempts = outbox[p].attempts
            BY <1>1, <3>1 DEF Mine, Core, Counted
        <3>3. outbox'[p].attempts \in {outbox[p].attempts, c.attempts + 1}
            BY <2>6, <2>t, <3>1 DEF Record
        <3> QED
            BY <2>t, <3>2, <3>3
    <2>7. ASSUME NEW w \in Workers, WorkerStep(w) PROVE Told(p)
        <3>1. CASE outbox' = outbox
            BY <2>1, <3>1
        <3> QED
            BY <2>1, <2>5, <2>6, <2>7, <3>1 DEF WorkerStep, Remove, RemoveFails, RecordLost, WorkerStops
    <2>8. ASSUME NEW q \in Path, LeaseEnds(q), outbox'[p] # outbox[p] PROVE Told(p)
        <3>1. q = p /\ outbox[p].status = "processing" /\ outbox'[p] = [outbox[p] EXCEPT !.leased = FALSE]
            BY <2>8, <2>t DEF LeaseEnds
        <3>2. outbox'[p].attempts = outbox[p].attempts
            BY <2>t, <3>1 DEF Job
        <3> QED
            BY <2>t, <3>1, <3>2
    <2> HIDE DEF Told
    <2>9. CASE outbox' = outbox
        BY <2>1, <2>9
    <2>10. ASSUME outbox[p].status # "none" => outbox'[p] = outbox[p] PROVE Told(p)
        BY <2>1, <2>10 DEF Told
    <2> QED
        BY <1>1, <2>1, <2>2, <2>3, <2>4, <2>7, <2>8, <2>9, <2>10, NextCases DEF vars, WindowCloses, storage
<1>2. Core /\ Kept /\ [Next]_vars => [\A p \in Path : Told(p)]_vars
    BY <1>1
<1> QED
    BY <1>2, CoreHolds, KeptHolds, PTL DEF Spec, AttemptsNeverForgotten
=============================================================================
