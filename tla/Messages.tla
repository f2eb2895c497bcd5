------------------------------ MODULE Messages ------------------------------
(***************************************************************************)
(* Writing messages: sending, forwarding, editing and recalling them, with *)
(* the files they carry, and the worker that deletes the files of recalled *)
(* messages.                                                               *)
(*                                                                         *)
(* A message and its attachment rows are in Postgres, the files are in a   *)
(* bucket, and no transaction covers both.  A request stores its files     *)
(* first, then calls a stored procedure, and takes the files away again    *)
(* when something goes wrong in between.  A client that retries sends the  *)
(* same nonce, on which (author, nonce) is unique.                         *)
(***************************************************************************)
EXTENDS Naturals, Sequences, FiniteSets

CONSTANTS
    Users,
    Moderators,     \* users with MANAGE_MESSAGES in the channels
    Conversations,  \* DMs: a stored procedure locks the pair while it writes
    Channels,
    Nonces,
    Requests,       \* HTTP requests, each handled once
    Workers,        \* server instances, one storage cleanup worker each
    MaxFiles,       \* attachments of a message, 5 in the code
    MaxPaths,       \* bound: files that a request stores
    MaxAttempts,    \* of a cleanup job, 5 in the code
    MaxMessages,    \* bound
    MaxFaults,      \* bound: failures of storage, database, network and servers
    Null

Scopes == Conversations \cup Channels

ASSUME MessagesAssumption ==
    /\ Conversations \cap Channels = {}
    /\ Moderators \subseteq Users
    /\ MaxFiles \in Nat /\ MaxPaths \in Nat /\ MaxFiles <= MaxPaths
    /\ MaxAttempts \in Nat \ {0} /\ MaxMessages \in Nat /\ MaxFaults \in Nat
    /\ Null \notin Users \cup Scopes \cup Nonces \cup Requests \cup Workers

VARIABLES
    msgs,       \* the table, in the order of ids
    rows,       \* attachments: pairs of a message id and a storage path
    bucket,     \* paths of the files in message-attachments
    outbox,     \* storage_cleanup_outbox, by path
    closed,     \* channels that have been deleted
    hand,       \* of a worker: the jobs it has claimed and not finished with
    req,        \* what each request is doing
    late,       \* of a request: uploads that may still take effect after it gave up
    lost,       \* history: files taken away by a handler that has left their rows
                \* in the table without knowing it
    created,    \* history: MESSAGE_CREATED events that posts of a message sent to its scope
    faults      \* history: failures so far

storage == <<outbox, hand>>
vars == <<msgs, rows, bucket, closed, outbox, hand, req, late, lost, created, faults>>
tables == <<msgs, rows, closed>>
history == <<lost, created, faults>>

-----------------------------------------------------------------------------

\* crypto.randomUUID() per file: nobody else's path.
Path == Requests \X (1..MaxPaths)
Ids == 1..MaxMessages

\* text is the request that wrote the content, Null when there is none.  A
\* message of a deleted channel is "erased": the row is gone, the id is not reused.
Message == [author : Users, scope : Scopes, nonce : Nonces \cup {Null},
            text : Requests \cup {Null},
            state : {"live", "recalled", "erased"}, fresh : BOOLEAN]

Job == [status : {"none", "pending", "processing", "completed", "failed"},
        attempts : 0..MaxAttempts, by : Workers \cup {Null}, leased : BOOLEAN]
NoJob == [status |-> "none", attempts |-> 0, by |-> Null, leased |-> FALSE]

Claimed == [path : Path, attempts : 0..MaxAttempts, removed : {"no", "yes", "error"}]

Ops == {"none", "post", "forward", "edit", "recall"}
Steps == {"idle", "lookup", "upload", "procedure", "insert", "rows", "update",
          "unrow", "cleanup", "fallback", "emit", "done"}
Request == [pc : Steps, op : Ops, user : Users \cup {Null}, scope : Scopes \cup {Null},
            nonce : Nonces \cup {Null}, text : Requests \cup {Null}, msg : 0..MaxMessages,
            todo : SUBSET Path, from : SUBSET Path, stored : SUBSET Path,
            quiet : BOOLEAN]
Idle == [pc |-> "idle", op |-> "none", user |-> Null, scope |-> Null,
         nonce |-> Null, text |-> Null, msg |-> 0, todo |-> {}, from |-> {},
         stored |-> {}, quiet |-> FALSE]
Done == [Idle EXCEPT !.pc = "done"]

Known == 1..Len(msgs)
Live(m) == m \in Known /\ msgs[m].state = "live"
FilesOf(m) == {p \in Path : <<m, p>> \in rows}
Fresh(r, n) == {<<r, i>> : i \in 1..n}

\* The unique index on (author_id, client_nonce): at most one message.
SameNonce(u, k) == {m \in Known : /\ k # Null
                                  /\ msgs[m].author = u /\ msgs[m].nonce = k
                                  /\ msgs[m].state # "erased"}

Init ==
    /\ msgs = <<>> /\ rows = {} /\ bucket = {} /\ closed = {} /\ lost = {}
    /\ outbox = [p \in Path |-> NoJob]
    /\ hand = [w \in Workers |-> {}]
    /\ req = [r \in Requests |-> Idle]
    /\ late = [r \in Requests |-> {}]
    /\ created = [m \in Ids |-> 0]
    /\ faults = 0

Fault == faults < MaxFaults /\ faults' = faults + 1

-----------------------------------------------------------------------------
(* Sending *)

\* Membership, request state or permissions, and the files (number, sizes,
\* types, image dimensions) have been accepted: a refusal has no effect.
Post(r, u, s, k, t, n) ==
    /\ req[r].pc = "idle"
    /\ t # Null \/ n > 0
    /\ n <= MaxFiles
    /\ req' = [req EXCEPT ![r] =
            [Idle EXCEPT !.pc = "lookup", !.op = "post", !.user = u, !.scope = s,
                         !.nonce = k, !.text = t, !.todo = Fresh(r, n)]]
    /\ UNCHANGED <<tables, bucket, storage, late, history>>

PostConversation(r) ==
    \E u \in Users, s \in Conversations, k \in Nonces \cup {Null}, t \in {r, Null},
       n \in 0..MaxFiles : Post(r, u, s, k, t, n)

PostChannel(r) ==
    \E u \in Users, s \in Channels, k \in Nonces \cup {Null}, t \in {r, Null},
       n \in 0..MaxFiles : Post(r, u, s, k, t, n)

IsPost(r, S) == req[r].op = "post" /\ req[r].scope \in S

\* A message already sent under this nonce is answered instead, or the nonce
\* is refused because it was used elsewhere.
LookUp(r) ==
    /\ req[r].pc = "lookup"
    /\ req' = [req EXCEPT ![r] =
            IF SameNonce(req[r].user, req[r].nonce) # {} THEN Done ELSE [@ EXCEPT !.pc = "upload"]]
    /\ UNCHANGED <<tables, bucket, storage, late, history>>

LookUpConversation(r) == IsPost(r, Conversations) /\ LookUp(r)
LookUpChannel(r) == IsPost(r, Channels) /\ LookUp(r)
LookUpForward(r) == req[r].op = "forward" /\ LookUp(r)

\* The next file, one after the other or (conversations) all at once.
Upload(r, p) ==
    /\ req[r].pc = "upload" /\ p \in req[r].todo
    /\ bucket' = bucket \cup {p}
    /\ req' = [req EXCEPT ![r].todo = @ \ {p}, ![r].stored = @ \cup {p}]
    /\ UNCHANGED <<tables, storage, late, history>>

UploadConversation(r, p) == IsPost(r, Conversations) /\ Upload(r, p)
UploadChannel(r, p) == IsPost(r, Channels) /\ Upload(r, p)
UploadEdit(r, p) == req[r].op = "edit" /\ Upload(r, p)

\* A forwarded file is copied, or downloaded and stored anew: it must be there.
Copy(r, p, q) ==
    /\ req[r].pc = "upload" /\ p \in req[r].todo
    /\ q \in req[r].from \cap bucket
    /\ bucket' = bucket \cup {p}
    /\ req' = [req EXCEPT ![r].todo = @ \ {p}, ![r].from = @ \ {q},
                         ![r].stored = @ \cup {p}]
    /\ UNCHANGED <<tables, storage, late, history>>

\* Promise.all gives up with the first failure: the others go on, and the one
\* whose answer was lost may have been stored, now or later.
UploadFailsConversation(r, p) ==
    /\ req[r].pc = "upload" /\ p \in req[r].todo /\ IsPost(r, Conversations)
    /\ late' = [late EXCEPT ![r] = req[r].todo]
    /\ req' = [req EXCEPT ![r].pc = "cleanup", ![r].todo = {}]
    /\ Fault
    /\ UNCHANGED <<tables, bucket, storage, lost, created>>

UploadFailsInTurn(r, p) ==
    /\ req[r].pc = "upload" /\ p \in req[r].todo
    /\ ~IsPost(r, Conversations)
    /\ late' = [late EXCEPT ![r] = {p}]
    /\ req' = [req EXCEPT ![r].pc = "cleanup", ![r].todo = {}]
    /\ Fault
    /\ UNCHANGED <<tables, bucket, storage, lost, created>>

LateUpload(r, p) ==
    /\ p \in late[r]
    /\ late' = [late EXCEPT ![r] = @ \ {p}]
    /\ bucket' = bucket \cup {p}
    /\ UNCHANGED <<tables, storage, req, history>>

Uploaded(r) ==
    /\ req[r].pc = "upload" /\ req[r].todo = {}
    /\ req' = [req EXCEPT ![r].pc = IF req[r].op = "edit" THEN "rows" ELSE "procedure"]
    /\ UNCHANGED <<tables, bucket, storage, late, history>>

-----------------------------------------------------------------------------
(* create_conversation_message, create_channel_message *)

\* While one transaction writes to a DM the locks keep the others out.
Locked(r) == \E q \in Requests \ {r} :
    req[q].pc = "insert" /\ req[q].scope = req[r].scope /\ req[r].scope \in Conversations

\* Blocked meanwhile, no longer a member, the channel or the message replied to
\* is gone, a limit of the database: the transaction has no effect.
Refused(r) ==
    /\ req[r].pc \in {"procedure", "insert"}
    /\ req' = [req EXCEPT ![r].pc = "cleanup"]
    /\ IF req[r].scope \in closed THEN UNCHANGED faults ELSE Fault
    /\ UNCHANGED <<tables, bucket, storage, late, lost, created>>

\* The nonce is refused (23505) for a message of another scope; but the ids of
\* a conversation and of a channel, one of which is null, never compare unequal.
Elsewhere(m, s) ==
    msgs[m].scope # s /\ (msgs[m].scope \in Conversations <=> s \in Conversations)

\* Two edits may each add files to what both have counted, and a forward copies all
\* of them: then they are too many.
Fits(r) == Cardinality(req[r].stored) <= MaxFiles

\* The nonce is looked up; a message found is returned, by the conversation's
\* procedure as isDuplicate, by the channel's without saying so.
FindNonce(r, quiet) ==
    LET same == SameNonce(req[r].user, req[r].nonce) IN
    /\ req[r].pc = "procedure" /\ ~Locked(r)
    /\ req[r].scope \notin closed
    /\ req' = [req EXCEPT ![r] =
            IF same = {} THEN [@ EXCEPT !.pc = IF Fits(r) THEN "insert" ELSE "cleanup"]
            ELSE LET m == CHOOSE x \in same : TRUE IN
                 IF Elsewhere(m, req[r].scope) THEN [@ EXCEPT !.pc = "cleanup"]
                 ELSE [@ EXCEPT !.pc = "emit", !.msg = m, !.quiet = quiet]]
    /\ UNCHANGED <<tables, bucket, storage, late, history>>

\* A forward does not look at isDuplicate.
CreateInConversation(r) == IsPost(r, Conversations) /\ FindNonce(r, TRUE)
CreateInChannel(r) == IsPost(r, Channels) /\ FindNonce(r, FALSE)
CreateForward(r) == req[r].op = "forward" /\ FindNonce(r, FALSE)

\* on conflict do nothing: a transaction that committed in between has won.
InsertLoses(r) ==
    LET same == SameNonce(req[r].user, req[r].nonce) IN
    /\ req[r].pc = "insert" /\ same # {}
    /\ LET m == CHOOSE x \in same : TRUE IN
       req' = [req EXCEPT ![r] =
            IF Elsewhere(m, req[r].scope) THEN [@ EXCEPT !.pc = "cleanup"]
            ELSE [@ EXCEPT !.pc = "emit", !.msg = m, !.quiet = req[r].op = "post"]]
    /\ UNCHANGED <<tables, bucket, storage, late, history>>

\* The message and its attachment rows are committed together.
Commit(r) ==
    LET m == Len(msgs) + 1 IN
    /\ req[r].pc = "insert" /\ req[r].scope \notin closed
    /\ SameNonce(req[r].user, req[r].nonce) = {}
    /\ m <= MaxMessages
    /\ msgs' = Append(msgs, [author |-> req[r].user, scope |-> req[r].scope,
                             nonce |-> req[r].nonce, text |-> req[r].text,
                             state |-> "live", fresh |-> TRUE])
    /\ rows' = rows \cup ({m} \X req[r].stored)

Insert(r) ==
    /\ Commit(r)
    /\ req' = [req EXCEPT ![r].pc = "emit", ![r].msg = Len(msgs')]
    /\ UNCHANGED <<closed, bucket, storage, late, history>>

\* The commit's reply is lost: the handler takes it for a failure.
InsertReplyLost(r) ==
    /\ Commit(r)
    /\ req' = [req EXCEPT ![r].pc = "cleanup"]
    /\ lost' = lost \cup req[r].stored
    /\ Fault
    /\ UNCHANGED <<closed, bucket, storage, late, created>>

\* What this request has stored is removed, and the outcome of that is not
\* looked at.  Then the client gets its error, or the message found under the nonce.
Cleanup(r) ==
    /\ req[r].pc = "cleanup"
    /\ bucket' = bucket \ req[r].stored
    /\ req' = [req EXCEPT ![r] = Done]
    /\ UNCHANGED <<tables, storage, late, history>>

CleanupFails(r) ==
    /\ req[r].pc = "cleanup" /\ req[r].stored # {}
    /\ req' = [req EXCEPT ![r] = Done]
    /\ Fault
    /\ UNCHANGED <<tables, bucket, storage, late, lost, created>>

Tell(r, n) ==
    /\ req[r].pc = "emit"
    /\ created' = [created EXCEPT ![req[r].msg] =
            IF msgs[req[r].msg].scope = req[r].scope THEN @ + n ELSE @]
    /\ req' = [req EXCEPT ![r] = Done]
    /\ UNCHANGED <<tables, bucket, storage, late, lost, faults>>

\* Deviation: the answer's isDuplicate is not looked at.
EmitAlways(r) == IsPost(r, Conversations) /\ Tell(r, 1)

\* MESSAGE_CREATED, after attachments and author have been read.
EmitConversation(r) == IsPost(r, Conversations) /\ Tell(r, IF req[r].quiet THEN 0 ELSE 1)
EmitChannel(r) == IsPost(r, Channels) /\ Tell(r, IF req[r].quiet THEN 0 ELSE 1)

\* A forward announces the message it returns, which is not counted.
EmitForward(r) == req[r].op = "forward" /\ Tell(r, 0)

\* The server restarts: its requests are forgotten.
Crash(r) ==
    /\ req[r].pc \notin {"idle", "done"}
    /\ req' = [req EXCEPT ![r] = Done]
    /\ late' = [late EXCEPT ![r] = {}]
    /\ Fault
    /\ UNCHANGED <<tables, bucket, storage, lost, created>>

-----------------------------------------------------------------------------
(* Forwarding *)

\* The source is read, live, with its attachments.
Forward(r) ==
    \E u \in Users, m \in Known, s \in Scopes, k \in Nonces :
        /\ req[r].pc = "idle" /\ Live(m) /\ Cardinality(FilesOf(m)) <= MaxPaths
        /\ req' = [req EXCEPT ![r] =
                [Idle EXCEPT !.pc = "lookup", !.op = "forward", !.user = u, !.scope = s,
                             !.nonce = k, !.text = IF msgs[m].text = Null THEN Null ELSE r,
                             !.todo = Fresh(r, Cardinality(FilesOf(m))),
                             !.from = FilesOf(m)]]
        /\ UNCHANGED <<tables, bucket, storage, late, history>>

-----------------------------------------------------------------------------
(* Editing *)

\* The author's own live message, within five minutes; the attachments are
\* counted now.  With the text unchanged and no file there is nothing to do.
Edit(r) ==
    \E m \in Known, t \in {r, Null}, n \in 0..MaxFiles :
        /\ req[r].pc = "idle" /\ Live(m) /\ msgs[m].fresh
        /\ t = Null => Cardinality(FilesOf(m)) + n > 0
        /\ Cardinality(FilesOf(m)) + n <= MaxFiles
        /\ ~(t = msgs[m].text /\ n = 0)
        /\ req' = [req EXCEPT ![r] =
                [Idle EXCEPT !.pc = "upload", !.op = "edit", !.user = msgs[m].author,
                             !.scope = msgs[m].scope, !.text = t, !.msg = m,
                             !.todo = Fresh(r, n)]]
        /\ UNCHANGED <<tables, bucket, storage, late, history>>

\* The new attachment rows go in before the message is looked at again.
AddRows(r) ==
    /\ req[r].pc = "rows"
    /\ req[r].stored # {} => msgs[req[r].msg].state # "erased"
    /\ rows' = rows \cup ({req[r].msg} \X req[r].stored)

InsertRows(r) ==
    /\ AddRows(r)
    /\ req' = [req EXCEPT ![r].pc = "update"]
    /\ UNCHANGED <<msgs, closed, bucket, storage, late, history>>

InsertRowsFails(r) ==
    /\ req[r].pc = "rows" /\ req[r].stored # {}
    /\ req' = [req EXCEPT ![r].pc = "cleanup"]
    /\ Fault
    /\ UNCHANGED <<tables, bucket, storage, late, lost, created>>

InsertRowsReplyLost(r) ==
    /\ AddRows(r) /\ req[r].stored # {}
    /\ req' = [req EXCEPT ![r].pc = "cleanup"]
    /\ lost' = lost \cup req[r].stored
    /\ Fault
    /\ UNCHANGED <<msgs, closed, bucket, storage, late, created>>

\* Deviation: the update is by id alone.
WriteAnyText(r) ==
    /\ req[r].pc = "update" /\ msgs[req[r].msg].state # "erased"
    /\ msgs' = [msgs EXCEPT ![req[r].msg].text = req[r].text]

\* The conditional update: deleted_at is null.  (Its created_at > cutoff is
\* reckoned from the time of the first check and holds whenever that did.)
WriteText(r) ==
    /\ req[r].pc = "update" /\ Live(req[r].msg)
    /\ msgs' = [msgs EXCEPT ![req[r].msg].text = req[r].text]

Update(r) ==
    /\ WriteText(r)
    /\ req' = [req EXCEPT ![r].pc = "emit"]
    /\ UNCHANGED <<rows, closed, bucket, storage, late, history>>

UpdateReplyLost(r) ==
    /\ WriteText(r)
    /\ req' = [req EXCEPT ![r].pc = "unrow"]
    /\ Fault
    /\ UNCHANGED <<rows, closed, bucket, storage, late, lost, created>>

\* It finds no message, or fails.
UpdateFails(r) ==
    /\ req[r].pc = "update"
    /\ req' = [req EXCEPT ![r].pc = "unrow"]
    /\ IF Live(req[r].msg) THEN Fault ELSE UNCHANGED faults
    /\ UNCHANGED <<tables, bucket, storage, late, lost, created>>

\* Deviation: the files are removed and the rows left.
ForgetRows(r) ==
    /\ req[r].pc = "unrow"
    /\ req' = [req EXCEPT ![r].pc = "cleanup"]
    /\ UNCHANGED <<tables, bucket, storage, late, history>>

\* The rows of this edit are deleted by their paths, then the files.
Unrow(r) ==
    /\ req[r].pc = "unrow"
    /\ rows' = {x \in rows : x[2] \notin req[r].stored}
    /\ req' = [req EXCEPT ![r].pc = "cleanup"]
    /\ UNCHANGED <<msgs, closed, bucket, storage, late, history>>

\* The delete fails and its error is not looked at: the files go all the same.
UnrowFails(r) ==
    /\ req[r].pc = "unrow" /\ req[r].stored # {}
    /\ req' = [req EXCEPT ![r].pc = "cleanup"]
    /\ lost' = lost \cup req[r].stored
    /\ Fault
    /\ UNCHANGED <<tables, bucket, storage, late, created>>

\* MESSAGE_UPDATED or MESSAGE_DELETED.
EmitOther(r) ==
    /\ req[r].pc = "emit" /\ req[r].op \in {"edit", "recall"}
    /\ req' = [req EXCEPT ![r] = Done]
    /\ UNCHANGED <<tables, bucket, storage, late, history>>

WindowCloses(m) ==
    /\ Live(m) /\ msgs[m].fresh
    /\ msgs' = [msgs EXCEPT ![m].fresh = FALSE]
    /\ UNCHANGED <<rows, closed, bucket, storage, req, late, history>>

-----------------------------------------------------------------------------
(* Recalling, and deleting a channel *)

MayRecall(u, m) ==
    \/ msgs[m].author = u
    \/ msgs[m].scope \in Channels /\ u \in Moderators

Queued(P) == [p \in Path |-> IF p \in P /\ outbox[p].status = "none"
                             THEN [NoJob EXCEPT !.status = "pending"] ELSE outbox[p]]

\* recall_message_for_everyone, on a locked row; a second recall changes nothing.
RecallForEveryone(m) ==
    IF Live(m)
    THEN /\ outbox' = Queued(FilesOf(m))
         /\ rows' = {x \in rows : x[1] # m}
         /\ msgs' = [msgs EXCEPT ![m].state = "recalled", ![m].text = Null]
    ELSE UNCHANGED <<outbox, rows, msgs>>

Recall(r) ==
    \E u \in Users, m \in Known :
        /\ req[r].pc = "idle" /\ msgs[m].state # "erased"
        /\ MayRecall(u, m)
        /\ req' = [req EXCEPT ![r] = [Idle EXCEPT !.pc = "emit", !.op = "recall", !.msg = m]]
        /\ RecallForEveryone(m)
        /\ UNCHANGED <<closed, bucket, hand, late, history>>

\* The procedure is not in the schema cache (PGRST202): checked here, then
\* updated by id.  The attachments are left to themselves.
RecallUnaided(r) ==
    \E u \in Users, m \in Known :
        /\ req[r].pc = "idle" /\ msgs[m].state # "erased"
        /\ MayRecall(u, m)
        /\ req' = [req EXCEPT ![r] = [Idle EXCEPT !.pc = IF Live(m) THEN "fallback" ELSE "emit",
                                                 !.op = "recall", !.msg = m]]
        /\ UNCHANGED <<tables, bucket, storage, late, history>>

RecallFallback(r) ==
    /\ req[r].pc = "fallback"
    /\ msgs' = IF msgs[req[r].msg].state = "erased" THEN msgs
               ELSE [msgs EXCEPT ![req[r].msg].state = "recalled", ![req[r].msg].text = Null]
    /\ req' = [req EXCEPT ![r].pc = "emit"]
    /\ UNCHANGED <<rows, closed, bucket, storage, late, history>>

\* delete_server_channel: the files of its messages are enqueued (again), the
\* messages and their rows go by cascade.
DeleteChannel(s) ==
    LET gone == {m \in Known : msgs[m].scope = s} IN
    /\ s \in Channels \ closed
    /\ closed' = closed \cup {s}
    /\ outbox' = [p \in Path |-> IF \E m \in gone : p \in FilesOf(m)
                     THEN [outbox[p] EXCEPT !.status = "pending", !.attempts = 0]
                     ELSE outbox[p]]
    /\ rows' = {x \in rows : x[1] \notin gone}
    /\ msgs' = [m \in Known |-> IF m \in gone
                  THEN [msgs[m] EXCEPT !.state = "erased", !.text = Null] ELSE msgs[m]]
    /\ UNCHANGED <<bucket, hand, req, late, history>>

-----------------------------------------------------------------------------
(* The storage cleanup worker *)

Claimable(p) ==
    \/ outbox[p].status = "pending"
    \/ outbox[p].status = "processing" /\ ~outbox[p].leased
    \/ outbox[p].status = "failed" /\ outbox[p].attempts < MaxAttempts

\* claim_storage_cleanup_batch: any of the jobs that are due, for 30 s.
Claim(w, P) ==
    /\ hand[w] = {} /\ P # {} /\ \A p \in P : Claimable(p)
    /\ hand' = [hand EXCEPT ![w] =
            {[path |-> p, attempts |-> outbox[p].attempts, removed |-> "no"] : p \in P}]
    /\ outbox' = [p \in Path |-> IF p \in P
            THEN [outbox[p] EXCEPT !.status = "processing", !.by = w, !.leased = TRUE]
            ELSE outbox[p]]
    /\ UNCHANGED <<tables, bucket, req, late, history>>

\* A missing file counts as removed; an error may come from a removal that worked.
Remove(w, c) ==
    /\ c \in hand[w] /\ c.removed = "no"
    /\ bucket' = bucket \ {c.path}
    /\ hand' = [hand EXCEPT ![w] = (@ \ {c}) \cup {[c EXCEPT !.removed = "yes"]}]
    /\ UNCHANGED <<tables, outbox, req, late, history>>

RemoveFails(w, c) ==
    /\ c \in hand[w] /\ c.removed = "no"
    /\ bucket' \in {bucket, bucket \ {c.path}}
    /\ hand' = [hand EXCEPT ![w] = (@ \ {c}) \cup {[c EXCEPT !.removed = "error"]}]
    /\ Fault
    /\ UNCHANGED <<tables, outbox, req, late, lost, created>>

\* Deviation: the update is by id alone.
AnyRow(w, p) == outbox[p].status # "none"

Mine(w, p) == outbox[p].status = "processing" /\ outbox[p].by = w

\* The outcome is recorded only if the job is still this worker's.
Record(w, c) ==
    LET tried == c.attempts + 1
        next == IF c.removed = "yes" THEN [status |-> "completed", attempts |-> outbox[c.path].attempts]
                ELSE [status |-> IF tried >= MaxAttempts THEN "failed" ELSE "pending",
                      attempts |-> tried]
    IN
    /\ c \in hand[w] /\ c.removed # "no"
    /\ hand' = [hand EXCEPT ![w] = @ \ {c}]
    /\ outbox' = IF Mine(w, c.path)
                 THEN [outbox EXCEPT ![c.path] = [status |-> next.status, attempts |-> next.attempts,
                                                  by |-> Null, leased |-> FALSE]]
                 ELSE outbox
    /\ UNCHANGED <<tables, bucket, req, late, history>>

\* The update fails, unnoticed, or the server stops with jobs in hand.
RecordLost(w, c) ==
    /\ c \in hand[w] /\ c.removed # "no"
    /\ hand' = [hand EXCEPT ![w] = @ \ {c}]
    /\ Fault
    /\ UNCHANGED <<tables, bucket, outbox, req, late, lost, created>>

WorkerStops(w) ==
    /\ hand[w] # {}
    /\ hand' = [hand EXCEPT ![w] = {}]
    /\ Fault
    /\ UNCHANGED <<tables, bucket, outbox, req, late, lost, created>>

LeaseEnds(p) ==
    /\ outbox[p].status = "processing" /\ outbox[p].leased
    /\ outbox' = [outbox EXCEPT ![p].leased = FALSE]
    /\ UNCHANGED <<tables, bucket, hand, req, late, history>>

-----------------------------------------------------------------------------

SendStep(r) ==
    \/ PostConversation(r) \/ PostChannel(r) \/ Forward(r)
    \/ LookUpConversation(r) \/ LookUpChannel(r) \/ LookUpForward(r)
    \/ \E p \in Path :
        \/ UploadConversation(r, p) \/ UploadChannel(r, p) \/ UploadEdit(r, p)
        \/ UploadFailsConversation(r, p) \/ UploadFailsInTurn(r, p) \/ LateUpload(r, p)
    \/ \E p, q \in Path : Copy(r, p, q)
    \/ Uploaded(r)
    \/ CreateInConversation(r) \/ CreateInChannel(r) \/ CreateForward(r)
    \/ InsertLoses(r) \/ Insert(r) \/ InsertReplyLost(r) \/ Refused(r)
    \/ Cleanup(r) \/ CleanupFails(r) \/ Crash(r)
    \/ EmitConversation(r) \/ EmitChannel(r) \/ EmitForward(r)

ChangeStep(r) ==
    \/ Edit(r) \/ InsertRows(r) \/ InsertRowsFails(r) \/ InsertRowsReplyLost(r)
    \/ Update(r) \/ UpdateFails(r) \/ UpdateReplyLost(r) \/ Unrow(r) \/ UnrowFails(r)
    \/ Recall(r) \/ RecallUnaided(r) \/ RecallFallback(r) \/ EmitOther(r)

WorkerStep(w) ==
    \/ \E P \in SUBSET Path : Claim(w, P)
    \/ \E c \in hand[w] : Remove(w, c) \/ RemoveFails(w, c) \/ Record(w, c) \/ RecordLost(w, c)
    \/ WorkerStops(w)

Next ==
    \/ \E r \in Requests : SendStep(r) \/ ChangeStep(r)
    \/ \E w \in Workers : WorkerStep(w)
    \/ \E m \in Known : WindowCloses(m)
    \/ \E s \in Channels : DeleteChannel(s)
    \/ \E p \in Path : LeaseEnds(p)

Spec == Init /\ [][Next]_vars

-----------------------------------------------------------------------------
(* Properties *)

\* The types of the variables.
TypeOK ==
    /\ msgs \in Seq(Message) /\ Len(msgs) <= MaxMessages
    /\ rows \in SUBSET (Ids \X Path)
    /\ bucket \in SUBSET Path
    /\ closed \in SUBSET Channels
    /\ outbox \in [Path -> Job]
    /\ hand \in [Workers -> SUBSET Claimed]
    /\ req \in [Requests -> Request]
    /\ late \in [Requests -> SUBSET Path]
    /\ lost \in SUBSET Path
    /\ created \in [Ids -> Nat]
    /\ faults \in 0..MaxFaults

\* Every attachment row of a live message has its file, whatever was retried,
\* compensated, recalled or deleted meanwhile, except a file whose own request
\* took a commit without a reply for a failure, or did not notice that it had
\* failed to delete the row.
FilesOfRows ==
    \A m \in Known, p \in Path :
        <<m, p>> \in rows /\ Live(m) /\ p \notin lost => p \in bucket

\* A message posted to a conversation is announced by its posts at most once,
\* however often its nonce is sent: replays are quiet.
AnnouncedOnce ==
    \A m \in Known :
        msgs[m].scope \in Conversations => created[m] <= 1

\* A recalled message stays recalled and empty: an edit under way when it was
\* recalled does not put its text back.
RecallIsFinal ==
    [][\A m \in Known : msgs[m].state # "live" =>
            msgs'[m].state # "live" /\ msgs'[m].text = Null]_vars

\* A failed removal is counted once: a worker whose lease ended neither takes
\* back an attempt of the next one nor opens a job that was settled.
AttemptsNeverForgotten ==
    [][\A p \in Path : outbox[p].status # "none" =>
            /\ outbox'[p].attempts >= outbox[p].attempts
            /\ outbox[p].status \in {"completed", "failed"} => outbox'[p] = outbox[p]]_vars
=============================================================================
