------------------------------- MODULE History -------------------------------
(***************************************************************************)
(* Reading messages and what readers leave behind: pages of a conversation *)
(* or channel, search, pins, download links, messages hidden by a user,    *)
(* read cursors and reactions.                                             *)
(*                                                                         *)
(* An answer takes several queries, without a transaction around them: the *)
(* rows first, then what belongs to them.  Messages are posted, recalled   *)
(* and hidden meanwhile.  A row draws its id when it is inserted and is    *)
(* seen when its transaction commits, in another order perhaps.  A handler *)
(* may stop between two queries, and a write may be made although its      *)
(* answer never comes.                                                     *)
(***************************************************************************)
EXTENDS Integers, Sequences, FiniteSets

CONSTANTS
    Users,          \* they may all read the scopes
    Conversations,
    Channels,
    Requests,       \* places for HTTP requests under way
    Limit,          \* messages of a page, 50 unless the client says less
    MaxMessages,    \* bound
    MaxUntold,      \* bound: lost announcements of one sign for one reaction
    Null

Scopes == Conversations \cup Channels

ASSUME HistoryAssumption ==
    /\ Conversations \cap Channels = {}
    /\ Limit \in Nat \ {0} /\ MaxMessages \in Nat /\ MaxUntold \in Nat
    /\ Null \notin Users \cup Scopes

VARIABLES
    msgs,       \* the table, in the order of ids
    files,      \* messages with attachment rows
    reactions,  \* pairs of a message and a user, for one emoji
    hidden,     \* message_hidden_users: pairs of a user and a message
    read,       \* read_states: the cursor of a user in a scope, 0 without a row
    scroll,     \* of a user: a client that reads a scope page by page
    req,        \* what each request is doing
    marked,     \* history: the newest mark answered with success
    told,       \* history: reactions announced less removals announced
    untold      \* history: the same of what a failure kept from being announced

vars == <<msgs, files, reactions, hidden, read, scroll, req, marked, told, untold>>
tables == <<msgs, files, hidden>>
cursors == <<read, marked>>
announced == <<told, untold>>
emojis == <<reactions, announced>>

-----------------------------------------------------------------------------

Ids == 1..MaxMessages
Message == [scope : Scopes, state : {"drawn", "undone", "live", "recalled"},
            pinned : BOOLEAN]

\* want is what the client could see when it began, got what it has received;
\* exact says that every page came from the stored procedure.
Scroll == [scope : Scopes \cup {Null}, kind : {"page", "search"},
           before : 1..(MaxMessages + 1), want : SUBSET Ids, got : SUBSET Ids,
           state : {"open", "asking", "over"}, exact : BOOLEAN]
NoScroll == [scope |-> Null, kind |-> "page", before |-> MaxMessages + 1,
             want |-> {}, got |-> {}, state |-> "over", exact |-> TRUE]

Steps == {"idle", "filter", "assemble", "answer", "sign", "update", "insert",
          "retry", "react", "tell", "redact", "sweep"}

\* rows are what a query has returned, active those that were not deleted then;
\* gone is what had been recalled before the request, shown the messages whose
\* files or reactions its answer has.
Request == [pc : Steps, user : Users \cup {Null}, msg : 0..MaxMessages, on : BOOLEAN,
            scrolls : BOOLEAN, rows : SUBSET Ids, active : SUBSET Ids,
            gone : SUBSET Ids, shown : SUBSET Ids]
Idle == [pc |-> "idle", user |-> Null, msg |-> 0, on |-> FALSE, scrolls |-> FALSE,
         rows |-> {}, active |-> {}, gone |-> {}, shown |-> {}]

Known == 1..Len(msgs)
Live(m) == m \in Known /\ msgs[m].state = "live"
Recalled == {m \in Known : msgs[m].state = "recalled"}
Committed(s) == {m \in Known : msgs[m].scope = s /\ msgs[m].state \in {"live", "recalled"}}
HiddenBy(u) == {m \in Ids : <<u, m>> \in hidden}

\* Deviation: what belongs to recalled messages is loaded too.
AllRows(M) == M
\* deleted_at is null
NotDeleted(M) == M \ Recalled

\* order by id desc limit n
Newest(M, n) == {m \in M : Cardinality({x \in M : x > m}) < n}

Init ==
    /\ msgs = <<>> /\ files = {} /\ reactions = {} /\ hidden = {}
    /\ read = [x \in Users \X Scopes |-> 0]
    /\ scroll = [u \in Users |-> NoScroll]
    /\ req = [r \in Requests |-> Idle]
    /\ marked = [x \in Users \X Scopes |-> 0]
    /\ told = [x \in Ids \X Users |-> 0]
    /\ untold = [x \in Ids \X Users |-> 0]

Begin(r, u, step) ==
    [Idle EXCEPT !.pc = step, !.user = u, !.gone = Recalled]

-----------------------------------------------------------------------------
(* What writers do (module Messages) *)

\* A row is inserted.  In a conversation the locks of the pair are held until
\* its transaction ends; in a channel nothing is.
Draw(s) ==
    /\ Len(msgs) < MaxMessages
    /\ s \in Conversations => ~\E m \in Known : msgs[m].scope = s /\ msgs[m].state = "drawn"
    /\ msgs' = Append(msgs, [scope |-> s, state |-> "drawn", pinned |-> FALSE])
    /\ UNCHANGED <<files, hidden, emojis, cursors, scroll, req>>

Commit(m, f) ==
    /\ msgs[m].state = "drawn"
    /\ msgs' = [msgs EXCEPT ![m].state = "live"]
    /\ files' = files \cup f
    /\ UNCHANGED <<hidden, emojis, cursors, scroll, req>>

Undo(m) ==
    /\ msgs[m].state = "drawn"
    /\ msgs' = [msgs EXCEPT ![m].state = "undone"]
    /\ UNCHANGED <<files, hidden, emojis, cursors, scroll, req>>

\* recall_message_for_everyone: one transaction.
Recall(m) ==
    /\ Live(m)
    /\ msgs' = [msgs EXCEPT ![m].state = "recalled"]
    /\ files' = files \ {m}
    /\ reactions' = {x \in reactions : x[1] # m}
    /\ UNCHANGED <<hidden, announced, cursors, scroll, req>>

\* Without the procedure: checked, marked as deleted, then the reactions are
\* removed; the attachments are not.
RecallUnaided(r, u, m) ==
    /\ req[r].pc = "idle" /\ Live(m)
    /\ req' = [req EXCEPT ![r] = [Begin(r, u, "redact") EXCEPT !.msg = m]]
    /\ UNCHANGED <<tables, emojis, cursors, scroll>>

Redact(r) ==
    /\ req[r].pc = "redact"
    /\ msgs' = [msgs EXCEPT ![req[r].msg].state = "recalled"]
    /\ req' = [req EXCEPT ![r].pc = "sweep"]
    /\ UNCHANGED <<files, hidden, emojis, cursors, scroll>>

SweepReactions(r) ==
    /\ req[r].pc = "sweep"
    /\ reactions' = {x \in reactions : x[1] # req[r].msg}
    /\ req' = [req EXCEPT ![r] = Idle]
    /\ UNCHANGED <<tables, announced, cursors, scroll>>

-----------------------------------------------------------------------------
(* Reading page by page *)

\* Deviation: the limit is applied before hidden messages are left out.
PageThenFilter(u, M) == Newest(M, Limit + 1) \ HiddenBy(u)

\* get_conversation_messages_paged, get_channel_messages_paged and
\* search_channel_messages: one more than the page, hidden ones left out first.
Page(u, M) == Newest(M \ HiddenBy(u), Limit + 1)

\* Only channels are searched; every message matches.
OpenScroll(u, s, k) ==
    /\ scroll[u].state = "over"
    /\ k = "search" => s \in Channels
    /\ scroll' = [scroll EXCEPT ![u] =
            [NoScroll EXCEPT !.scope = s, !.kind = k, !.state = "open",
                !.want = (IF k = "search" THEN NotDeleted(Committed(s)) ELSE Committed(s))
                            \ HiddenBy(u)]]
    /\ UNCHANGED <<tables, emojis, cursors, req>>

Older(u) == {m \in Committed(scroll[u].scope) : m < scroll[u].before}

Ask(r, u, step, R) ==
    /\ req[r].pc = "idle" /\ scroll[u].state = "open"
    /\ req' = [req EXCEPT ![r] = [Begin(r, u, step) EXCEPT !.scrolls = TRUE, !.rows = R,
                                                          !.active = NotDeleted(R)]]

GetPage(r, u, S) ==
    /\ scroll[u].kind = "page" /\ scroll[u].scope \in S
    /\ Ask(r, u, "assemble", Page(u, Older(u)))
    /\ scroll' = [scroll EXCEPT ![u].state = "asking"]
    /\ UNCHANGED <<tables, emojis, cursors>>

GetConversationMessages(r, u) == GetPage(r, u, Conversations)
GetChannelMessages(r, u) == GetPage(r, u, Channels)

\* The procedure fails: the rows are read directly, the hidden ones after that.
GetRows(r, u, S) ==
    /\ scroll[u].kind = "page" /\ scroll[u].scope \in S
    /\ Ask(r, u, "filter", Newest(Older(u), Limit + 1))
    /\ scroll' = [scroll EXCEPT ![u].state = "asking", ![u].exact = FALSE]
    /\ UNCHANGED <<tables, emojis, cursors>>

GetConversationRows(r, u) == GetRows(r, u, Conversations)
GetChannelRows(r, u) == GetRows(r, u, Channels)

FilterHidden(r) ==
    /\ req[r].pc = "filter"
    /\ req' = [req EXCEPT ![r].pc = "assemble",
                          ![r].rows = @ \ HiddenBy(req[r].user),
                          ![r].active = @ \ HiddenBy(req[r].user)]
    /\ UNCHANGED <<tables, emojis, cursors, scroll>>

Search(r, u) ==
    /\ scroll[u].kind = "search"
    /\ Ask(r, u, "assemble", Page(u, NotDeleted(Older(u))))
    /\ scroll' = [scroll EXCEPT ![u].state = "asking"]
    /\ UNCHANGED <<tables, emojis, cursors>>

\* The pinned messages of a scope, none hidden or deleted.
GetPinned(r, u, s) ==
    LET pinned == {m \in NotDeleted(Committed(s)) : msgs[m].pinned} \ HiddenBy(u) IN
    /\ req[r].pc = "idle"
    /\ req' = [req EXCEPT ![r] = [Begin(r, u, "assemble") EXCEPT !.rows = pinned,
                                                                !.active = pinned]]
    /\ UNCHANGED <<tables, emojis, cursors, scroll>>

GetConversationPinnedMessages(r, u) == \E s \in Conversations : GetPinned(r, u, s)
GetChannelPinnedMessages(r, u) == \E s \in Channels : GetPinned(r, u, s)

\* set_message_pin, then the answer and MESSAGE_PIN_UPDATED have the message.
SetPin(r, u, m, p) ==
    /\ req[r].pc = "idle" /\ Live(m)
    /\ msgs' = [msgs EXCEPT ![m].pinned = p]
    /\ req' = [req EXCEPT ![r] = [Begin(r, u, "assemble") EXCEPT !.rows = {m}, !.active = {m}]]
    /\ UNCHANGED <<files, hidden, emojis, cursors, scroll>>

\* What belongs to messages, in one query each.
LoadAttachments(M) == M \cap files
LoadReactions(M) == {m \in M : \E x \in reactions : x[1] = m}

\* For the rows of a page that were not deleted.
AssembleRows(r) ==
    LET loaded == req[r].active \cap
                    (IF req[r].scrolls THEN Newest(req[r].rows, Limit) ELSE req[r].rows) IN
    /\ req' = [req EXCEPT ![r].pc = "answer",
                          ![r].shown = LoadAttachments(loaded) \cup LoadReactions(loaded)]
    /\ UNCHANGED <<tables, emojis, cursors, scroll>>

Assembles(r) == req[r].pc = "assemble"
Paging(r, S) ==
    /\ req[r].scrolls
    /\ scroll[req[r].user].kind = "page" /\ scroll[req[r].user].scope \in S

AssembleConversationPage(r) == Assembles(r) /\ Paging(r, Conversations) /\ AssembleRows(r)
AssembleChannelPage(r) == Assembles(r) /\ Paging(r, Channels) /\ AssembleRows(r)

\* assembleMessageDtos, for what was searched or pinned.
AssembleMessages(r) == Assembles(r) /\ ~Paging(r, Scopes) /\ AssembleRows(r)

\* The client goes on from the last message of the page if there was one more.
Answer(r) ==
    LET u == req[r].user
        page == Newest(req[r].rows, Limit)
        more == page # req[r].rows
    IN
    /\ req[r].pc = "answer"
    /\ scroll' = IF ~req[r].scrolls THEN scroll
                 ELSE [scroll EXCEPT ![u].got = @ \cup page,
                                     ![u].before = IF more THEN CHOOSE m \in page : \A x \in page : m <= x
                                                   ELSE @,
                                     ![u].state = IF more THEN "open" ELSE "over"]
    /\ req' = [req EXCEPT ![r] = Idle]
    /\ UNCHANGED <<tables, emojis, cursors>>

\* The row of the attachment and its message, in one query, then the link.
GetUrl(r, u, m) ==
    /\ req[r].pc = "idle" /\ m \in files /\ m \in NotDeleted({m})
    /\ req' = [req EXCEPT ![r] = [Begin(r, u, "sign") EXCEPT !.msg = m]]
    /\ UNCHANGED <<tables, emojis, cursors, scroll>>

GetAttachmentSignedUrl(r, u, m) == msgs[m].scope \in Conversations /\ GetUrl(r, u, m)
GetChannelAttachmentSignedUrl(r, u, m) == msgs[m].scope \in Channels /\ GetUrl(r, u, m)

Sign(r) ==
    /\ req[r].pc = "sign"
    /\ req' = [req EXCEPT ![r].pc = "answer", ![r].shown = {req[r].msg}]
    /\ UNCHANGED <<tables, emojis, cursors, scroll>>

\* hide_message_for_user, or a check and an upsert to the same effect.
Hide(u, m) ==
    /\ m \in Known /\ m \in Committed(msgs[m].scope)
    /\ hidden' = hidden \cup {<<u, m>>}
    /\ UNCHANGED <<msgs, files, emojis, cursors, scroll, req>>

-----------------------------------------------------------------------------
(* Read cursors *)

Cursor(r) == <<req[r].user, msgs[req[r].msg].scope>>
Marks(x, m) == marked' = [marked EXCEPT ![x] = IF m > @ THEN m ELSE @]

\* mark_conversation_read: an upsert with the condition that the mark is newer.
MarkAsRead(u, m) ==
    LET x == <<u, msgs[m].scope>> IN
    /\ x[2] \in Conversations /\ m \in Committed(x[2])
    /\ read' = [read EXCEPT ![x] = IF m > @ THEN m ELSE @]
    /\ Marks(x, m)
    /\ UNCHANGED <<tables, emojis, scroll, req>>

\* The cursor is read first: an older mark is answered with success as it is.
MarkChannelAsRead(r, u, m) ==
    LET x == <<u, msgs[m].scope>> IN
    /\ req[r].pc = "idle"
    /\ x[2] \in Channels /\ m \in Committed(x[2])
    /\ IF read[x] >= m
       THEN Marks(x, m) /\ UNCHANGED req
       ELSE /\ req' = [req EXCEPT ![r] = [Begin(r, u, "update") EXCEPT !.msg = m, !.gone = {}]]
            /\ UNCHANGED marked
    /\ UNCHANGED <<tables, emojis, read, scroll>>

\* writeChannelReadState: update where the cursor is older, else insert, and
\* update again if somebody else's insert was first (23505).
UpdateCursor(r) ==
    LET x == Cursor(r) IN
    /\ req[r].pc = "update"
    /\ IF 0 < read[x] /\ read[x] < req[r].msg
       THEN /\ read' = [read EXCEPT ![x] = req[r].msg]
            /\ Marks(x, req[r].msg)
            /\ req' = [req EXCEPT ![r] = Idle]
       ELSE /\ req' = [req EXCEPT ![r].pc = "insert"]
            /\ UNCHANGED cursors
    /\ UNCHANGED <<tables, emojis, scroll>>

InsertCursor(r) ==
    LET x == Cursor(r) IN
    /\ req[r].pc = "insert"
    /\ IF read[x] = 0
       THEN /\ read' = [read EXCEPT ![x] = req[r].msg]
            /\ Marks(x, req[r].msg)
            /\ req' = [req EXCEPT ![r] = Idle]
       ELSE /\ req' = [req EXCEPT ![r].pc = "retry"]
            /\ UNCHANGED cursors
    /\ UNCHANGED <<tables, emojis, scroll>>

\* Deviation: the row that is there is left as it is.
TakeAsRead(x, m) == UNCHANGED read
Raise(x, m) == read' = [read EXCEPT ![x] = IF m > @ THEN m ELSE @]

RetryCursor(r) ==
    LET x == Cursor(r) IN
    /\ req[r].pc = "retry"
    /\ Raise(x, req[r].msg)
    /\ Marks(x, req[r].msg)
    /\ req' = [req EXCEPT ![r] = Idle]
    /\ UNCHANGED <<tables, emojis, scroll>>

-----------------------------------------------------------------------------
(* Reactions *)

\* The message is looked up.
React(r, u, m, on) ==
    /\ req[r].pc = "idle" /\ Live(m)
    /\ req' = [req EXCEPT ![r] = [Begin(r, u, "react") EXCEPT !.msg = m, !.on = on, !.gone = {}]]
    /\ UNCHANGED <<tables, emojis, cursors, scroll>>

SetReaction(r, u, m, on) == msgs[m].scope \in Conversations /\ React(r, u, m, on)
SetChannelReaction(r, u, m, on) == msgs[m].scope \in Channels /\ React(r, u, m, on)

\* Deviation: what was asked for counts as done.
AsAsked(x, on) == TRUE
\* One row per message, user and emoji: inserted or deleted, or nothing to do.
Changes(x, on) == on # (x \in reactions)

\* A change that nobody will announce.
Lose(x, on) ==
    /\ untold' = [untold EXCEPT ![x] = IF on THEN @ + 1 ELSE @ - 1]
    /\ untold'[x] \in (-MaxUntold)..MaxUntold

Written(x, on) == IF on THEN reactions \cup {x} ELSE reactions \ {x}

\* The message may have been recalled since it was checked.
WriteRow(r) ==
    LET x == <<req[r].msg, req[r].user>> IN
    /\ req[r].pc = "react"
    /\ reactions' = Written(x, req[r].on)
    /\ req' = [req EXCEPT ![r] = IF Changes(x, req[r].on) THEN [@ EXCEPT !.pc = "tell"] ELSE Idle]
    /\ UNCHANGED <<tables, announced, cursors, scroll>>

\* The write answers with an error, made or not: as if there was nothing to do.
WriteUnseen(r) ==
    LET x == <<req[r].msg, req[r].user>> IN
    /\ req[r].pc = "react"
    /\ req' = [req EXCEPT ![r] = Idle]
    /\ \/ UNCHANGED <<reactions, untold>>
       \/ /\ reactions' = Written(x, req[r].on) /\ reactions' # reactions
          /\ Lose(x, req[r].on)
    /\ UNCHANGED <<tables, told, cursors, scroll>>

ReactsIn(r, S) == req[r].pc \in {"react", "tell"} /\ msgs[req[r].msg].scope \in S

WriteReaction(r) == ReactsIn(r, Conversations) /\ (WriteRow(r) \/ WriteUnseen(r))
WriteChannelReaction(r) == ReactsIn(r, Channels) /\ (WriteRow(r) \/ WriteUnseen(r))

\* The reactions are read again and REACTION_UPDATED says what was done.
TellChange(r) ==
    LET x == <<req[r].msg, req[r].user>> IN
    /\ req[r].pc = "tell"
    /\ told' = [told EXCEPT ![x] = IF req[r].on THEN @ + 1 ELSE @ - 1]
    /\ req' = [req EXCEPT ![r] = Idle]
    /\ UNCHANGED <<tables, reactions, untold, cursors, scroll>>

TellReaction(r) == ReactsIn(r, Conversations) /\ TellChange(r)
TellChannelReaction(r) == ReactsIn(r, Channels) /\ TellChange(r)

\* The handler goes no further: an instance stops or a query fails.  A client
\* that reads page by page asks for the page again.
Stop(r) ==
    /\ req[r].pc # "idle"
    /\ req' = [req EXCEPT ![r] = Idle]
    /\ scroll' = IF req[r].scrolls THEN [scroll EXCEPT ![req[r].user].state = "open"] ELSE scroll
    /\ IF req[r].pc = "tell" THEN Lose(<<req[r].msg, req[r].user>>, req[r].on)
       ELSE UNCHANGED untold
    /\ UNCHANGED <<tables, reactions, told, cursors>>

-----------------------------------------------------------------------------

WriterStep ==
    \/ \E s \in Scopes : Draw(s)
    \/ \E m \in Known : \E f \in {{}, {m}} : Commit(m, f)
    \/ \E m \in Known : Undo(m) \/ Recall(m)

ReadStep(r, u) ==
    \/ GetConversationMessages(r, u) \/ GetChannelMessages(r, u)
    \/ GetConversationRows(r, u) \/ GetChannelRows(r, u) \/ Search(r, u)
    \/ GetConversationPinnedMessages(r, u) \/ GetChannelPinnedMessages(r, u)
    \/ \E m \in Known : GetAttachmentSignedUrl(r, u, m) \/ GetChannelAttachmentSignedUrl(r, u, m)

WriteStep(r, u) ==
    \E m \in Known :
        \/ RecallUnaided(r, u, m) \/ MarkChannelAsRead(r, u, m)
        \/ \E b \in BOOLEAN :
            SetPin(r, u, m, b) \/ SetReaction(r, u, m, b) \/ SetChannelReaction(r, u, m, b)

Continue(r) ==
    \/ FilterHidden(r) \/ AssembleConversationPage(r) \/ AssembleChannelPage(r)
    \/ AssembleMessages(r) \/ Answer(r) \/ Sign(r)
    \/ UpdateCursor(r) \/ InsertCursor(r) \/ RetryCursor(r)
    \/ WriteReaction(r) \/ WriteChannelReaction(r)
    \/ TellReaction(r) \/ TellChannelReaction(r) \/ Redact(r) \/ SweepReactions(r) \/ Stop(r)

Next ==
    \/ WriterStep
    \/ \E r \in Requests : Continue(r) \/ \E u \in Users : ReadStep(r, u) \/ WriteStep(r, u)
    \/ \E u \in Users :
        \/ \E s \in Scopes, k \in {"page", "search"} : OpenScroll(u, s, k)
        \/ \E m \in Known : Hide(u, m) \/ MarkAsRead(u, m)

Spec == Init /\ [][Next]_vars

-----------------------------------------------------------------------------
(* Properties *)

\* The types of the variables.
TypeOK ==
    /\ msgs \in Seq(Message) /\ Len(msgs) <= MaxMessages
    /\ files \in SUBSET Ids
    /\ reactions \in SUBSET (Ids \X Users)
    /\ hidden \in SUBSET (Users \X Ids)
    /\ read \in [Users \X Scopes -> 0..MaxMessages]
    /\ scroll \in [Users -> Scroll]
    /\ req \in [Requests -> Request]
    /\ marked \in [Users \X Scopes -> 0..MaxMessages]
    /\ told \in [Ids \X Users -> Int]
    /\ untold \in [Ids \X Users -> Int]

\* A client that has followed nextCursor until hasMore was false has received
\* every message that it could see when it began and still can, whatever was
\* posted, hidden or recalled while it read.
ScrollIsComplete ==
    \A u \in Users :
        scroll[u].state = "over" /\ scroll[u].exact =>
            \A m \in scroll[u].want :
                m \in scroll[u].got \/ m \in HiddenBy(u)
                    \/ (scroll[u].kind = "search" /\ m \in Recalled)

\* Neither files nor reactions of a message recalled before a request began are
\* in its answer, although a recall may leave files behind and a reaction may
\* be written after it.
RecalledIsNotShown ==
    \A r \in Requests : req[r].shown \cap req[r].gone = {}

\* Whatever the order of the writes, the cursor is the newest of the marks that
\* were answered with success: none is lost, none pulls it back.
CursorIsNewestMark == read = marked

\* Clients that count the reactions they are told of arrive at the table, unless
\* the message has been recalled: a duplicate or a no-op is not announced, nor is
\* a change twice.  They are off by just what a failure kept from them, which no
\* later write makes up for.
ToldAsStored ==
    \A m \in Ids, u \in Users :
        Live(m) /\ (\A r \in Requests : req[r].pc = "tell" => <<req[r].msg, req[r].user>> # <<m, u>>) =>
            told[<<m, u>>] + untold[<<m, u>>] = IF <<m, u>> \in reactions THEN 1 ELSE 0
=============================================================================
