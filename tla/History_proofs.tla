---------------------------- MODULE History_proofs ----------------------------
(* Proofs about History, for any users, scopes, requests and page limit. *)
EXTENDS History, FiniteSetTheorems, SequenceTheorems, WellFoundedInduction, TLAPS

-----------------------------------------------------------------------------
(* Types *)

\* A request under way is somebody's, the message it is about is in the table,
\* and one that reads on in a scroll is what that scroll is waiting for.
AboutMessage == {"redact", "sweep", "update", "insert", "retry", "react", "tell", "sign"}
Formed(q) ==
    /\ q.pc # "idle" => q.user \in Users
    /\ q.pc \in AboutMessage => q.msg \in Known
    /\ q.scrolls => /\ q.pc \in {"filter", "assemble", "answer"}
                    /\ scroll[q.user].state = "asking"

Core ==
    /\ TypeOK
    /\ \A r \in Requests : Formed(req[r])
    /\ \A r, q \in Requests :
        req[r].scrolls /\ req[q].scrolls /\ req[r].user = req[q].user => r = q
    /\ \A u \in Users : scroll[u].state # "over" => scroll[u].scope \in Scopes

\* What happens to the table: rows are added, stay in their scope, and a
\* message that was committed stays, recalled if it was.
Grown ==
    /\ Len(msgs) <= Len(msgs')
    /\ \A m \in Known :
        /\ msgs'[m].scope = msgs[m].scope
        /\ msgs[m].state \in {"live", "recalled"} => msgs'[m].state \in {"live", "recalled"}
        /\ msgs[m].state = "recalled" => msgs'[m].state = "recalled"

TableTyped == msgs \in Seq(Message) /\ Len(msgs) <= MaxMessages

LEMMA RowTyped == ASSUME TableTyped, NEW m \in Known PROVE msgs[m] \in Message /\ m \in Ids
<1>1. msgs[m] \in Message
    BY ElementOfSeq DEF TableTyped, Known
<1>2. Len(msgs) \in Nat
    BY LenProperties DEF TableTyped
<1> QED
    BY <1>1, <1>2, HistoryAssumption DEF TableTyped, Known, Ids

LEMMA AddedRow ==
    ASSUME TableTyped, NEW s \in Scopes, Draw(s)
    PROVE  TableTyped' /\ Grown
<1> DEFINE row == [scope |-> s, state |-> "drawn", pinned |-> FALSE]
<1>1. row \in Message
    BY DEF Message
<1>2. msgs' = Append(msgs, row)
    BY DEF Draw
<1> HIDE DEF row
<1>3. /\ msgs' \in Seq(Message) /\ Len(msgs') = Len(msgs) + 1
      /\ \A i \in 1..Len(msgs) : msgs'[i] = msgs[i]
    BY <1>1, <1>2, AppendProperties DEF TableTyped
<1>4. Len(msgs) \in Nat
    BY LenProperties DEF TableTyped
<1> QED
    BY <1>3, <1>4, HistoryAssumption DEF TableTyped, Grown, Known, Draw

\* Two ways to change a row.
LEMMA ChangedState ==
    ASSUME TableTyped, NEW m \in Known, NEW st \in {"undone", "live", "recalled"},
           msgs' = [msgs EXCEPT ![m].state = st],
           msgs[m].state = "live" => st # "undone", msgs[m].state = "recalled" => st = "recalled"
    PROVE  TableTyped' /\ Grown
<1> DEFINE row == [msgs[m] EXCEPT !.state = st]
<1>1. msgs[m] \in Message
    BY RowTyped
<1>2. row \in Message /\ row.scope = msgs[m].scope /\ row.state = st
    BY <1>1 DEF Message
<1>3. msgs' = [msgs EXCEPT ![m] = row]
    OBVIOUS
<1> HIDE DEF row
<1>4. /\ msgs' \in Seq(Message) /\ Len(msgs') = Len(msgs)
      /\ \A j \in 1..Len(msgs) : msgs'[j] = IF j = m THEN row ELSE msgs[j]
    BY <1>2, <1>3, ExceptSeq DEF TableTyped, Known
<1>5. Len(msgs) \in Nat
    BY LenProperties DEF TableTyped
<1> QED
    BY <1>2, <1>4, <1>5 DEF TableTyped, Grown, Known

LEMMA ChangedPin ==
    ASSUME TableTyped, NEW m \in Known, NEW p \in BOOLEAN,
           msgs' = [msgs EXCEPT ![m].pinned = p]
    PROVE  TableTyped' /\ Grown
<1> DEFINE row == [msgs[m] EXCEPT !.pinned = p]
<1>1. msgs[m] \in Message
    BY RowTyped
<1>2. row \in Message /\ row.scope = msgs[m].scope /\ row.state = msgs[m].state
    BY <1>1 DEF Message
<1>3. msgs' = [msgs EXCEPT ![m] = row]
    OBVIOUS
<1> HIDE DEF row
<1>4. /\ msgs' \in Seq(Message) /\ Len(msgs') = Len(msgs)
      /\ \A j \in 1..Len(msgs) : msgs'[j] = IF j = m THEN row ELSE msgs[j]
    BY <1>2, <1>3, ExceptSeq DEF TableTyped, Known
<1>5. Len(msgs) \in Nat
    BY LenProperties DEF TableTyped
<1> QED
    BY <1>2, <1>4, <1>5 DEF TableTyped, Grown, Known

LEMMA SameTable == ASSUME TableTyped, msgs' = msgs PROVE TableTyped' /\ Grown
<1>1. Len(msgs) \in Nat
    BY LenProperties DEF TableTyped
<1> QED
    BY <1>1 DEF TableTyped, Grown, Known

\* The actions, without the names that tell conversations from channels.
UserStep(u) ==
    \/ \E s \in Scopes, k \in {"page", "search"} : OpenScroll(u, s, k)
    \/ \E m \in Known : Hide(u, m) \/ MarkAsRead(u, m)
BeginStep(r, u) ==
    \/ GetPage(r, u, Conversations) \/ GetPage(r, u, Channels)
    \/ GetRows(r, u, Conversations) \/ GetRows(r, u, Channels)
    \/ Search(r, u)
    \/ \E s \in Scopes : GetPinned(r, u, s)
    \/ \E m \in Known :
        \/ GetUrl(r, u, m) \/ RecallUnaided(r, u, m) \/ MarkChannelAsRead(r, u, m)
        \/ \E b \in BOOLEAN : SetPin(r, u, m, b) \/ React(r, u, m, b)
ReadOn(r) == FilterHidden(r) \/ (Assembles(r) /\ AssembleRows(r)) \/ Answer(r) \/ Sign(r)
MarkOn(r) == UpdateCursor(r) \/ InsertCursor(r) \/ RetryCursor(r)
ChangeOn(r) == \/ WriteRow(r) \/ WriteUnseen(r) \/ TellChange(r)
               \/ Redact(r) \/ SweepReactions(r)

LEMMA NextCases ==
    ASSUME [Next]_vars
    PROVE  \/ UNCHANGED vars
           \/ WriterStep
           \/ \E u \in Users : UserStep(u)
           \/ \E r \in Requests : \/ \E u \in Users : BeginStep(r, u)
                                  \/ ReadOn(r) \/ MarkOn(r) \/ ChangeOn(r) \/ Stop(r)
<1>1. ASSUME NEW r \in Requests, Continue(r)
      PROVE  ReadOn(r) \/ MarkOn(r) \/ ChangeOn(r) \/ Stop(r)
    BY <1>1 DEF Continue, ReadOn, MarkOn, ChangeOn, AssembleConversationPage,
            AssembleChannelPage, AssembleMessages, WriteReaction, WriteChannelReaction,
            TellReaction, TellChannelReaction
<1>2. ASSUME NEW r \in Requests, NEW u \in Users, ReadStep(r, u) \/ WriteStep(r, u)
      PROVE  BeginStep(r, u)
    <2>1. CASE ReadStep(r, u)
        BY <2>1 DEF ReadStep, BeginStep, GetConversationMessages, GetChannelMessages,
                GetConversationRows, GetChannelRows, GetConversationPinnedMessages,
                GetChannelPinnedMessages, GetAttachmentSignedUrl,
                GetChannelAttachmentSignedUrl, Scopes
    <2>2. CASE WriteStep(r, u)
        BY <2>2 DEF WriteStep, BeginStep, SetReaction, SetChannelReaction
    <2> QED
        BY <1>2, <2>1, <2>2
<1> QED
    BY <1>1, <1>2 DEF Next, UserStep

LEMMA TableGrows ==
    ASSUME Core, [Next]_vars
    PROVE  TableTyped' /\ Grown
<1>t. TableTyped
    BY DEF Core, TypeOK, TableTyped
<1>1. CASE UNCHANGED vars
    BY <1>t, <1>1, SameTable DEF vars
<1>2. CASE WriterStep
    <2>1. ASSUME NEW s \in Scopes, Draw(s) PROVE TableTyped' /\ Grown
        BY <1>t, <2>1, AddedRow
    <2>2. ASSUME NEW m \in Known, NEW f \in {{}, {m}}, Commit(m, f) PROVE TableTyped' /\ Grown
        BY <1>t, <2>2, ChangedState DEF Commit
    <2>3. ASSUME NEW m \in Known, Undo(m) PROVE TableTyped' /\ Grown
        BY <1>t, <2>3, ChangedState DEF Undo
    <2>4. ASSUME NEW m \in Known, Recall(m) PROVE TableTyped' /\ Grown
        BY <1>t, <2>4, ChangedState DEF Recall
    <2> QED
        BY <1>2, <2>1, <2>2, <2>3, <2>4 DEF WriterStep
<1>3. CASE \E u \in Users : UserStep(u)
    <2>1. msgs' = msgs
        BY <1>3 DEF UserStep, OpenScroll, Hide, MarkAsRead, tables
    <2> QED
        BY <1>t, <2>1, SameTable
<1>4. ASSUME NEW r \in Requests, NEW u \in Users, BeginStep(r, u) PROVE TableTyped' /\ Grown
    <2>1. ASSUME NEW m \in Known, NEW b \in BOOLEAN, SetPin(r, u, m, b) PROVE TableTyped' /\ Grown
        BY <1>t, <2>1, ChangedPin DEF SetPin
    <2>2. CASE ~\E m \in Known, b \in BOOLEAN : SetPin(r, u, m, b)
        <3>1. msgs' = msgs
            BY <1>4, <2>2 DEF BeginStep, GetPage, GetRows, Search, GetPinned, GetUrl,
                    RecallUnaided, MarkChannelAsRead, React, tables
        <3> QED
            BY <1>t, <3>1, SameTable
    <2> QED
        BY <2>1, <2>2
<1>5. ASSUME NEW r \in Requests, ReadOn(r) \/ MarkOn(r) \/ ChangeOn(r) \/ Stop(r)
      PROVE  TableTyped' /\ Grown
    <2>1. CASE Redact(r)
        <3>1. req[r].msg \in Known
            BY <2>1 DEF Core, Formed, Redact, AboutMessage
        <3> QED
            BY <1>t, <2>1, <3>1, ChangedState DEF Redact
    <2>2. CASE ~Redact(r)
        <3>1. msgs' = msgs
            BY <1>5, <2>2 DEF ReadOn, MarkOn, ChangeOn, FilterHidden, AssembleRows, Answer,
                    Sign, UpdateCursor, InsertCursor, RetryCursor, WriteRow, WriteUnseen, TellChange,
                    SweepReactions, Stop, tables
        <3> QED
            BY <1>t, <3>1, SameTable
    <2> QED
        BY <2>1, <2>2
<1> QED
    BY <1>1, <1>2, <1>3, <1>4, <1>5, NextCases

\* What was there is there.
LEMMA Seen ==
    ASSUME Core, Grown, TableTyped'
    PROVE  /\ Known \subseteq Known' /\ Known' \subseteq Ids /\ Recalled \subseteq Recalled'
           /\ \A s : Committed(s) \subseteq Committed(s)'
           /\ \A m \in Known : msgs'[m].scope = msgs[m].scope
<1>1. Len(msgs) \in Nat /\ Len(msgs') \in Nat
    BY LenProperties DEF Core, TypeOK, TableTyped
<1>2. Known \subseteq Known'
    BY <1>1 DEF Grown, Known
<1>3. Known' \subseteq Ids
    BY <1>1, HistoryAssumption DEF TableTyped, Known, Ids
<1> QED
    BY <1>2, <1>3 DEF Grown, Recalled, Committed

LEMMA KnownIds == ASSUME Core PROVE Known \subseteq Ids
BY RowTyped DEF Core, TypeOK, TableTyped

LEMMA IdleTyped == Idle \in Request /\ NoScroll \in Scroll
BY HistoryAssumption DEF Idle, NoScroll, Request, Scroll, Steps, Ids

\* One request goes on, with the scrolls left alone.
LEMMA OneGoesOn ==
    ASSUME Core, Grown, TableTyped', NEW r \in Requests, NEW x \in Request,
           req' = [req EXCEPT ![r] = x], UNCHANGED scroll,
           Formed(x)',
           x.scrolls => req[r].scrolls /\ x.user = req[r].user
    PROVE  /\ req' \in [Requests -> Request]
           /\ \A q \in Requests : Formed(req[q])'
           /\ \A q, p \in Requests :
                req'[q].scrolls /\ req'[p].scrolls /\ req'[q].user = req'[p].user => q = p
<1>1. req' \in [Requests -> Request]
    BY DEF Core, TypeOK
<1>2. \A q \in Requests : req'[q] = IF q = r THEN x ELSE req[q]
    BY DEF Core, TypeOK
<1>3. ASSUME NEW q \in Requests PROVE Formed(req[q])'
    <2>1. CASE q = r
        BY <1>2, <2>1 DEF Formed
    <2>2. CASE q # r
        <3>1. Formed(req[q]) /\ req'[q] = req[q]
            BY <1>2, <2>2 DEF Core
        <3> QED
            BY <3>1, Seen DEF Formed
    <2> QED
        BY <2>1, <2>2
<1> QED
    BY <1>1, <1>2, <1>3 DEF Core

\* What Core says of requests and scrolls.
Going ==
    /\ req \in [Requests -> Request] /\ scroll \in [Users -> Scroll]
    /\ \A q \in Requests : Formed(req[q])
    /\ \A q, p \in Requests :
        req[q].scrolls /\ req[p].scrolls /\ req[q].user = req[p].user => q = p
    /\ \A u \in Users : scroll[u].state # "over" => scroll[u].scope \in Scopes

\* And of the rest.
Rest ==
    /\ files \in SUBSET Ids
    /\ reactions \in SUBSET (Ids \X Users)
    /\ hidden \in SUBSET (Users \X Ids)
    /\ read \in [Users \X Scopes -> 0..MaxMessages]
    /\ marked \in [Users \X Scopes -> 0..MaxMessages]
    /\ told \in [Ids \X Users -> Int]
    /\ untold \in [Ids \X Users -> Int]

LEMMA CoreParts == Core <=> TableTyped /\ Going /\ Rest
BY DEF Core, TypeOK, TableTyped, Going, Rest

LEMMA NobodyGoes ==
    ASSUME Core, Grown, TableTyped', UNCHANGED <<req, scroll>>
    PROVE  Going'
<1>1. \A q \in Requests : Formed(req[q])'
    BY Seen DEF Core, Formed
<1> QED
    BY <1>1 DEF Going, Core, TypeOK

LEMMA WriterGoes ==
    ASSUME Core, Grown, TableTyped', WriterStep
    PROVE  Going' /\ Rest'
<1>1. UNCHANGED <<req, scroll, read, marked, told, untold, hidden>>
    BY DEF WriterStep, Draw, Commit, Undo, Recall, cursors, emojis, announced
<1>2. files' \in SUBSET Ids /\ reactions' \in SUBSET (Ids \X Users)
    BY KnownIds DEF WriterStep, Draw, Commit, Undo, Recall, emojis, announced, Core, TypeOK
<1> QED
    BY <1>1, <1>2, NobodyGoes, CoreParts DEF Rest

LEMMA MarkTyped ==
    ASSUME TypeOK, NEW m \in Ids, NEW x \in Users \X Scopes
    PROVE  /\ Marks(x, m) => marked' \in [Users \X Scopes -> 0..MaxMessages]
           /\ Raise(x, m) => read' \in [Users \X Scopes -> 0..MaxMessages]
           /\ read' = [read EXCEPT ![x] = m] => read' \in [Users \X Scopes -> 0..MaxMessages]
<1>1. m \in 0..MaxMessages
    BY HistoryAssumption DEF Ids
<1> QED
    BY <1>1 DEF TypeOK, Marks, Raise

LEMMA UserGoes ==
    ASSUME Core, Grown, TableTyped', NEW u \in Users, UserStep(u)
    PROVE  Going' /\ Rest'
<1>1. ASSUME NEW s \in Scopes, NEW k \in {"page", "search"}, OpenScroll(u, s, k)
      PROVE  Going' /\ Rest'
    <2>1. UNCHANGED <<msgs, files, hidden, reactions, told, untold, read, marked, req>>
        BY <1>1 DEF OpenScroll, tables, emojis, announced, cursors
    <2>2. PICK z \in Scroll : /\ scroll' = [scroll EXCEPT ![u] = z]
                              /\ z.state = "open" /\ z.scope \in Scopes
        <3> DEFINE w == (IF k = "search" THEN NotDeleted(Committed(s)) ELSE Committed(s))
                            \ HiddenBy(u)
                   y == [NoScroll EXCEPT !.scope = s, !.kind = k, !.state = "open", !.want = w]
        <3>1. w \in SUBSET Ids
            BY KnownIds DEF NotDeleted, Committed
        <3>2. scroll' = [scroll EXCEPT ![u] = y]
            BY <1>1 DEF OpenScroll
        <3> HIDE DEF w
        <3>3. y \in Scroll /\ y.state = "open" /\ y.scope \in Scopes
            BY <3>1, IdleTyped DEF Scroll, NoScroll
        <3> QED
            BY <3>2, <3>3
    <2>3. scroll[u].state = "over"
        BY <1>1 DEF OpenScroll
    <2>4. \A q \in Requests : Formed(req[q])'
        BY <2>1, <2>2, <2>3, Seen DEF Core, Formed, TypeOK
    <2> QED
        BY <2>1, <2>2, <2>4, CoreParts DEF Going, Rest
<1>2. ASSUME NEW m \in Known, Hide(u, m) \/ MarkAsRead(u, m)
      PROVE  Going' /\ Rest'
    <2>1. UNCHANGED <<msgs, files, reactions, told, untold, req, scroll>>
        BY <1>2 DEF Hide, MarkAsRead, tables, emojis, announced, cursors
    <2>2. m \in Ids
        BY KnownIds
    <2>3. hidden' \in SUBSET (Users \X Ids)
        BY <1>2, <2>2 DEF Hide, MarkAsRead, tables, Core, TypeOK
    <2>4. /\ read' \in [Users \X Scopes -> 0..MaxMessages]
          /\ marked' \in [Users \X Scopes -> 0..MaxMessages]
        <3>1. CASE Hide(u, m)
            BY <3>1 DEF Hide, cursors, Core, TypeOK
        <3>2. CASE MarkAsRead(u, m)
            <4> DEFINE x == <<u, msgs[m].scope>>
            <4>1. x \in Users \X Scopes /\ Raise(x, m) /\ Marks(x, m)
                BY <3>2 DEF MarkAsRead, Raise, Scopes
            <4> HIDE DEF x
            <4> QED
                BY <4>1, <2>2, MarkTyped DEF Core
        <3> QED
            BY <1>2, <3>1, <3>2
    <2> QED
        BY <2>1, <2>3, <2>4, NobodyGoes, CoreParts DEF Rest
<1> QED
    BY <1>1, <1>2 DEF UserStep

\* A scroll asks for its next page.
LEMMA AskGoes ==
    ASSUME Core, Grown, TableTyped', NEW r \in Requests, NEW u \in Users,
           NEW step \in {"filter", "assemble"}, NEW R \in SUBSET Ids,
           Ask(r, u, step, R), NEW z \in Scroll, scroll' = [scroll EXCEPT ![u] = z],
           z.state = "asking", z.scope = scroll[u].scope
    PROVE  Going'
<1> DEFINE y == [Begin(r, u, step) EXCEPT !.scrolls = TRUE, !.rows = R, !.active = NotDeleted(R)]
<1>1. Recalled \in SUBSET Ids /\ NotDeleted(R) \in SUBSET Ids
    BY KnownIds DEF Recalled, NotDeleted
<1>2. y \in Request /\ y.pc = step /\ y.user = u /\ y.scrolls
    <2>1. Begin(r, u, step) \in Request /\ Begin(r, u, step).pc = step /\ Begin(r, u, step).user = u
        BY <1>1, IdleTyped DEF Begin, Request, Idle, Steps
    <2> QED
        BY <1>1, <2>1 DEF Request
<1>3. req' = [req EXCEPT ![r] = y] /\ req[r].pc = "idle" /\ scroll[u].state = "open"
    BY DEF Ask
<1> HIDE DEF y
<1>4. PICK x \in Request : x = y
    BY <1>2
<1>5. /\ \A q \in Requests : req'[q] = IF q = r THEN x ELSE req[q]
      /\ \A v \in Users : scroll'[v] = IF v = u THEN z ELSE scroll[v]
    BY <1>3, <1>4 DEF Core, TypeOK
<1>6. \A q \in Requests : req[q].scrolls => req[q].user # u
    BY <1>3 DEF Core, Formed
<1>7. \A q \in Requests : Formed(req[q])'
    <2> SUFFICES ASSUME NEW q \in Requests PROVE Formed(req[q])'
        OBVIOUS
    <2>1. CASE q = r
        BY <1>2, <1>4, <1>5, <2>1 DEF Formed, AboutMessage
    <2>2. CASE q # r
        BY <1>5, <1>6, <2>2, Seen DEF Core, Formed, TypeOK
    <2> QED
        BY <2>1, <2>2
<1>8. \A q, p \in Requests :
        req'[q].scrolls /\ req'[p].scrolls /\ req'[q].user = req'[p].user => q = p
    BY <1>2, <1>4, <1>5, <1>6 DEF Core
<1>9. req' \in [Requests -> Request] /\ scroll' \in [Users -> Scroll]
    BY <1>2, <1>3 DEF Core, TypeOK
<1>10. \A v \in Users : scroll'[v].state # "over" => scroll'[v].scope \in Scopes
    BY <1>3, <1>5 DEF Core
<1> QED
    BY <1>7, <1>8, <1>9, <1>10 DEF Going

LEMMA NewestIsPart == ASSUME NEW M, NEW n PROVE Newest(M, n) \in SUBSET M
BY DEF Newest

LEMMA PagesAsk ==
    ASSUME Core, Grown, TableTyped', NEW r \in Requests, NEW u \in Users,
           \/ \E S \in {Conversations, Channels} : GetPage(r, u, S) \/ GetRows(r, u, S)
           \/ Search(r, u)
    PROVE  Going'
<1>1. Older(u) \in SUBSET Ids
    BY KnownIds DEF Older, Committed
<1>2. ASSUME NEW S \in {Conversations, Channels}, GetPage(r, u, S) PROVE Going'
    <2>1. Page(u, Older(u)) \in SUBSET Ids
        BY <1>1, NewestIsPart DEF Page
    <2>2. [scroll[u] EXCEPT !.state = "asking"] \in Scroll
        BY DEF Core, TypeOK, Scroll
    <2>3. PICK z \in Scroll : z = [scroll[u] EXCEPT !.state = "asking"]
        BY <2>2
    <2>4. scroll' = [scroll EXCEPT ![u] = z]
        BY <1>2, <2>3 DEF GetPage
    <2>5. z.state = "asking" /\ z.scope = scroll[u].scope
        BY <2>3 DEF Core, TypeOK, Scroll
    <2>6. Ask(r, u, "assemble", Page(u, Older(u)))
        BY <1>2 DEF GetPage
    <2> QED
        BY <2>1, <2>4, <2>5, <2>6, AskGoes
<1>3. ASSUME NEW S \in {Conversations, Channels}, GetRows(r, u, S) PROVE Going'
    <2>1. Newest(Older(u), Limit + 1) \in SUBSET Ids
        BY <1>1, NewestIsPart
    <2> DEFINE y == [scroll[u] EXCEPT !.state = "asking", !.exact = FALSE]
    <2>2. y \in Scroll /\ y.state = "asking" /\ y.scope = scroll[u].scope
        BY DEF Core, TypeOK, Scroll
    <2>3. PICK z \in Scroll : z = y
        BY <2>2
    <2>4. scroll' = [scroll EXCEPT ![u] = z]
        BY <1>3, <2>3 DEF GetRows, Core, TypeOK
    <2>5. Ask(r, u, "filter", Newest(Older(u), Limit + 1))
        BY <1>3 DEF GetRows
    <2> HIDE DEF y
    <2> QED
        BY <2>1, <2>2, <2>3, <2>4, <2>5, AskGoes
<1>4. CASE Search(r, u)
    <2>1. Page(u, NotDeleted(Older(u))) \in SUBSET Ids
        BY <1>1, NewestIsPart DEF Page, NotDeleted
    <2>2. [scroll[u] EXCEPT !.state = "asking"] \in Scroll
        BY DEF Core, TypeOK, Scroll
    <2>3. PICK z \in Scroll : z = [scroll[u] EXCEPT !.state = "asking"]
        BY <2>2
    <2>4. scroll' = [scroll EXCEPT ![u] = z]
        BY <1>4, <2>3 DEF Search
    <2>5. z.state = "asking" /\ z.scope = scroll[u].scope
        BY <2>3 DEF Core, TypeOK, Scroll
    <2>6. Ask(r, u, "assemble", Page(u, NotDeleted(Older(u))))
        BY <1>4 DEF Search
    <2> QED
        BY <2>1, <2>4, <2>5, <2>6, AskGoes
<1> QED
    BY <1>2, <1>3, <1>4

LEMMA BeginTyped ==
    ASSUME Core, NEW r, NEW u \in Users, NEW step \in Steps
    PROVE  /\ Begin(r, u, step) \in Request
           /\ Begin(r, u, step).pc = step /\ Begin(r, u, step).user = u
           /\ ~Begin(r, u, step).scrolls
<1>1. Recalled \in SUBSET Ids
    BY KnownIds DEF Recalled
<1> QED
    BY <1>1, IdleTyped DEF Begin, Request, Idle

\* A request as the actions make it: of u, not for a scroll.
Begun(y, u, step) == y \in Request /\ ~y.scrolls /\ y.user = u /\ y.pc = step

LEMMA BeginWithRows ==
    ASSUME Core, NEW r, NEW u \in Users, NEW step \in Steps, NEW P \in SUBSET Ids
    PROVE  Begun([Begin(r, u, step) EXCEPT !.rows = P, !.active = P], u, step)
<1>1. PICK y : y = Begin(r, u, step)
    OBVIOUS
<1>2. Begun(y, u, step)
    BY <1>1, BeginTyped DEF Begun
<1>3. Begun([y EXCEPT !.rows = P, !.active = P], u, step)
    BY <1>2 DEF Begun, Request
<1> QED
    BY <1>1, <1>3

LEMMA BeginIsBegun ==
    ASSUME Core, NEW r, NEW u \in Users, NEW step \in Steps
    PROVE  \E z : z = Begin(r, u, step) /\ Begun(z, u, step)
BY BeginTyped DEF Begun

\* A request begins that is about a message, or about pinned ones.
LEMMA OthersBegin ==
    ASSUME Core, Grown, TableTyped', NEW r \in Requests, NEW u \in Users,
           \/ \E s \in Scopes : GetPinned(r, u, s)
           \/ \E m \in Known :
                \/ GetUrl(r, u, m) \/ RecallUnaided(r, u, m) \/ MarkChannelAsRead(r, u, m)
                \/ \E b \in BOOLEAN : SetPin(r, u, m, b) \/ React(r, u, m, b)
    PROVE  Going'
<1>s. UNCHANGED scroll
    BY DEF GetPinned, GetUrl, RecallUnaided, MarkChannelAsRead, SetPin, React
<1>1. CASE UNCHANGED req
    BY <1>1, <1>s, NobodyGoes
<1>2. ASSUME NEW x \in Request, req' = [req EXCEPT ![r] = x], ~x.scrolls, x.user = u,
             x.pc \in AboutMessage => x.msg \in Known
      PROVE  Going'
    <2>1. Formed(x)'
        BY <1>2, Seen DEF Formed
    <2>2. scroll' \in [Users -> Scroll] /\ \A v \in Users : scroll'[v].state # "over" => scroll'[v].scope \in Scopes
        BY <1>s DEF Core, TypeOK
    <2> QED
        BY <1>2, <1>s, <2>1, <2>2, OneGoesOn DEF Going
<1>p. "assemble" \in Steps /\ "sign" \in Steps /\ "redact" \in Steps /\ "update" \in Steps
      /\ "react" \in Steps /\ "assemble" \notin AboutMessage
    BY DEF Steps, AboutMessage
<1>3. ASSUME NEW s \in Scopes, GetPinned(r, u, s)
      PROVE  \E x \in Request : /\ req' = [req EXCEPT ![r] = x] /\ ~x.scrolls /\ x.user = u
                                /\ x.pc \in AboutMessage => x.msg \in Known
    <2> DEFINE P == {m \in NotDeleted(Committed(s)) : msgs[m].pinned} \ HiddenBy(u)
               y == [Begin(r, u, "assemble") EXCEPT !.rows = P, !.active = P]
    <2>1. P \in SUBSET Ids
        BY KnownIds DEF NotDeleted, Committed
    <2>2. req' = [req EXCEPT ![r] = y]
        BY <1>3 DEF GetPinned
    <2> HIDE DEF P
    <2>3. Begun(y, u, "assemble")
        BY <2>1, <1>p, BeginWithRows
    <2> HIDE DEF y
    <2> QED
        BY <2>2, <2>3, <1>p DEF Begun
<1>4. ASSUME NEW m \in Known, GetUrl(r, u, m) \/ RecallUnaided(r, u, m)
      PROVE  \E x \in Request : /\ req' = [req EXCEPT ![r] = x] /\ ~x.scrolls /\ x.user = u
                                /\ x.pc \in AboutMessage => x.msg \in Known
    <2>1. m \in 0..MaxMessages
        BY KnownIds, HistoryAssumption DEF Ids
    <2>2. PICK step \in {"sign", "redact"} :
                req' = [req EXCEPT ![r] = [Begin(r, u, step) EXCEPT !.msg = m]]
        BY <1>4 DEF GetUrl, RecallUnaided
    <2>3. PICK z : z = Begin(r, u, step) /\ Begun(z, u, step)
        BY <1>p, BeginIsBegun
    <2>4. PICK y : y = [z EXCEPT !.msg = m]
        OBVIOUS
    <2>5. Begun(y, u, step) /\ y.msg = m
        BY <2>1, <2>3, <2>4 DEF Begun, Request
    <2> QED
        BY <2>2, <2>3, <2>4, <2>5 DEF Begun
<1>5. ASSUME NEW m \in Known, NEW b \in BOOLEAN, SetPin(r, u, m, b)
      PROVE  \E x \in Request : /\ req' = [req EXCEPT ![r] = x] /\ ~x.scrolls /\ x.user = u
                                /\ x.pc \in AboutMessage => x.msg \in Known
    <2> DEFINE P == {m}
               y == [Begin(r, u, "assemble") EXCEPT !.rows = P, !.active = P]
    <2>1. P \in SUBSET Ids
        BY KnownIds
    <2>2. req' = [req EXCEPT ![r] = y]
        BY <1>5 DEF SetPin
    <2> HIDE DEF P
    <2>3. Begun(y, u, "assemble")
        BY <2>1, <1>p, BeginWithRows
    <2> HIDE DEF y
    <2> QED
        BY <2>2, <2>3, <1>p DEF Begun
<1>6. ASSUME NEW m \in Known, NEW b \in BOOLEAN, MarkChannelAsRead(r, u, m) \/ React(r, u, m, b)
      PROVE  \/ UNCHANGED req
             \/ \E x \in Request : /\ req' = [req EXCEPT ![r] = x] /\ ~x.scrolls /\ x.user = u
                                   /\ x.pc \in AboutMessage => x.msg \in Known
    <2>1. m \in 0..MaxMessages
        BY KnownIds, HistoryAssumption DEF Ids
    <2>2. CASE MarkChannelAsRead(r, u, m) /\ ~UNCHANGED req
        <3>1. PICK z : z = Begin(r, u, "update") /\ Begun(z, u, "update")
            BY <1>p, BeginIsBegun
        <3>r. req' = [req EXCEPT ![r] = [z EXCEPT !.msg = m, !.gone = {}]]
            BY <2>2, <3>1 DEF MarkChannelAsRead
        <3>2. PICK y : y = [z EXCEPT !.msg = m, !.gone = {}] /\ req' = [req EXCEPT ![r] = y]
            BY <3>r
        <3>3. Begun(y, u, "update") /\ y.msg = m
            BY <2>1, <3>1, <3>2 DEF Begun, Request
        <3> QED
            BY <3>2, <3>3 DEF Begun
    <2>3. CASE React(r, u, m, b)
        <3>1. PICK z : z = Begin(r, u, "react") /\ Begun(z, u, "react")
            BY <1>p, BeginIsBegun
        <3>r. req' = [req EXCEPT ![r] = [z EXCEPT !.msg = m, !.on = b, !.gone = {}]]
            BY <2>3, <3>1 DEF React
        <3>2. PICK y : /\ y = [z EXCEPT !.msg = m, !.on = b, !.gone = {}]
                       /\ req' = [req EXCEPT ![r] = y]
            BY <3>r
        <3>3. Begun(y, u, "react") /\ y.msg = m
            BY <2>1, <3>1, <3>2 DEF Begun, Request
        <3> QED
            BY <3>2, <3>3 DEF Begun
    <2> QED
        BY <1>6, <2>2, <2>3
<1>7. \/ UNCHANGED req
      \/ \E x \in Request : /\ req' = [req EXCEPT ![r] = x] /\ ~x.scrolls /\ x.user = u
                            /\ x.pc \in AboutMessage => x.msg \in Known
    BY <1>3, <1>4, <1>5, <1>6
<1> QED
    BY <1>1, <1>2, <1>7

LEMMA BeginGoes ==
    ASSUME Core, Grown, TableTyped', NEW r \in Requests, NEW u \in Users, BeginStep(r, u)
    PROVE  Going' /\ Rest'
<1>1. Going'
    BY PagesAsk, OthersBegin DEF BeginStep
<1>2. UNCHANGED <<files, hidden, reactions, told, untold, read>>
    BY DEF BeginStep, GetPage, GetRows, Search, GetPinned, GetUrl, RecallUnaided,
        MarkChannelAsRead, SetPin, React, tables, emojis, announced, cursors
<1>3. marked' \in [Users \X Scopes -> 0..MaxMessages]
    <2>1. CASE UNCHANGED marked
        BY <2>1 DEF Core, TypeOK
    <2>2. CASE ~UNCHANGED marked
        <3>1. PICK m \in Known : MarkChannelAsRead(r, u, m)
            BY <2>2 DEF BeginStep, GetPage, GetRows, Search, GetPinned, GetUrl, RecallUnaided,
                SetPin, React, tables, emojis, announced, cursors
        <3> DEFINE x == <<u, msgs[m].scope>>
        <3>2. x \in Users \X Scopes /\ Marks(x, m) /\ m \in Ids
            BY <2>2, <3>1, KnownIds DEF MarkChannelAsRead, Scopes
        <3> HIDE DEF x
        <3> QED
            BY <3>2, MarkTyped DEF Core
    <2> QED
        BY <2>1, <2>2
<1> QED
    BY <1>1, <1>2, <1>3, CoreParts DEF Rest

\* A request ends, or goes on with the same message, for the same user.
LEMMA Proceeds ==
    ASSUME Core, Grown, TableTyped', NEW r \in Requests, NEW x \in Request,
           req' = [req EXCEPT ![r] = x], UNCHANGED scroll, req[r].pc # "idle",
           \/ x = Idle
           \/ /\ x.user = req[r].user /\ x.msg = req[r].msg /\ x.scrolls = req[r].scrolls
              /\ x.pc \in AboutMessage => req[r].pc \in AboutMessage
              /\ x.scrolls => x.pc \in {"assemble", "answer"}
    PROVE  Going'
<1>1. Formed(req[r])
    BY DEF Core
<1>2. Formed(x)' /\ (x.scrolls => req[r].scrolls /\ x.user = req[r].user)
    <2>1. CASE x = Idle
        BY <2>1 DEF Formed, Idle, AboutMessage
    <2>2. CASE x # Idle
        BY <1>1, <2>2, Seen DEF Formed
    <2> QED
        BY <2>1, <2>2
<1>3. /\ scroll' \in [Users -> Scroll]
      /\ \A v \in Users : scroll'[v].state # "over" => scroll'[v].scope \in Scopes
    BY DEF Core, TypeOK
<1> QED
    BY <1>2, <1>3, OneGoesOn DEF Going

\* In a page of a finite set there is a message, and an oldest one.
LEMMA FiniteIds == ASSUME NEW M \in SUBSET Ids PROVE IsFiniteSet(M)
<1>1. IsFiniteSet(Ids)
    BY HistoryAssumption, FS_Interval DEF Ids
<1> QED
    BY <1>1, FS_Subset

LEMMA Oldest ==
    ASSUME NEW M \in SUBSET Nat, M # {}
    PROVE  \E m \in M : \A x \in M : m <= x
<1> DEFINE Less == OpToRel(<, Nat)
<1>1. \E m \in M : \A k \in M : ~(<<k, m>> \in Less)
    <2>1. IsWellFoundedOn(Less, Nat)
        BY NatLessThanWellFounded
    <2> HIDE DEF Less
    <2> QED
        BY <2>1, WFMin
<1>2. PICK m \in M : \A k \in M : ~(k < m)
    BY <1>1 DEF OpToRel
<1> QED
    BY <1>2

LEMMA Latest ==
    ASSUME NEW M \in SUBSET Ids, M # {}
    PROVE  \E m \in M : \A x \in M : x <= m
<1> DEFINE N == {MaxMessages - x : x \in M}
<1>i. \A x \in M : x \in Nat /\ MaxMessages - x \in Nat
    BY HistoryAssumption DEF Ids
<1>1. N \in SUBSET Nat /\ N # {}
    BY <1>i
<1>2. PICK n \in N : \A x \in N : n <= x
    BY <1>1, Oldest
<1>3. PICK m \in M : n = MaxMessages - m
    BY <1>2
<1>4. ASSUME NEW x \in M PROVE x <= m
    <2>1. MaxMessages - x \in N
        OBVIOUS
    <2>2. n <= MaxMessages - x
        BY <1>2, <2>1
    <2> QED
        BY <1>3, <2>2, HistoryAssumption DEF Ids
<1> QED
    BY <1>4

LEMMA PageHasSome ==
    ASSUME NEW M \in SUBSET Ids, M # {}, NEW n \in Nat \ {0}
    PROVE  Newest(M, n) # {}
<1>1. PICK m \in M : \A x \in M : x <= m
    BY Latest
<1>2. \A x \in M : ~(x > m)
    BY <1>1 DEF Ids
<1>3. Cardinality({x \in M : x > m}) = 0
    <2>1. {x \in M : x > m} = {}
        BY <1>2
    <2> QED
        BY <2>1, FS_EmptySet
<1>4. m \in Newest(M, n)
    BY <1>3 DEF Newest
<1> QED
    BY <1>4

\* Where the client goes on.
LEMMA NextCursor ==
    ASSUME NEW R \in SUBSET Ids, Newest(R, Limit) # R
    PROVE  LET page == Newest(R, Limit)
               b == CHOOSE m \in page : \A x \in page : m <= x
           IN  b \in page /\ b \in Ids /\ \A x \in page : b <= x
<1> DEFINE page == Newest(R, Limit)
<1>1. page \in SUBSET R
    BY NewestIsPart
<1>2. R # {}
    BY <1>1
<1>3. page # {}
    BY <1>2, PageHasSome, HistoryAssumption
<1>n. page \in SUBSET Nat
    <2> HIDE DEF page
    <2> QED
        BY <1>1, HistoryAssumption DEF Ids
<1> HIDE DEF page
<1>4. \E m \in page : \A x \in page : m <= x
    BY <1>n, <1>3, Oldest
<1>5. (CHOOSE m \in page : \A x \in page : m <= x) \in page
      /\ \A x \in page : (CHOOSE m \in page : \A y \in page : m <= y) <= x
    BY <1>4
<1> QED
    BY <1>1, <1>5 DEF page

LEMMA AnswerGoes ==
    ASSUME Core, Grown, TableTyped', NEW r \in Requests, Answer(r)
    PROVE  Going'
<1>1. req' = [req EXCEPT ![r] = Idle] /\ req[r].pc = "answer" /\ req[r].user \in Users
    BY DEF Answer, Core, Formed
<1>2. CASE ~req[r].scrolls
    <2>1. UNCHANGED scroll
        BY <1>2 DEF Answer
    <2> QED
        BY <1>1, <2>1, IdleTyped, Proceeds
<1>3. CASE req[r].scrolls
    <2> DEFINE u == req[r].user
               page == Newest(req[r].rows, Limit)
               more == page # req[r].rows
               b == CHOOSE m \in page : \A x \in page : m <= x
               y == [scroll[u] EXCEPT !.got = @ \cup page,
                                      !.before = IF more THEN b ELSE @,
                                      !.state = IF more THEN "open" ELSE "over"]
    <2>a. scroll' = [scroll EXCEPT ![u].got = @ \cup page, ![u].before = IF more THEN b ELSE @,
                                    ![u].state = IF more THEN "open" ELSE "over"]
        BY <1>3 DEF Answer
    <2>2. req[r].rows \in SUBSET Ids /\ scroll[u] \in Scroll
        BY <1>1 DEF Core, TypeOK, Request
    <2>3. page \in SUBSET Ids /\ (more => b \in Ids)
        BY <2>2, NewestIsPart, NextCursor
    <2>4. more => b \in 1..(MaxMessages + 1)
        BY <2>3, HistoryAssumption DEF Ids
    <2> HIDE DEF page, more, b
    <2>1. scroll' = [scroll EXCEPT ![u] = y]
        BY <1>1, <2>a, <2>2 DEF Core, TypeOK, Scroll
    <2>5. y \in Scroll /\ y.scope = scroll[u].scope
        BY <2>2, <2>3, <2>4 DEF Scroll
    <2> HIDE DEF y
    <2>6. PICK z \in Scroll : z = y
        BY <2>5
    <2>7. PICK v \in Users : v = u
        BY <1>1
    <2>8. /\ \A q \in Requests : req'[q] = IF q = r THEN Idle ELSE req[q]
          /\ \A w \in Users : scroll'[w] = IF w = v THEN z ELSE scroll[w]
        BY <1>1, <2>1, <2>6, <2>7 DEF Core, TypeOK
    <2>9. req' \in [Requests -> Request] /\ scroll' \in [Users -> Scroll]
        BY <1>1, <2>1, <2>6, <2>7, IdleTyped DEF Core, TypeOK
    <2>10. \A w \in Users : scroll'[w].state # "over" => scroll'[w].scope \in Scopes
        <3>1. scroll[v].state = "asking"
            BY <1>3, <2>7 DEF Core, Formed
        <3> QED
            BY <2>5, <2>6, <2>7, <2>8, <3>1 DEF Core
    <2>11. \A q \in Requests : Formed(req[q])'
        <3> SUFFICES ASSUME NEW q \in Requests PROVE Formed(req[q])'
            OBVIOUS
        <3>1. CASE q = r
            BY <2>8, <3>1 DEF Formed, Idle, AboutMessage
        <3>2. CASE q # r
            <4>1. req'[q] = req[q] /\ (req[q].scrolls => req[q].user # v /\ req[q].user \in Users)
                BY <1>3, <2>7, <2>8, <3>2 DEF Core, Formed
            <4> QED
                BY <2>8, <4>1, Seen DEF Core, Formed
        <3> QED
            BY <3>1, <3>2
    <2>12. \A q, p \in Requests :
            req'[q].scrolls /\ req'[p].scrolls /\ req'[q].user = req'[p].user => q = p
        BY <2>8 DEF Core, Idle
    <2> QED
        BY <2>9, <2>10, <2>11, <2>12 DEF Going
<1> QED
    BY <1>2, <1>3

LEMMA ReadOnGoes ==
    ASSUME Core, Grown, TableTyped', NEW r \in Requests, ReadOn(r)
    PROVE  Going'
<1>q. req[r] \in Request /\ Formed(req[r])
    BY DEF Core, TypeOK
<1>1. CASE FilterHidden(r)
    <2> DEFINE y == [req[r] EXCEPT !.pc = "assemble", !.rows = @ \ HiddenBy(req[r].user),
                                   !.active = @ \ HiddenBy(req[r].user)]
    <2>1. req' = [req EXCEPT ![r] = y] /\ req[r].pc = "filter" /\ UNCHANGED scroll
        BY <1>1 DEF FilterHidden, Core, TypeOK
    <2>2. /\ y \in Request /\ y.pc = "assemble" /\ y.user = req[r].user /\ y.msg = req[r].msg
          /\ y.scrolls = req[r].scrolls
        BY <1>q DEF Request, Steps
    <2> HIDE DEF y
    <2>4. PICK x \in Request : x = y
        BY <2>2
    <2> QED
        BY <2>1, <2>2, <2>4, Proceeds DEF AboutMessage
<1>2. CASE Assembles(r) /\ AssembleRows(r)
    <2> DEFINE loaded == req[r].active \cap
                    (IF req[r].scrolls THEN Newest(req[r].rows, Limit) ELSE req[r].rows)
               Q == LoadAttachments(loaded) \cup LoadReactions(loaded)
               y == [req[r] EXCEPT !.pc = "answer", !.shown = Q]
    <2>1. req' = [req EXCEPT ![r] = y] /\ req[r].pc = "assemble" /\ UNCHANGED scroll
        BY <1>2 DEF AssembleRows, Assembles
    <2>2. Q \in SUBSET Ids
        BY <1>q DEF LoadAttachments, LoadReactions, Request
    <2> HIDE DEF Q
    <2>3. /\ y \in Request /\ y.pc = "answer" /\ y.user = req[r].user /\ y.msg = req[r].msg
          /\ y.scrolls = req[r].scrolls
        BY <1>q, <2>2 DEF Request, Steps
    <2> HIDE DEF y
    <2>4. PICK x \in Request : x = y
        BY <2>3
    <2> QED
        BY <2>1, <2>3, <2>4, Proceeds DEF AboutMessage
<1>3. CASE Answer(r)
    BY <1>3, AnswerGoes
<1>4. CASE Sign(r)
    <2> DEFINE y == [req[r] EXCEPT !.pc = "answer", !.shown = {req[r].msg}]
    <2>1. req' = [req EXCEPT ![r] = y] /\ req[r].pc = "sign" /\ UNCHANGED scroll
        BY <1>4 DEF Sign
    <2>2. req[r].msg \in Ids
        BY <1>q, <2>1, KnownIds DEF Formed, AboutMessage
    <2>3. /\ y \in Request /\ y.pc = "answer" /\ y.user = req[r].user /\ y.msg = req[r].msg
          /\ y.scrolls = req[r].scrolls
        BY <1>q, <2>2 DEF Request, Steps
    <2> HIDE DEF y
    <2>4. PICK x \in Request : x = y
        BY <2>3
    <2> QED
        BY <2>1, <2>3, <2>4, Proceeds DEF AboutMessage
<1> QED
    BY <1>1, <1>2, <1>3, <1>4 DEF ReadOn

LEMMA ChangeGoes ==
    ASSUME Core, Grown, TableTyped', NEW r \in Requests, MarkOn(r) \/ ChangeOn(r)
    PROVE  Going'
<1>q. req[r] \in Request /\ Formed(req[r])
    BY DEF Core, TypeOK
<1>1. UNCHANGED scroll /\ req[r].pc \in AboutMessage
    BY DEF MarkOn, ChangeOn, UpdateCursor, InsertCursor, RetryCursor, WriteRow, WriteUnseen, TellChange,
        Redact, SweepReactions, AboutMessage
<1>2. \/ req' = [req EXCEPT ![r] = Idle]
      \/ \E step \in {"insert", "retry", "sweep"} : req' = [req EXCEPT ![r].pc = step]
      \/ req' = [req EXCEPT ![r] = [req[r] EXCEPT !.pc = "tell"]]
    <2>1. CASE MarkOn(r)
        BY <2>1 DEF MarkOn, UpdateCursor, InsertCursor, RetryCursor
    <2>2. CASE ChangeOn(r)
        BY <2>2 DEF ChangeOn, WriteRow, WriteUnseen, TellChange, Redact, SweepReactions
    <2> QED
        BY <2>1, <2>2
<1>3. CASE req' = [req EXCEPT ![r] = Idle]
    BY <1>1, <1>3, IdleTyped, Proceeds DEF AboutMessage
<1>4. ASSUME NEW step \in {"insert", "retry", "sweep", "tell"},
             req' = [req EXCEPT ![r] = [req[r] EXCEPT !.pc = step]]
      PROVE  Going'
    <2>1. PICK x : x = [req[r] EXCEPT !.pc = step]
        OBVIOUS
    <2>2. /\ x \in Request /\ x.user = req[r].user /\ x.msg = req[r].msg
          /\ x.scrolls = req[r].scrolls
        BY <1>q, <2>1 DEF Request, Steps
    <2>3. ~req[r].scrolls /\ req[r].pc # "idle"
        BY <1>q, <1>1 DEF Formed, AboutMessage
    <2>4. req' = [req EXCEPT ![r] = x]
        BY <1>4, <2>1
    <2> QED
        BY <1>1, <2>2, <2>3, <2>4, Proceeds
<1> QED
    BY <1>2, <1>3, <1>4

\* A handler stops: nobody waits for it any more.
LEMMA StopGoes ==
    ASSUME Core, Grown, TableTyped', NEW r \in Requests, Stop(r)
    PROVE  Going'
<1>1. req' = [req EXCEPT ![r] = Idle] /\ req[r].pc # "idle" /\ req[r].user \in Users
    BY DEF Stop, Core, Formed
<1>2. CASE ~req[r].scrolls
    <2>1. UNCHANGED scroll
        BY <1>2 DEF Stop
    <2> QED
        BY <1>1, <2>1, IdleTyped, Proceeds
<1>3. CASE req[r].scrolls
    <2>1. PICK v \in Users : v = req[r].user
        BY <1>1
    <2>2. PICK z \in Scroll : z = [scroll[v] EXCEPT !.state = "open"]
        BY DEF Core, TypeOK, Scroll
    <2>3. scroll' = [scroll EXCEPT ![v] = z] /\ z.scope = scroll[v].scope
        BY <1>3, <2>1, <2>2 DEF Stop, Core, TypeOK, Scroll
    <2>4. /\ \A q \in Requests : req'[q] = IF q = r THEN Idle ELSE req[q]
          /\ \A w \in Users : scroll'[w] = IF w = v THEN z ELSE scroll[w]
        BY <1>1, <2>3 DEF Core, TypeOK
    <2>5. req' \in [Requests -> Request] /\ scroll' \in [Users -> Scroll]
        BY <1>1, <2>3, IdleTyped DEF Core, TypeOK
    <2>6. \A w \in Users : scroll'[w].state # "over" => scroll'[w].scope \in Scopes
        <3>1. scroll[v].state = "asking"
            BY <1>3, <2>1 DEF Core, Formed
        <3> QED
            BY <2>3, <2>4, <3>1 DEF Core
    <2>7. \A q \in Requests : Formed(req[q])'
        <3> SUFFICES ASSUME NEW q \in Requests PROVE Formed(req[q])'
            OBVIOUS
        <3>1. CASE q = r
            BY <2>4, <3>1 DEF Formed, Idle, AboutMessage
        <3>2. CASE q # r
            <4>1. req'[q] = req[q] /\ (req[q].scrolls => req[q].user # v /\ req[q].user \in Users)
                BY <1>3, <2>1, <2>4, <3>2 DEF Core, Formed
            <4> QED
                BY <2>4, <4>1, Seen DEF Core, Formed
        <3> QED
            BY <3>1, <3>2
    <2>8. \A q, p \in Requests :
            req'[q].scrolls /\ req'[p].scrolls /\ req'[q].user = req'[p].user => q = p
        BY <2>4 DEF Core, Idle
    <2> QED
        BY <2>5, <2>6, <2>7, <2>8 DEF Going
<1> QED
    BY <1>2, <1>3

\* One announcement more or less.
LEMMA OneMoreOrLess ==
    ASSUME NEW f \in [Ids \X Users -> Int], NEW x \in Ids \X Users, NEW g,
           \/ g = f \/ g = [f EXCEPT ![x] = @ + 1] \/ g = [f EXCEPT ![x] = @ - 1]
    PROVE  g \in [Ids \X Users -> Int]
<1>1. f[x] + 1 \in Int /\ f[x] - 1 \in Int
    OBVIOUS
<1> QED
    BY <1>1

LEMMA ContinueTyped ==
    ASSUME Core, NEW r \in Requests, ReadOn(r) \/ MarkOn(r) \/ ChangeOn(r) \/ Stop(r)
    PROVE  Rest'
<1>q. Formed(req[r])
    BY DEF Core
<1>1. CASE ReadOn(r)
    <2>1. UNCHANGED <<files, hidden, reactions, told, untold, read, marked>>
        BY <1>1 DEF ReadOn, FilterHidden, AssembleRows, Answer, Sign, tables, emojis, announced, cursors
    <2> QED
        BY <2>1, CoreParts DEF Rest
<1>2. CASE MarkOn(r)
    <2> DEFINE x == Cursor(r)
    <2>1. UNCHANGED <<files, hidden, reactions, told, untold>>
        BY <1>2 DEF MarkOn, UpdateCursor, InsertCursor, RetryCursor, tables, emojis, announced
    <2>2. req[r].msg \in Known /\ req[r].user \in Users
        BY <1>q, <1>2 DEF MarkOn, UpdateCursor, InsertCursor, RetryCursor, Formed, AboutMessage
    <2>3. x \in Users \X Scopes /\ req[r].msg \in Ids
        BY <2>2, RowTyped DEF Core, TypeOK, TableTyped, Message, Cursor
    <2>4. \/ UNCHANGED <<read, marked>>
          \/ /\ Marks(x, req[r].msg)
             /\ Raise(x, req[r].msg) \/ read' = [read EXCEPT ![x] = req[r].msg]
        BY <1>2 DEF MarkOn, UpdateCursor, InsertCursor, RetryCursor, cursors
    <2>5. /\ read' \in [Users \X Scopes -> 0..MaxMessages]
          /\ marked' \in [Users \X Scopes -> 0..MaxMessages]
        <3> HIDE DEF x
        <3>1. CASE UNCHANGED <<read, marked>>
            BY <3>1 DEF Core, TypeOK
        <3>2. CASE ~UNCHANGED <<read, marked>>
            BY <2>3, <2>4, <3>2, MarkTyped DEF Core
        <3> QED
            BY <3>1, <3>2
    <2> QED
        BY <2>1, <2>5, CoreParts DEF Rest
<1>3. CASE ChangeOn(r)
    <2>1. UNCHANGED <<hidden, read, marked>> /\ files' = files
        BY <1>3 DEF ChangeOn, WriteRow, WriteUnseen, TellChange, Redact, SweepReactions, tables, cursors
    <2>2. req[r].msg \in Ids /\ req[r].user \in Users
        BY <1>q, <1>3, KnownIds DEF ChangeOn, WriteRow, WriteUnseen, TellChange, Redact, SweepReactions,
            Formed, AboutMessage
    <2>3. reactions' \in SUBSET (Ids \X Users)
        BY <1>3, <2>2 DEF ChangeOn, Written, WriteRow, WriteUnseen, TellChange, Redact, SweepReactions, emojis, announced,
            Core, TypeOK
    <2>4. told' \in [Ids \X Users -> Int] /\ untold' \in [Ids \X Users -> Int]
        <3> DEFINE x == <<req[r].msg, req[r].user>>
        <3>1. /\ x \in Ids \X Users
              /\ told \in [Ids \X Users -> Int] /\ untold \in [Ids \X Users -> Int]
            BY <2>2 DEF Core, TypeOK
        <3>2. told' = told \/ told' = [told EXCEPT ![x] = @ + 1] \/ told' = [told EXCEPT ![x] = @ - 1]
            BY <1>3 DEF ChangeOn, WriteRow, WriteUnseen, TellChange, Redact, SweepReactions,
                emojis, announced
        <3>3. \/ untold' = untold
              \/ untold' = [untold EXCEPT ![x] = @ + 1]
              \/ untold' = [untold EXCEPT ![x] = @ - 1]
            BY <1>3 DEF ChangeOn, WriteRow, WriteUnseen, Lose, TellChange, Redact,
                SweepReactions, emojis, announced
        <3> HIDE DEF x
        <3> QED
            BY <3>1, <3>2, <3>3, OneMoreOrLess
    <2> QED
        BY <2>1, <2>3, <2>4, CoreParts DEF Rest
<1>4. CASE Stop(r)
    <2>1. UNCHANGED <<files, hidden, reactions, told, read, marked>>
        BY <1>4 DEF Stop, tables, cursors
    <2>2. untold' \in [Ids \X Users -> Int]
        <3> DEFINE x == <<req[r].msg, req[r].user>>
        <3>1. CASE req[r].pc = "tell"
            <4>1. x \in Ids \X Users /\ untold \in [Ids \X Users -> Int]
                BY <1>q, <3>1, KnownIds DEF Formed, AboutMessage, Core, TypeOK
            <4>2. untold' = [untold EXCEPT ![x] = @ + 1] \/ untold' = [untold EXCEPT ![x] = @ - 1]
                BY <1>4, <3>1 DEF Stop, Lose
            <4> HIDE DEF x
            <4> QED
                BY <4>1, <4>2, OneMoreOrLess
        <3>2. CASE req[r].pc # "tell"
            BY <1>4, <3>2 DEF Stop, Core, TypeOK
        <3> QED
            BY <3>1, <3>2
    <2> QED
        BY <2>1, <2>2, CoreParts DEF Rest
<1> QED
    BY <1>1, <1>2, <1>3, <1>4

LEMMA InitCore == Init => Core
<1> SUFFICES ASSUME Init PROVE Core
    OBVIOUS
<1>1. TableTyped
    BY EmptySeq, HistoryAssumption DEF Init, TableTyped
<1>2. Going
    BY IdleTyped DEF Init, Going, Formed, Idle, NoScroll, AboutMessage
<1>3. Rest
    BY HistoryAssumption DEF Init, Rest
<1> QED
    BY <1>1, <1>2, <1>3, CoreParts

LEMMA StepCore == Core /\ [Next]_vars => Core' /\ Grown
<1> SUFFICES ASSUME Core, [Next]_vars PROVE Core' /\ Grown
    OBVIOUS
<1>1. TableTyped' /\ Grown
    BY TableGrows
<1>2. Going' /\ Rest'
    <2>1. CASE UNCHANGED vars
        BY <1>1, <2>1, NobodyGoes, CoreParts DEF vars, Rest
    <2>2. ASSUME NEW r \in Requests, ReadOn(r) \/ MarkOn(r) \/ ChangeOn(r) \/ Stop(r)
          PROVE  Going' /\ Rest'
        BY <1>1, <2>2, ReadOnGoes, ChangeGoes, StopGoes, ContinueTyped
    <2> QED
        BY <1>1, <2>1, <2>2, NextCases, WriterGoes, UserGoes, BeginGoes
<1>3. Core'
    <2>1. Core' <=> TableTyped' /\ Going' /\ Rest'
        BY DEF Core, TypeOK, TableTyped, Going, Rest
    <2> QED
        BY <1>1, <1>2, <2>1
<1> QED
    BY <1>1, <1>3

LEMMA AlwaysCore == Spec => []Core
BY InitCore, StepCore, PTL DEF Spec

\* The variables keep their types.
THEOREM TypeCorrect == Spec => []TypeOK
<1>1. Core => TypeOK
    BY DEF Core
<1> QED
    BY <1>1, AlwaysCore, PTL

-----------------------------------------------------------------------------
(* Read cursors *)

LEMMA StepMarked == Core /\ CursorIsNewestMark /\ [Next]_vars => CursorIsNewestMark'
<1> SUFFICES ASSUME Core, read = marked, [Next]_vars PROVE read' = marked'
    BY DEF CursorIsNewestMark
<1>1. CASE UNCHANGED vars
    BY <1>1 DEF vars
<1>2. CASE WriterStep
    BY <1>2 DEF WriterStep, Draw, Commit, Undo, Recall, cursors
<1>3. ASSUME NEW u \in Users, UserStep(u) PROVE read' = marked'
    BY <1>3 DEF UserStep, OpenScroll, Hide, MarkAsRead, Marks, cursors
<1>4. ASSUME NEW r \in Requests, NEW u \in Users, BeginStep(r, u) PROVE read' = marked'
    <2>1. ASSUME NEW m \in Known, MarkChannelAsRead(r, u, m) PROVE read' = marked'
        <3> DEFINE x == <<u, msgs[m].scope>>
        <3>1. x \in Users \X Scopes /\ m \in Nat
            BY <2>1, KnownIds, HistoryAssumption DEF MarkChannelAsRead, Scopes, Ids
        <3>2. UNCHANGED read /\ (UNCHANGED marked \/ (read[x] >= m /\ Marks(x, m)))
            BY <2>1 DEF MarkChannelAsRead
        <3>3. marked[x] \in Nat
            BY <3>1 DEF Core, TypeOK
        <3> HIDE DEF x
        <3>4. CASE read[x] >= m /\ Marks(x, m)
            <4>1. (IF m > marked[x] THEN m ELSE marked[x]) = marked[x]
                BY <3>1, <3>3, <3>4
            <4>2. marked' = [marked EXCEPT ![x] = marked[x]]
                BY <3>4, <4>1 DEF Marks
            <4>3. marked \in [Users \X Scopes -> 0..MaxMessages]
                BY DEF Core, TypeOK
            <4> QED
                BY <3>1, <3>2, <4>2, <4>3
        <3> QED
            BY <3>2, <3>4
    <2> QED
        BY <1>4, <2>1 DEF BeginStep, GetPage, GetRows, Search, GetPinned, GetUrl,
            RecallUnaided, SetPin, React, cursors
<1>5. ASSUME NEW r \in Requests, ReadOn(r) \/ ChangeOn(r) \/ Stop(r) PROVE read' = marked'
    BY <1>5 DEF ReadOn, FilterHidden, AssembleRows, Answer, Sign, ChangeOn, WriteRow, WriteUnseen, TellChange,
        Redact, SweepReactions, Stop, cursors
<1>6. ASSUME NEW r \in Requests, MarkOn(r) PROVE read' = marked'
    <2> DEFINE x == Cursor(r)
               m == req[r].msg
    <2>1. m \in Known /\ req[r].user \in Users
        BY <1>6 DEF MarkOn, UpdateCursor, InsertCursor, RetryCursor, Core, Formed, AboutMessage
    <2>2. x \in Users \X Scopes /\ m \in Nat /\ m > 0
        BY <2>1, RowTyped, HistoryAssumption DEF Core, TypeOK, TableTyped, Message, Cursor, Ids
    <2>3. marked[x] \in Nat
        BY <2>2 DEF Core, TypeOK
    <2>4. \/ UNCHANGED <<read, marked>>
          \/ Marks(x, m) /\ Raise(x, m)
          \/ Marks(x, m) /\ read' = [read EXCEPT ![x] = m] /\ read[x] < m
        BY <1>6, <2>2 DEF MarkOn, UpdateCursor, InsertCursor, RetryCursor, cursors
    <2> HIDE DEF x, m
    <2> QED
        BY <2>2, <2>3, <2>4 DEF Marks, Raise
<1> QED
    BY <1>1, <1>2, <1>3, <1>4, <1>5, <1>6, NextCases

\* CursorIsNewestMark: the cursor of a user in a scope is the newest of the marks
\* that were answered with success, whatever the order of their writes.
THEOREM CursorsAreNewest == Spec => []CursorIsNewestMark
<1>1. Init => CursorIsNewestMark
    BY DEF Init, CursorIsNewestMark
<1> QED
    BY <1>1, AlwaysCore, StepMarked, PTL DEF Spec

-----------------------------------------------------------------------------
(* What is shown of messages *)

\* What was recalled before a request began is neither in its answer nor among
\* the messages whose files and reactions it has still to load.
Withheld(q) ==
    /\ q.shown \cap q.gone = {}
    /\ q.active \cap q.gone = {}
    /\ q.pc = "sign" => q.msg \notin q.gone
AllWithheld == \A r \in Requests : Withheld(req[r])

LEMMA OneWithheld ==
    ASSUME Core, AllWithheld, NEW r \in Requests, NEW x,
           req' = [req EXCEPT ![r] = x], Withheld(x)
    PROVE  AllWithheld'
BY DEF AllWithheld, Withheld, Core, TypeOK

\* Before anything is read.
Blank(z, u, step) == Begun(z, u, step) /\ z.active = {} /\ z.gone = Recalled /\ z.shown = {}

LEMMA BeginIsBlank ==
    ASSUME Core, NEW r, NEW u \in Users, NEW step \in Steps
    PROVE  \E z : z = Begin(r, u, step) /\ Blank(z, u, step)
<1>1. Begun(Begin(r, u, step), u, step)
    BY BeginTyped DEF Begun
<1>2. /\ Begin(r, u, step).active = {} /\ Begin(r, u, step).gone = Recalled
      /\ Begin(r, u, step).shown = {}
    BY DEF Begin, Idle
<1> QED
    BY <1>1, <1>2 DEF Blank

LEMMA BeginWithheld ==
    ASSUME Core, AllWithheld, NEW r \in Requests, NEW u \in Users, BeginStep(r, u)
    PROVE  AllWithheld'
<1>p. "assemble" \in Steps /\ {"sign", "redact"} \subseteq Steps /\ {"update", "react"} \subseteq Steps
    BY DEF Steps
<1>f. "filter" \in Steps
    BY DEF Steps
<1>u. CASE UNCHANGED req
    BY <1>u DEF AllWithheld, Withheld
<1>1. ASSUME NEW step \in Steps, NEW R, Ask(r, u, step, R), step # "sign" PROVE AllWithheld'
    <2>1. PICK z : z = Begin(r, u, step) /\ Blank(z, u, step)
        BY <1>p, BeginIsBlank
    <2>2. PICK y : y = [z EXCEPT !.scrolls = TRUE, !.rows = R, !.active = NotDeleted(R)]
        OBVIOUS
    <2>3. req' = [req EXCEPT ![r] = y]
        BY <1>1, <2>1, <2>2 DEF Ask
    <2>4. Withheld(y)
        BY <1>1, <2>1, <2>2 DEF Withheld, NotDeleted, Blank, Begun, Request
    <2> QED
        BY <2>3, <2>4, OneWithheld
<1>2. ASSUME NEW P, P \cap Recalled = {},
             req' = [req EXCEPT ![r] = [Begin(r, u, "assemble") EXCEPT !.rows = P, !.active = P]]
      PROVE  AllWithheld'
    <2>1. PICK z : z = Begin(r, u, "assemble") /\ Blank(z, u, "assemble")
        BY <1>p, BeginIsBlank
    <2>2. PICK y : y = [z EXCEPT !.rows = P, !.active = P]
        OBVIOUS
    <2>3. req' = [req EXCEPT ![r] = y]
        BY <1>2, <2>1, <2>2
    <2>4. Withheld(y)
        BY <1>2, <2>1, <2>2 DEF Withheld, Blank, Begun, Request
    <2> QED
        BY <2>3, <2>4, OneWithheld
<1>3. ASSUME NEW s, GetPinned(r, u, s) PROVE AllWithheld'
    <2>1. PICK P : P = {m \in NotDeleted(Committed(s)) : msgs[m].pinned} \ HiddenBy(u)
        OBVIOUS
    <2>2. P \cap Recalled = {}
        BY <2>1 DEF NotDeleted
    <2>3. req' = [req EXCEPT ![r] = [Begin(r, u, "assemble") EXCEPT !.rows = P, !.active = P]]
        BY <1>3, <2>1 DEF GetPinned
    <2> QED
        BY <1>2, <2>2, <2>3
<1>4. ASSUME NEW m \in Known, NEW b, SetPin(r, u, m, b) PROVE AllWithheld'
    <2>1. {m} \cap Recalled = {}
        BY <1>4 DEF SetPin, Live, Recalled
    <2> QED
        BY <1>2, <1>4, <2>1 DEF SetPin
<1>5. ASSUME NEW m \in Known, NEW step \in {"sign", "redact"}, m \notin Recalled,
             req' = [req EXCEPT ![r] = [Begin(r, u, step) EXCEPT !.msg = m]]
      PROVE  AllWithheld'
    <2>1. PICK z : z = Begin(r, u, step) /\ Blank(z, u, step)
        BY <1>p, BeginIsBlank
    <2>2. PICK y : y = [z EXCEPT !.msg = m]
        OBVIOUS
    <2>3. req' = [req EXCEPT ![r] = y]
        BY <1>5, <2>1, <2>2
    <2>4. Withheld(y)
        BY <1>5, <2>1, <2>2 DEF Withheld, Blank, Begun, Request
    <2> QED
        BY <2>3, <2>4, OneWithheld
<1>6. ASSUME NEW m \in Known, GetUrl(r, u, m) \/ RecallUnaided(r, u, m) PROVE AllWithheld'
    BY <1>5, <1>6 DEF GetUrl, RecallUnaided, NotDeleted, Live, Recalled
<1>7. ASSUME NEW m \in Known, NEW b, NEW step \in {"update", "react"},
             \/ req' = [req EXCEPT ![r] = [Begin(r, u, step) EXCEPT !.msg = m, !.gone = {}]]
             \/ req' = [req EXCEPT ![r] = [Begin(r, u, step) EXCEPT !.msg = m, !.on = b,
                                                                    !.gone = {}]]
      PROVE  AllWithheld'
    <2>1. PICK z : z = Begin(r, u, step) /\ Blank(z, u, step)
        BY <1>p, BeginIsBlank
    <2>2. PICK y : /\ \/ y = [z EXCEPT !.msg = m, !.gone = {}]
                      \/ y = [z EXCEPT !.msg = m, !.on = b, !.gone = {}]
                   /\ req' = [req EXCEPT ![r] = y]
        BY <1>7, <2>1
    <2>4. Withheld(y)
        BY <1>7, <2>1, <2>2 DEF Withheld, Blank, Begun, Request
    <2> QED
        BY <2>2, <2>4, OneWithheld
<1>8. ASSUME NEW m \in Known, MarkChannelAsRead(r, u, m) PROVE AllWithheld'
    BY <1>u, <1>7, <1>8 DEF MarkChannelAsRead
<1>9. ASSUME NEW m \in Known, NEW b \in BOOLEAN, React(r, u, m, b) PROVE AllWithheld'
    BY <1>7, <1>9 DEF React
<1>10. ASSUME NEW S, GetPage(r, u, S) \/ GetRows(r, u, S) PROVE AllWithheld'
    BY <1>1, <1>10, <1>p, <1>f DEF GetPage, GetRows
<1>11. CASE Search(r, u)
    BY <1>1, <1>11, <1>p DEF Search
<1> QED
    BY <1>3, <1>4, <1>6, <1>8, <1>9, <1>10, <1>11 DEF BeginStep

LEMMA ReadOnWithheld ==
    ASSUME Core, AllWithheld, NEW r \in Requests, ReadOn(r)
    PROVE  AllWithheld'
<1>q. req[r] \in Request /\ Withheld(req[r])
    BY DEF Core, TypeOK, AllWithheld
<1>1. CASE FilterHidden(r)
    <2>1. PICK y : /\ y = [req[r] EXCEPT !.pc = "assemble", !.rows = @ \ HiddenBy(req[r].user),
                                         !.active = @ \ HiddenBy(req[r].user)]
                   /\ req' = [req EXCEPT ![r] = y]
        BY <1>1 DEF FilterHidden, Core, TypeOK
    <2>2. Withheld(y)
        BY <1>q, <2>1 DEF Withheld, Request
    <2> QED
        BY <2>1, <2>2, OneWithheld
<1>2. CASE AssembleRows(r)
    <2>1. PICK loaded : loaded = req[r].active \cap
                    (IF req[r].scrolls THEN Newest(req[r].rows, Limit) ELSE req[r].rows)
        OBVIOUS
    <2>2. PICK y : /\ y = [req[r] EXCEPT !.pc = "answer",
                              !.shown = LoadAttachments(loaded) \cup LoadReactions(loaded)]
                   /\ req' = [req EXCEPT ![r] = y]
        BY <1>2, <2>1 DEF AssembleRows
    <2>3. loaded \cap req[r].gone = {}
        BY <1>q, <2>1 DEF Withheld
    <2>4. Withheld(y)
        BY <1>q, <2>2, <2>3 DEF Withheld, Request, LoadAttachments, LoadReactions
    <2> QED
        BY <2>2, <2>4, OneWithheld
<1>3. CASE Answer(r)
    <2>1. req' = [req EXCEPT ![r] = Idle] /\ Withheld(Idle)
        BY <1>3 DEF Answer, Withheld, Idle
    <2>2. PICK y : y = Idle
        OBVIOUS
    <2> QED
        BY <2>1, <2>2, OneWithheld
<1>4. CASE Sign(r)
    <2>1. PICK y : /\ y = [req[r] EXCEPT !.pc = "answer", !.shown = {req[r].msg}]
                   /\ req' = [req EXCEPT ![r] = y]
        BY <1>4 DEF Sign
    <2>2. Withheld(y)
        BY <1>4, <1>q, <2>1 DEF Withheld, Request, Sign
    <2> QED
        BY <2>1, <2>2, OneWithheld
<1> QED
    BY <1>1, <1>2, <1>3, <1>4 DEF ReadOn

LEMMA StepWithheld == Core /\ AllWithheld /\ [Next]_vars => AllWithheld'
<1> SUFFICES ASSUME Core, AllWithheld, [Next]_vars PROVE AllWithheld'
    OBVIOUS
<1>1. CASE UNCHANGED req
    BY <1>1 DEF AllWithheld, Withheld
<1>2. ASSUME NEW r \in Requests, MarkOn(r) \/ ChangeOn(r) \/ Stop(r) PROVE AllWithheld'
    <2>1. \/ req' = [req EXCEPT ![r] = Idle]
          \/ \E step \in {"insert", "retry", "sweep", "tell"} : req' = [req EXCEPT ![r].pc = step]
        BY <1>2 DEF MarkOn, ChangeOn, UpdateCursor, InsertCursor, RetryCursor, WriteRow, WriteUnseen, TellChange,
            Redact, SweepReactions, Stop
    <2>2. req[r] \in Request /\ Withheld(req[r])
        BY DEF Core, TypeOK, AllWithheld
    <2>3. PICK y : /\ req' = [req EXCEPT ![r] = y]
                   /\ \/ y = Idle
                      \/ \E step \in {"insert", "retry", "sweep", "tell"} :
                            y = [req[r] EXCEPT !.pc = step]
        BY <2>1
    <2>4. Withheld(y)
        BY <2>2, <2>3 DEF Withheld, Idle, Request
    <2> QED
        BY <2>3, <2>4, OneWithheld
<1>3. CASE WriterStep
    BY <1>1, <1>3 DEF WriterStep, Draw, Commit, Undo, Recall
<1>4. ASSUME NEW u \in Users, UserStep(u) PROVE AllWithheld'
    BY <1>1, <1>4 DEF UserStep, OpenScroll, Hide, MarkAsRead
<1>5. CASE UNCHANGED vars
    BY <1>1, <1>5 DEF vars
<1> QED
    BY <1>2, <1>3, <1>4, <1>5, BeginWithheld, ReadOnWithheld, NextCases

\* RecalledIsNotShown: neither files nor reactions of a message recalled before a
\* request began are in its answer, whatever else is written meanwhile.
THEOREM RecalledStaysHidden == Spec => []RecalledIsNotShown
<1>1. Init => AllWithheld
    BY DEF Init, AllWithheld, Withheld, Idle
<1>2. AllWithheld => RecalledIsNotShown
    BY DEF AllWithheld, Withheld, RecalledIsNotShown
<1> QED
    BY <1>1, <1>2, AlwaysCore, StepWithheld, PTL DEF Spec

-----------------------------------------------------------------------------
(* What is told of reactions *)

\* The requests that have changed the row of a message and a user and have still
\* to tell it: of a reaction set, or of one removed.
Telling(m, u, on) ==
    {r \in Requests : req[r].pc = "tell" /\ req[r].msg = m /\ req[r].user = u /\ req[r].on = on}

Stored(m, u) == IF <<m, u>> \in reactions THEN 1 ELSE 0

\* What was told or lost, and what is still to be told, make up the table.
Sent(m, u) == told[<<m, u>>] + untold[<<m, u>>]
Balanced(m, u) ==
    /\ IsFiniteSet(Telling(m, u, TRUE)) /\ IsFiniteSet(Telling(m, u, FALSE))
    /\ Sent(m, u) + Cardinality(Telling(m, u, TRUE)) - Cardinality(Telling(m, u, FALSE))
        = Stored(m, u)

Counted ==
    /\ \A m \in Ids, u \in Users : m \notin Recalled => Balanced(m, u)
    /\ \A r \in Requests : req[r].pc = "sweep" => req[r].msg \in Recalled

\* A step that touches no request that tells, no row of reactions that counts.
LEMMA CountedStays ==
    ASSUME Core, Counted, Recalled \subseteq Recalled',
           UNCHANGED announced,
           \A x \in reactions \cup reactions' :
                x[1] \in Recalled' \/ (x \in reactions <=> x \in reactions'),
           \A r \in Requests : req[r].pc = "tell" \/ req'[r].pc = "tell" => req'[r] = req[r],
           \A r \in Requests : req'[r].pc = "sweep" => req'[r].msg \in Recalled'
    PROVE  Counted'
<1> SUFFICES ASSUME NEW m \in Ids, NEW u \in Users, m \notin Recalled' PROVE Balanced(m, u)'
    BY DEF Counted
<1>1. Balanced(m, u)
    BY DEF Counted
<1>2. Telling(m, u, TRUE)' = Telling(m, u, TRUE) /\ Telling(m, u, FALSE)' = Telling(m, u, FALSE)
    BY DEF Telling
<1>3. Stored(m, u)' = Stored(m, u)
    <2> DEFINE x == <<m, u>>
    <2>1. x[1] = m
        OBVIOUS
    <2>2. x \in reactions <=> x \in reactions'
        BY <2>1
    <2> QED
        BY <2>2 DEF Stored
<1> QED
    BY <1>1, <1>2, <1>3 DEF Balanced, Sent, announced

LEMMA RecallLasts == ASSUME Core, Grown, TableTyped' PROVE Recalled \subseteq Recalled'
BY Seen DEF Recalled

\* One request changes, and neither told nor tells.
LEMMA OneQuiet ==
    ASSUME Core, Counted, Grown, TableTyped', UNCHANGED emojis, NEW r \in Requests,
           \A q \in Requests : q # r => req'[q] = req[q],
           req[r].pc # "tell", req'[r].pc # "tell",
           req'[r].pc = "sweep" => req'[r].msg \in Recalled'
    PROVE  Counted'
BY CountedStays, RecallLasts DEF emojis, announced, Counted

LEMMA BeginStepMakes ==
    ASSUME Core, NEW r \in Requests, NEW u \in Users, BeginStep(r, u), ~UNCHANGED req
    PROVE  /\ req'[r].pc \in {"assemble", "filter", "sign", "redact", "update", "react"}
           /\ \A q \in Requests : q # r => req'[q] = req[q]
<1> DEFINE Made(step) == req'[r].pc = step /\ \A q \in Requests : q # r => req'[q] = req[q]
<1>1. ASSUME NEW S, GetPage(r, u, S) PROVE Made("assemble")
    BY <1>1 DEF Core, TypeOK, GetPage, Ask, Begin, Idle
<1>2. ASSUME NEW S, GetRows(r, u, S) PROVE Made("filter")
    BY <1>2 DEF Core, TypeOK, GetRows, Ask, Begin, Idle
<1>3. CASE Search(r, u)
    <2>1. Made("assemble")
        BY <1>3 DEF Core, TypeOK, Search, Ask, Begin, Idle
    <2> QED
        BY <2>1
<1>4. ASSUME NEW s, GetPinned(r, u, s) PROVE Made("assemble")
    BY <1>4 DEF Core, TypeOK, GetPinned, Begin, Idle
<1>5. ASSUME NEW m, GetUrl(r, u, m) PROVE Made("sign")
    BY <1>5 DEF Core, TypeOK, GetUrl, Begin, Idle
<1>6. ASSUME NEW m, RecallUnaided(r, u, m) PROVE Made("redact")
    BY <1>6 DEF Core, TypeOK, RecallUnaided, Begin, Idle
<1>7. ASSUME NEW m, MarkChannelAsRead(r, u, m) PROVE Made("update") 
    BY <1>7 DEF Core, TypeOK, MarkChannelAsRead, Begin, Idle
<1>8. ASSUME NEW m, NEW b, SetPin(r, u, m, b) PROVE Made("assemble")
    BY <1>8 DEF Core, TypeOK, SetPin, Begin, Idle
<1>9. ASSUME NEW m, NEW b, React(r, u, m, b) PROVE Made("react")
    BY <1>9 DEF Core, TypeOK, React, Begin, Idle
<1> QED
    BY <1>1, <1>2, <1>3, <1>4, <1>5, <1>6, <1>7, <1>8, <1>9 DEF BeginStep

LEMMA BeginCounted ==
    ASSUME Core, Counted, Grown, TableTyped', NEW r \in Requests, NEW u \in Users, BeginStep(r, u)
    PROVE  Counted'
<1>1. UNCHANGED emojis
    BY DEF BeginStep, GetPage, GetRows, Search, GetPinned, GetUrl, RecallUnaided,
        MarkChannelAsRead, SetPin, React
<1>2. CASE UNCHANGED req
    BY <1>1, <1>2, CountedStays, RecallLasts DEF emojis, announced, Counted
<1>3. CASE ~UNCHANGED req
    <2>1. req[r].pc = "idle"
        BY <1>3 DEF BeginStep, GetPage, GetRows, Search, Ask, GetPinned, GetUrl, RecallUnaided,
            MarkChannelAsRead, SetPin, React
    <2>2. /\ req'[r].pc \in {"assemble", "filter", "sign", "redact", "update", "react"}
          /\ \A q \in Requests : q # r => req'[q] = req[q]
        BY <1>3, BeginStepMakes
    <2> QED
        BY <1>1, <2>1, <2>2, OneQuiet
<1> QED
    BY <1>2, <1>3

\* A request begins to tell, or has told.
LEMMA TellingGrows ==
    ASSUME NEW r \in Requests, req[r].pc # "tell", req'[r].pc = "tell",
           \A q \in Requests : q # r => req'[q] = req[q], NEW m, NEW u, NEW on
    PROVE  /\ r \notin Telling(m, u, on)
           /\ Telling(m, u, on)' = IF req'[r].msg = m /\ req'[r].user = u /\ req'[r].on = on
                                   THEN Telling(m, u, on) \cup {r} ELSE Telling(m, u, on)
BY DEF Telling

LEMMA TellingShrinks ==
    ASSUME Core, NEW r \in Requests, req[r].pc = "tell", req' = [req EXCEPT ![r] = Idle],
           NEW m, NEW u, NEW on
    PROVE  IF req[r].msg = m /\ req[r].user = u /\ req[r].on = on
           THEN r \in Telling(m, u, on) /\ Telling(m, u, on)' = Telling(m, u, on) \ {r}
           ELSE Telling(m, u, on)' = Telling(m, u, on)
<1>1. \A q \in Requests : req'[q] = IF q = r THEN Idle ELSE req[q]
    BY DEF Core, TypeOK
<1> QED
    BY <1>1 DEF Telling, Idle

LEMMA WriteCounted ==
    ASSUME Core, Counted, Grown, TableTyped', NEW r \in Requests, WriteRow(r)
    PROVE  Counted'
<1> DEFINE n == req[r].msg
           v == req[r].user
           on == req[r].on
<1>q. /\ req[r] \in Request /\ req[r].pc = "react" /\ n \in Known /\ n \in Ids /\ v \in Users
      /\ on \in BOOLEAN
    BY KnownIds DEF WriteRow, Core, TypeOK, Formed, AboutMessage, Request
<1>1. CASE ~Changes(<<n, v>>, on)
    <2>1. reactions' = reactions /\ req' = [req EXCEPT ![r] = Idle] /\ UNCHANGED announced
        BY <1>1, <1>q DEF WriteRow, Written, Changes, announced
    <2>3. req'[r].pc = "idle" /\ \A q \in Requests : q # r => req'[q] = req[q]
        BY <2>1 DEF Idle, Core, TypeOK
    <2>4. UNCHANGED emojis
        BY <2>1 DEF emojis, announced
    <2> QED
        BY <1>q, <2>3, <2>4, OneQuiet
<1>2. CASE Changes(<<n, v>>, on)
    <2>1. PICK y : y = [req[r] EXCEPT !.pc = "tell"] /\ req' = [req EXCEPT ![r] = y]
        BY <1>2 DEF WriteRow, Core, TypeOK
    <2>2. y.pc = "tell" /\ y.msg = n /\ y.user = v /\ y.on = on
        BY <1>q, <2>1 DEF Request
    <2>3. /\ reactions' = IF on THEN reactions \cup {<<n, v>>} ELSE reactions \ {<<n, v>>}
          /\ UNCHANGED announced /\ msgs' = msgs /\ (on <=> <<n, v>> \notin reactions)
        BY <1>q, <1>2 DEF WriteRow, Written, Changes, tables
    <2>4. \A q \in Requests : req'[q] = IF q = r THEN y ELSE req[q]
        BY <2>1 DEF Core, TypeOK
    <2> HIDE DEF n, v, on
    <2>p. /\ req[r].pc # "tell" /\ req'[r] = y
          /\ \A q \in Requests : q # r => req'[q] = req[q]
        BY <1>q, <2>4
    <2>t. \A m, u, b : /\ r \notin Telling(m, u, b)
                       /\ Telling(m, u, b)' = IF n = m /\ v = u /\ on = b
                                              THEN Telling(m, u, b) \cup {r} ELSE Telling(m, u, b)
        BY <2>p, <2>2, TellingGrows
    <2>5. ASSUME NEW m \in Ids, NEW u \in Users, m \notin Recalled' PROVE Balanced(m, u)'
        <3>1. Balanced(m, u) /\ Sent(m, u) \in Int
            BY <2>3, <2>5 DEF Counted, Recalled, Known, Core, TypeOK, Sent
        <3>2. \A b : /\ r \notin Telling(m, u, b)
                     /\ Telling(m, u, b)' = IF n = m /\ v = u /\ on = b
                                            THEN Telling(m, u, b) \cup {r} ELSE Telling(m, u, b)
            BY <2>t
        <3>3. CASE m = n /\ u = v
            <4>1. PICK T, F : T = Telling(m, u, TRUE) /\ F = Telling(m, u, FALSE)
                OBVIOUS
            <4>2. /\ IsFiniteSet(T) /\ IsFiniteSet(F) /\ r \notin T /\ r \notin F
                  /\ Cardinality(T) \in Nat /\ Cardinality(F) \in Nat
                BY <3>1, <3>2, <4>1, FS_CardinalityType DEF Balanced
            <4>3. /\ IsFiniteSet(T \cup {r}) /\ Cardinality(T \cup {r}) = Cardinality(T) + 1
                  /\ IsFiniteSet(F \cup {r}) /\ Cardinality(F \cup {r}) = Cardinality(F) + 1
                BY <4>2, FS_AddElement
            <4>4. CASE on
                <5>1. Telling(m, u, TRUE)' = T \cup {r} /\ Telling(m, u, FALSE)' = F
                    BY <3>2, <3>3, <4>1, <4>4
                <5>2. Stored(m, u) = 0 /\ Stored(m, u)' = 1
                    BY <2>3, <3>3, <4>4 DEF Stored
                <5>3. Sent(m, u) + Cardinality(T) - Cardinality(F) = 0
                    BY <3>1, <4>1, <5>2 DEF Balanced
                <5>4. Sent(m, u) + Cardinality(T \cup {r}) - Cardinality(F) = 1
                    BY <3>1, <4>2, <4>3, <5>3
                <5>5. Sent(m, u)' = Sent(m, u)
                    BY <2>3 DEF Sent, announced
                <5>6. /\ IsFiniteSet(Telling(m, u, TRUE)') /\ IsFiniteSet(Telling(m, u, FALSE)')
                      /\ Sent(m, u)' + Cardinality(Telling(m, u, TRUE)')
                            - Cardinality(Telling(m, u, FALSE)') = Stored(m, u)'
                    BY <4>2, <4>3, <5>1, <5>2, <5>4, <5>5
                <5> QED
                    BY <5>6 DEF Balanced
            <4>5. CASE ~on
                <5>1. Telling(m, u, TRUE)' = T /\ Telling(m, u, FALSE)' = F \cup {r}
                    BY <1>q, <3>2, <3>3, <4>1, <4>5
                <5>2. Stored(m, u) = 1 /\ Stored(m, u)' = 0
                    BY <2>3, <3>3, <4>5 DEF Stored
                <5>3. Sent(m, u) + Cardinality(T) - Cardinality(F) = 1
                    BY <3>1, <4>1, <5>2 DEF Balanced
                <5>4. Sent(m, u) + Cardinality(T) - Cardinality(F \cup {r}) = 0
                    BY <3>1, <4>2, <4>3, <5>3
                <5>5. Sent(m, u)' = Sent(m, u)
                    BY <2>3 DEF Sent, announced
                <5>6. /\ IsFiniteSet(Telling(m, u, TRUE)') /\ IsFiniteSet(Telling(m, u, FALSE)')
                      /\ Sent(m, u)' + Cardinality(Telling(m, u, TRUE)')
                            - Cardinality(Telling(m, u, FALSE)') = Stored(m, u)'
                    BY <4>2, <4>3, <5>1, <5>2, <5>4, <5>5
                <5> QED
                    BY <5>6 DEF Balanced
            <4> QED
                BY <4>4, <4>5
        <3>4. CASE ~(m = n /\ u = v)
            <4>1. /\ Telling(m, u, TRUE)' = Telling(m, u, TRUE)
                  /\ Telling(m, u, FALSE)' = Telling(m, u, FALSE)
                BY <3>2, <3>4
            <4>2. Stored(m, u)' = Stored(m, u)
                BY <2>3, <3>4 DEF Stored
            <4> QED
                BY <2>3, <3>1, <4>1, <4>2 DEF Balanced, Sent, announced
        <3> QED
            BY <3>3, <3>4
    <2> QED
        BY <2>2, <2>3, <2>4, <2>5 DEF Counted, Recalled, Known
<1> QED
    BY <1>1, <1>2

\* One more is told or lost, of a reaction set or of one removed.
LEMMA OneIsSent ==
    ASSUME Core, NEW n \in Ids, NEW v \in Users, NEW on \in BOOLEAN,
           \/ /\ told' = [told EXCEPT ![<<n, v>>] = IF on THEN @ + 1 ELSE @ - 1]
              /\ untold' = untold
           \/ /\ untold' = [untold EXCEPT ![<<n, v>>] = IF on THEN @ + 1 ELSE @ - 1]
              /\ told' = told
    PROVE  \A m \in Ids, u \in Users :
                Sent(m, u)' = IF m = n /\ u = v
                              THEN IF on THEN Sent(m, u) + 1 ELSE Sent(m, u) - 1
                              ELSE Sent(m, u)
<1> SUFFICES ASSUME NEW m \in Ids, NEW u \in Users
             PROVE  Sent(m, u)' = IF m = n /\ u = v
                                  THEN IF on THEN Sent(m, u) + 1 ELSE Sent(m, u) - 1
                                  ELSE Sent(m, u)
    OBVIOUS
<1> DEFINE Moves(f, g) == g[<<m, u>>] = IF m = n /\ u = v
                                         THEN IF on THEN f[<<m, u>>] + 1 ELSE f[<<m, u>>] - 1
                                         ELSE f[<<m, u>>]
<1>1. ASSUME NEW f \in [Ids \X Users -> Int], NEW g,
             g = [f EXCEPT ![<<n, v>>] = IF on THEN @ + 1 ELSE @ - 1]
      PROVE  Moves(f, g)
    BY <1>1
<1>2. told \in [Ids \X Users -> Int] /\ untold \in [Ids \X Users -> Int]
    BY DEF Core, TypeOK
<1>3. told[<<m, u>>] \in Int /\ untold[<<m, u>>] \in Int
    BY <1>2
<1>4. \/ Moves(told, told') /\ untold' = untold
      \/ Moves(untold, untold') /\ told' = told
    <2> HIDE DEF Moves
    <2> QED
        BY <1>1, <1>2
<1> QED
    BY <1>3, <1>4 DEF Sent

\* The announcement is made, or is lost with its handler.
LEMMA TellCounted ==
    ASSUME Core, Counted, Grown, TableTyped', NEW r \in Requests,
           TellChange(r) \/ (Stop(r) /\ req[r].pc = "tell")
    PROVE  Counted'
<1> DEFINE n == req[r].msg
           v == req[r].user
           on == req[r].on
<1>q. /\ req[r] \in Request /\ req[r].pc = "tell" /\ n \in Known /\ n \in Ids /\ v \in Users
      /\ on \in BOOLEAN
    BY KnownIds DEF TellChange, Core, TypeOK, Formed, AboutMessage, Request
<1>1. /\ req' = [req EXCEPT ![r] = Idle] /\ reactions' = reactions /\ msgs' = msgs
      /\ \/ /\ told' = [told EXCEPT ![<<n, v>>] = IF on THEN @ + 1 ELSE @ - 1]
            /\ untold' = untold
         \/ /\ untold' = [untold EXCEPT ![<<n, v>>] = IF on THEN @ + 1 ELSE @ - 1]
            /\ told' = told
    BY <1>q DEF TellChange, Stop, Lose, tables
<1>2. \A q \in Requests : req'[q] = IF q = r THEN Idle ELSE req[q]
    BY <1>1 DEF Core, TypeOK
<1>3. \A m \in Ids, u \in Users :
        Sent(m, u)' = IF m = n /\ u = v
                      THEN IF on THEN Sent(m, u) + 1 ELSE Sent(m, u) - 1
                      ELSE Sent(m, u)
    BY <1>1, <1>q, OneIsSent
<1>4. \A m, u, b : IF n = m /\ v = u /\ on = b
                   THEN r \in Telling(m, u, b) /\ Telling(m, u, b)' = Telling(m, u, b) \ {r}
                   ELSE Telling(m, u, b)' = Telling(m, u, b)
    BY <1>1, <1>q, TellingShrinks
<1> HIDE DEF n, v, on
<1>5. ASSUME NEW m \in Ids, NEW u \in Users, m \notin Recalled' PROVE Balanced(m, u)'
    <2>1. Balanced(m, u) /\ Sent(m, u) \in Int /\ Stored(m, u)' = Stored(m, u)
        BY <1>1, <1>5 DEF Counted, Recalled, Known, Core, TypeOK, Stored, Sent
    <2>2. CASE m = n /\ u = v
        <3>1. PICK T, F : T = Telling(m, u, TRUE) /\ F = Telling(m, u, FALSE)
            OBVIOUS
        <3>2. /\ IsFiniteSet(T) /\ IsFiniteSet(F)
              /\ Cardinality(T) \in Nat /\ Cardinality(F) \in Nat
              /\ Sent(m, u) + Cardinality(T) - Cardinality(F) = Stored(m, u)
            BY <2>1, <3>1, FS_CardinalityType DEF Balanced
        <3>3. CASE on
            <4>1. r \in T /\ Telling(m, u, TRUE)' = T \ {r} /\ Telling(m, u, FALSE)' = F
                BY <1>4, <2>2, <3>1, <3>3
            <4>2. IsFiniteSet(T \ {r}) /\ Cardinality(T \ {r}) = Cardinality(T) - 1
                BY <3>2, <4>1, FS_RemoveElement
            <4>3. Sent(m, u)' = Sent(m, u) + 1
                BY <1>3, <2>2, <3>3
            <4>4. Sent(m, u)' + Cardinality(T \ {r}) - Cardinality(F) = Stored(m, u)
                BY <2>1, <3>2, <4>2, <4>3 DEF Stored
            <4>5. /\ IsFiniteSet(Telling(m, u, TRUE)') /\ IsFiniteSet(Telling(m, u, FALSE)')
                  /\ Sent(m, u)' + Cardinality(Telling(m, u, TRUE)')
                        - Cardinality(Telling(m, u, FALSE)') = Stored(m, u)'
                BY <2>1, <3>2, <4>1, <4>2, <4>4
            <4> QED
                BY <4>5 DEF Balanced
        <3>4. CASE ~on
            <4>1. r \in F /\ Telling(m, u, FALSE)' = F \ {r} /\ Telling(m, u, TRUE)' = T
                BY <1>q, <1>4, <2>2, <3>1, <3>4
            <4>2. IsFiniteSet(F \ {r}) /\ Cardinality(F \ {r}) = Cardinality(F) - 1
                BY <3>2, <4>1, FS_RemoveElement
            <4>3. Sent(m, u)' = Sent(m, u) - 1
                BY <1>3, <2>2, <3>4
            <4>4. Sent(m, u)' + Cardinality(T) - Cardinality(F \ {r}) = Stored(m, u)
                BY <2>1, <3>2, <4>2, <4>3 DEF Stored
            <4>5. /\ IsFiniteSet(Telling(m, u, TRUE)') /\ IsFiniteSet(Telling(m, u, FALSE)')
                  /\ Sent(m, u)' + Cardinality(Telling(m, u, TRUE)')
                        - Cardinality(Telling(m, u, FALSE)') = Stored(m, u)'
                BY <2>1, <3>2, <4>1, <4>2, <4>4
            <4> QED
                BY <4>5 DEF Balanced
        <3> QED
            BY <3>3, <3>4
    <2>3. CASE ~(m = n /\ u = v)
        <3>1. /\ Telling(m, u, TRUE)' = Telling(m, u, TRUE)
              /\ Telling(m, u, FALSE)' = Telling(m, u, FALSE)
            BY <1>4, <2>3
        <3>2. Sent(m, u)' = Sent(m, u)
            BY <1>3, <2>3
        <3> QED
            BY <2>1, <3>1, <3>2 DEF Balanced
    <2> QED
        BY <2>2, <2>3
<1> QED
    BY <1>1, <1>2, <1>5 DEF Counted, Recalled, Known, Idle

\* The row is written, and whoever asked does not learn of it.
LEMMA UnseenCounted ==
    ASSUME Core, Counted, Grown, TableTyped', NEW r \in Requests, WriteUnseen(r)
    PROVE  Counted'
<1> DEFINE n == req[r].msg
           v == req[r].user
           on == req[r].on
<1>q. /\ req[r].pc = "react" /\ n \in Known /\ n \in Ids /\ v \in Users /\ on \in BOOLEAN
    BY KnownIds DEF WriteUnseen, Core, TypeOK, Formed, AboutMessage, Request
<1>1. /\ told' = told /\ msgs' = msgs /\ req'[r].pc = "idle"
      /\ \A q \in Requests : q # r => req'[q] = req[q]
    BY DEF WriteUnseen, tables, Core, TypeOK, Idle
<1>2. CASE UNCHANGED <<reactions, untold>>
    <2>1. UNCHANGED emojis
        BY <1>1, <1>2 DEF emojis, announced
    <2> QED
        BY <1>q, <1>1, <2>1, OneQuiet
<1>3. CASE ~UNCHANGED <<reactions, untold>>
    <2>1. /\ reactions' = IF on THEN reactions \cup {<<n, v>>} ELSE reactions \ {<<n, v>>}
          /\ reactions' # reactions
          /\ untold' = [untold EXCEPT ![<<n, v>>] = IF on THEN @ + 1 ELSE @ - 1]
        BY <1>3 DEF WriteUnseen, Written, Lose
    <2>2. on <=> <<n, v>> \notin reactions
        BY <1>q, <2>1
    <2>3. \A m \in Ids, u \in Users :
            Sent(m, u)' = IF m = n /\ u = v
                          THEN IF on THEN Sent(m, u) + 1 ELSE Sent(m, u) - 1
                          ELSE Sent(m, u)
        <3>1. \/ /\ told' = [told EXCEPT ![<<n, v>>] = IF on THEN @ + 1 ELSE @ - 1]
                 /\ untold' = untold
              \/ /\ untold' = [untold EXCEPT ![<<n, v>>] = IF on THEN @ + 1 ELSE @ - 1]
                 /\ told' = told
            BY <1>1, <2>1
        <3> HIDE DEF n, v, on
        <3> QED
            BY <1>q, <3>1, OneIsSent
    <2> HIDE DEF n, v, on
    <2>4. \A m, u, b : Telling(m, u, b)' = Telling(m, u, b)
        BY <1>q, <1>1 DEF Telling
    <2>5. ASSUME NEW m \in Ids, NEW u \in Users, m \notin Recalled' PROVE Balanced(m, u)'
        <3>o. Sent(m, u)' = IF m = n /\ u = v
                            THEN IF on THEN Sent(m, u) + 1 ELSE Sent(m, u) - 1
                            ELSE Sent(m, u)
            BY <2>3
        <3>1. Balanced(m, u) /\ Sent(m, u) \in Int
            BY <1>1, <2>5 DEF Counted, Recalled, Known, Core, TypeOK, Sent
        <3>2. PICK c, d : /\ c = Cardinality(Telling(m, u, TRUE))
                          /\ d = Cardinality(Telling(m, u, FALSE))
            OBVIOUS
        <3>3. c \in Int /\ d \in Int /\ Sent(m, u) + c - d = Stored(m, u)
            <4>1. PICK T, F : T = Telling(m, u, TRUE) /\ F = Telling(m, u, FALSE)
                OBVIOUS
            <4>2. /\ IsFiniteSet(T) /\ IsFiniteSet(F)
                  /\ Sent(m, u) + Cardinality(T) - Cardinality(F) = Stored(m, u)
                BY <3>1, <4>1 DEF Balanced
            <4>3. Cardinality(T) \in Nat /\ Cardinality(F) \in Nat
                BY <4>2, FS_CardinalityType
            <4>4. c = Cardinality(T) /\ d = Cardinality(F)
                BY <3>2, <4>1
            <4> QED
                BY <4>2, <4>3, <4>4
        <3>4. PICK x, y, z, w : /\ x = Sent(m, u) /\ y = Sent(m, u)'
                                /\ z = Stored(m, u) /\ w = Stored(m, u)'
            OBVIOUS
        <3>5. y \in Int /\ z \in Int /\ w \in Int /\ y - x = w - z
            <4>1. y = IF m = n /\ u = v THEN IF on THEN x + 1 ELSE x - 1 ELSE x
                BY <3>o, <3>4
            <4>2. x \in Int
                BY <3>1, <3>4
            <4>3. CASE m = n /\ u = v
                <5>1. z = (IF on THEN 0 ELSE 1) /\ w = (IF on THEN 1 ELSE 0)
                    BY <2>1, <2>2, <3>4, <4>3 DEF Stored
                <5> QED
                    BY <1>q, <4>1, <4>2, <4>3, <5>1
            <4>4. CASE ~(m = n /\ u = v)
                <5>1. z = w /\ z \in {0, 1}
                    BY <2>1, <3>4, <4>4 DEF Stored
                <5> QED
                    BY <4>1, <4>2, <4>4, <5>1
            <4> QED
                BY <4>3, <4>4
        <3>6. Sent(m, u)' + c - d = Stored(m, u)'
            <4>1. x + c - d = z /\ x \in Int
                BY <3>1, <3>3, <3>4
            <4>2. y + c - d = w
                BY <3>3, <3>5, <4>1
            <4> QED
                BY <3>4, <4>2
        <3>7. /\ Telling(m, u, TRUE)' = Telling(m, u, TRUE)
              /\ Telling(m, u, FALSE)' = Telling(m, u, FALSE)
            BY <2>4
        <3> QED
            BY <3>1, <3>2, <3>6, <3>7 DEF Balanced
    <2> QED
        BY <1>1, <2>5 DEF Counted, Recalled, Known
<1> QED
    BY <1>2, <1>3

LEMMA StepCounted == Core /\ Counted /\ [Next]_vars => Counted'
<1> SUFFICES ASSUME Core, Counted, [Next]_vars PROVE Counted'
    OBVIOUS
<1>g. Grown /\ TableTyped' /\ Recalled \subseteq Recalled'
    BY StepCore, RecallLasts DEF Core, TypeOK, TableTyped
<1>1. CASE UNCHANGED vars
    BY <1>g, <1>1, CountedStays DEF vars, announced, Counted
<1>2. CASE WriterStep
    <2>1. ASSUME UNCHANGED <<reactions, announced, req>> PROVE Counted'
        BY <1>g, <2>1, CountedStays DEF Counted
    <2>2. ASSUME NEW m \in Known, Recall(m) PROVE Counted'
        <3>1. /\ reactions' = {x \in reactions : x[1] # m} /\ UNCHANGED <<announced, req>>
              /\ m \in Recalled'
            <4>1. msgs[m].state = "live" /\ msgs' = [msgs EXCEPT ![m].state = "recalled"]
                BY <2>2 DEF Recall, Live
            <4>2. msgs[m] \in Message /\ m \in Ids /\ m \in Known'
                BY <1>g, RowTyped, Seen DEF Core, TypeOK, TableTyped
            <4>3. msgs'[m].state = "recalled"
                BY <2>2, <4>1, <4>2, ElementOfSeq DEF Message, Known, Core, TypeOK
            <4> QED
                BY <2>2, <4>2, <4>3 DEF Recall, Recalled
        <3> QED
            BY <1>g, <3>1, CountedStays DEF Counted
    <2> QED
        BY <1>2, <2>1, <2>2 DEF WriterStep, Draw, Commit, Undo, emojis, announced
<1>3. ASSUME NEW u \in Users, UserStep(u) PROVE Counted'
    BY <1>g, <1>3, CountedStays DEF UserStep, OpenScroll, Hide, MarkAsRead, emojis, announced, Counted
<1>4. ASSUME NEW r \in Requests, ReadOn(r) \/ MarkOn(r) \/ Redact(r) \/ SweepReactions(r)
      PROVE  Counted'
    <2>a. req \in [Requests -> Request]
        BY DEF Core, TypeOK
    <2>1. /\ \A q \in Requests : q # r => req'[q] = req[q]
          /\ req[r].pc # "tell" /\ req'[r].pc # "tell"
          /\ ReadOn(r) \/ MarkOn(r) => UNCHANGED emojis /\ req'[r].pc # "sweep"
        <3>1. CASE ReadOn(r)
            <4>1. CASE FilterHidden(r)
                BY <2>a, <3>1, <4>1 DEF FilterHidden, Request
            <4>2. CASE Assembles(r) /\ AssembleRows(r)
                BY <2>a, <3>1, <4>2 DEF Assembles, AssembleRows, Request
            <4>3. CASE Answer(r)
                BY <2>a, <3>1, <4>3 DEF Answer, Idle
            <4>4. CASE Sign(r)
                BY <2>a, <3>1, <4>4 DEF Sign, Request
            <4> QED
                BY <3>1, <4>1, <4>2, <4>3, <4>4 DEF ReadOn
        <3>2. CASE MarkOn(r)
            BY <2>a, <3>2 DEF MarkOn, UpdateCursor, InsertCursor, RetryCursor, Request, Idle
        <3>3. CASE Redact(r)
            <4>1. ~ReadOn(r) /\ ~MarkOn(r)
                BY <3>3 DEF Redact, ReadOn, FilterHidden, Assembles, Answer, Sign, MarkOn,
                    UpdateCursor, InsertCursor, RetryCursor
            <4> QED
                BY <2>a, <3>3, <4>1 DEF Redact, Request
        <3>4. CASE SweepReactions(r)
            <4>1. ~ReadOn(r) /\ ~MarkOn(r)
                BY <3>4 DEF SweepReactions, ReadOn, FilterHidden, Assembles, Answer, Sign, MarkOn,
                    UpdateCursor, InsertCursor, RetryCursor
            <4> QED
                BY <2>a, <3>4, <4>1 DEF SweepReactions, Idle
        <3> QED
            BY <1>4, <3>1, <3>2, <3>3, <3>4
    <2>2. CASE ReadOn(r) \/ MarkOn(r)
        BY <1>g, <2>1, <2>2, OneQuiet
    <2>3. CASE Redact(r)
        <3>1. UNCHANGED emojis /\ req[r].pc = "redact" /\ req'[r].msg = req[r].msg
            BY <2>3 DEF Redact, Core, TypeOK, Request
        <3>2. req[r].msg \in Known
            BY <3>1 DEF Core, Formed, AboutMessage
        <3>3. req[r].msg \in Recalled'
            <4> DEFINE m == req[r].msg
            <4>1. msgs' = [msgs EXCEPT ![m].state = "recalled"]
                BY <2>3 DEF Redact
            <4> HIDE DEF m
            <4>2. msgs[m] \in Message /\ m \in Ids /\ m \in Known'
                BY <1>g, <3>2, RowTyped, Seen DEF Core, TypeOK, TableTyped, m
            <4>3. msgs'[m].state = "recalled"
                BY <3>2, <4>1, <4>2, ElementOfSeq DEF Message, Known, Core, TypeOK, m
            <4> QED
                BY <4>2, <4>3 DEF Recalled, m
        <3> QED
            BY <1>g, <2>1, <3>1, <3>3, OneQuiet
    <2>4. CASE SweepReactions(r)
        <3>1. /\ req[r].pc = "sweep" /\ reactions' = {x \in reactions : x[1] # req[r].msg}
              /\ req'[r].pc = "idle" /\ UNCHANGED announced
            BY <2>4 DEF SweepReactions, Core, TypeOK, Idle
        <3>2. req[r].msg \in Recalled'
            BY <1>g, <3>1 DEF Counted
        <3> QED
            BY <1>g, <2>1, <3>1, <3>2, CountedStays DEF Counted
    <2> QED
        BY <1>4, <2>2, <2>3, <2>4
<1>5. ASSUME NEW r \in Requests, Stop(r), req[r].pc # "tell" PROVE Counted'
    <2>1. /\ UNCHANGED emojis /\ req'[r].pc = "idle"
          /\ \A q \in Requests : q # r => req'[q] = req[q]
        BY <1>5 DEF Stop, Core, TypeOK, Idle, emojis, announced
    <2> QED
        BY <1>g, <1>5, <2>1, OneQuiet
<1> QED
    BY <1>g, <1>1, <1>2, <1>3, <1>4, <1>5, BeginCounted, WriteCounted, UnseenCounted,
        TellCounted, NextCases DEF ChangeOn

\* ToldAsStored: whoever counts the reactions told of a message arrives at the
\* table, less just what a failure kept from being told, while nothing of it
\* remains to be told.
THEOREM ToldIsStored == Spec => []ToldAsStored
<1>1. Init => Counted
    <2> SUFFICES ASSUME Init PROVE Counted
        OBVIOUS
    <2>1. \A m, u, b : Telling(m, u, b) = {}
        BY DEF Init, Telling, Idle
    <2> QED
        <3>1. ASSUME NEW m \in Ids, NEW u \in Users PROVE Balanced(m, u)
            <4>1. Sent(m, u) = 0 /\ Stored(m, u) = 0
                BY DEF Init, Stored, Sent
            <4>2. /\ IsFiniteSet(Telling(m, u, TRUE)) /\ Cardinality(Telling(m, u, TRUE)) = 0
                  /\ IsFiniteSet(Telling(m, u, FALSE)) /\ Cardinality(Telling(m, u, FALSE)) = 0
                BY <2>1, FS_EmptySet
            <4>3. Sent(m, u) + Cardinality(Telling(m, u, TRUE)) - Cardinality(Telling(m, u, FALSE))
                    = Stored(m, u)
                <5>1. PICK c, d : /\ c = Cardinality(Telling(m, u, TRUE))
                                  /\ d = Cardinality(Telling(m, u, FALSE))
                    OBVIOUS
                <5>z. c = 0 /\ d = 0
                    BY <4>2, <5>1
                <5>2. Sent(m, u) + c - d = Stored(m, u)
                    BY <4>1, <5>z
                <5> QED
                    BY <5>1, <5>2
            <4> QED
                BY <4>2, <4>3 DEF Balanced
        <3> QED
            BY <3>1 DEF Init, Counted, Idle
<1>2. Core /\ Counted => ToldAsStored
    <2> SUFFICES ASSUME Core, Counted, NEW m \in Ids, NEW u \in Users, Live(m),
                        \A r \in Requests : req[r].pc = "tell" => <<req[r].msg, req[r].user>> # <<m, u>>
                 PROVE  Sent(m, u) = Stored(m, u)
        BY DEF ToldAsStored, Stored, Sent
    <2>1. Balanced(m, u) /\ Sent(m, u) \in Int
        BY DEF Counted, Live, Recalled, Core, TypeOK, Sent
    <2>2. Telling(m, u, TRUE) = {} /\ Telling(m, u, FALSE) = {}
        BY DEF Telling
    <2> QED
        <3>1. PICK c, d : /\ c = Cardinality(Telling(m, u, TRUE))
                          /\ d = Cardinality(Telling(m, u, FALSE))
            OBVIOUS
        <3>2. c = 0 /\ d = 0
            BY <2>2, <3>1, FS_EmptySet
        <3>3. Sent(m, u) + c - d = Stored(m, u)
            BY <2>1, <3>1 DEF Balanced
        <3> QED
            BY <2>1, <3>2, <3>3
<1> QED
    BY <1>1, <1>2, AlwaysCore, StepCounted, PTL DEF Spec

-----------------------------------------------------------------------------
(* Reading page by page *)

\* A message that a scroll of u does not owe its client.
Excused(u, m) ==
    \/ m \in scroll[u].got \/ m \in HiddenBy(u)
    \/ scroll[u].kind = "search" /\ m \in Recalled

\* Every message that is still owed is older than the cursor, while a page is
\* awaited among its rows or older than all of them, and then there are more.
OlderRows(m, R) == (\A x \in R : m < x) /\ Newest(R, Limit) # R
Owed(u) ==
    /\ scroll[u].want \subseteq Committed(scroll[u].scope)
    /\ scroll[u].exact =>
        /\ scroll[u].state # "over" =>
            \A m \in scroll[u].want : Excused(u, m) \/ m < scroll[u].before
        /\ scroll[u].state = "over" => \A m \in scroll[u].want : Excused(u, m)
Awaited(r) ==
    req[r].scrolls /\ scroll[req[r].user].exact =>
        /\ req[r].pc \in {"assemble", "answer"}
        /\ \A m \in scroll[req[r].user].want :
            Excused(req[r].user, m) \/ m \in req[r].rows \/ OlderRows(m, req[r].rows)
Followed == (\A u \in Users : Owed(u)) /\ (\A r \in Requests : Awaited(r))

\* What is left out of the newest n is older than all of them.
LEMMA RestIsOlder ==
    ASSUME NEW M \in SUBSET Ids, NEW n \in Nat, NEW m \in M \ Newest(M, n), NEW x \in Newest(M, n)
    PROVE  m < x
<1> SUFFICES ASSUME ~(m < x) PROVE FALSE
    OBVIOUS
<1>1. m \in Nat /\ x \in Nat /\ \A y \in M : y \in Nat
    BY HistoryAssumption DEF Ids, Newest
<1> DEFINE A == {y \in M : y > m}
           B == {y \in M : y > x}
<1>2. A \subseteq B
    <2>1. ASSUME NEW y \in M, y > m PROVE y > x
        <3>1. y \in Nat /\ x <= m
            BY <1>1
        <3> QED
            BY <1>1, <2>1, <3>1
    <2> QED
        BY <2>1
<1>3. IsFiniteSet(B)
    BY FiniteIds
<1>4. Cardinality(B) \in Nat /\ Cardinality(A) \in Nat /\ Cardinality(A) <= Cardinality(B)
    BY <1>2, <1>3, FS_Subset, FS_CardinalityType
<1>5. Cardinality(B) < n
    BY DEF Newest
<1>6. ~(Cardinality(A) < n)
    BY DEF Newest
<1> HIDE DEF A, B
<1> QED
    BY <1>4, <1>5, <1>6

\* One more than a page is asked for: what is left out is older than all of it,
\* and the page is not all that was asked for.
LEMMA PageOrOlder ==
    ASSUME NEW N \in SUBSET Ids, NEW m \in N
    PROVE  m \in Newest(N, Limit + 1) \/ OlderRows(m, Newest(N, Limit + 1))
<1> DEFINE R == Newest(N, Limit + 1)
           Above(x) == {y \in N : y > x}
<1>l. Limit \in Nat /\ Limit + 1 \in Nat /\ Limit > 0
    BY HistoryAssumption
<1>n. \A x \in N : x \in Nat
    BY HistoryAssumption DEF Ids
<1>f. \A x : IsFiniteSet(Above(x)) /\ Cardinality(Above(x)) \in Nat
    <2> SUFFICES ASSUME NEW x PROVE IsFiniteSet(Above(x)) /\ Cardinality(Above(x)) \in Nat
        OBVIOUS
    <2>1. Above(x) \in SUBSET Ids
        OBVIOUS
    <2> HIDE DEF Above
    <2> QED
        BY <2>1, FiniteIds, FS_CardinalityType
<1>r. \A x : x \in R <=> x \in N /\ Cardinality(Above(x)) < Limit + 1
    BY DEF Newest
<1> SUFFICES ASSUME m \notin R PROVE OlderRows(m, R)
    OBVIOUS
<1>1. \A x \in R : m < x
    BY <1>l, RestIsOlder
<1>2. PICK y \in N : Cardinality(Above(y)) = Limit
    <2> DEFINE Z == {x \in N : Cardinality(Above(x)) >= Limit}
    <2>1. m \in Z
        <3> HIDE DEF R
        <3> QED
            BY <1>r, <1>l, <1>f
    <2>2. PICK y \in Z : \A x \in Z : x <= y
        <3>1. Z \in SUBSET Ids /\ Z # {}
            BY <2>1
        <3> HIDE DEF Z
        <3> QED
            BY <3>1, Latest
    <2>3. y \in N /\ Cardinality(Above(y)) >= Limit
        BY <2>2
    <2>4. Above(y) # {}
        <3>1. Cardinality({}) = 0
            BY FS_EmptySet
        <3> HIDE DEF Above
        <3> QED
            BY <1>l, <2>3, <3>1
    <2>5. PICK z \in Above(y) : \A x \in Above(y) : z <= x
        <3>1. Above(y) \in SUBSET Nat
            BY <1>n
        <3> HIDE DEF Above
        <3> QED
            BY <2>4, <3>1, Oldest
    <2>6. z \in N /\ z > y
        BY <2>5
    <2>7. Above(y) = Above(z) \cup {z} /\ z \notin Above(z)
        BY <1>n, <2>3, <2>5, <2>6
    <2>8. z \notin Z
        BY <1>n, <2>2, <2>3, <2>6
    <2>9. Cardinality(Above(z)) < Limit
        <3> HIDE DEF Above
        <3> QED
            BY <1>f, <1>l, <2>6, <2>8
    <2>10. Cardinality(Above(y)) = Cardinality(Above(z)) + 1
        <3> HIDE DEF Above
        <3> QED
            BY <1>f, <2>7, FS_AddElement
    <2> HIDE DEF Above
    <2> QED
        BY <1>f, <1>l, <2>3, <2>9, <2>10
<1>3. Above(y) = {x \in R : x > y}
    <2>1. ASSUME NEW x \in Above(y) PROVE x \in R
        <3>1. Above(x) \subseteq Above(y) /\ x \in N
            BY <1>n, <2>1
        <3> HIDE DEF Above, R
        <3>2. Cardinality(Above(x)) <= Cardinality(Above(y))
            BY <1>f, <3>1, FS_Subset
        <3> QED
            BY <1>f, <1>l, <1>r, <1>2, <3>1, <3>2
    <2>2. R \subseteq N
        BY DEF Newest
    <2> HIDE DEF R
    <2> QED
        BY <2>1, <2>2
<1>4. y \in R /\ y \notin Newest(R, Limit)
    <2>1. y \in R
        <3> HIDE DEF Above, R
        <3> QED
            BY <1>2, <1>l, <1>r
    <2>2. ~(Cardinality({x \in R : x > y}) < Limit)
        <3> HIDE DEF Above, R
        <3> QED
            BY <1>2, <1>3, <1>l
    <2> HIDE DEF Above, R
    <2> QED
        BY <2>1, <2>2 DEF Newest
<1> HIDE DEF R
<1> QED
    BY <1>1, <1>4 DEF OlderRows

LEMMA ExcusedStays ==
    ASSUME Core, Grown, TableTyped', hidden \subseteq hidden', NEW v, NEW m, Excused(v, m),
           scroll[v].got \subseteq scroll'[v].got, scroll'[v].kind = scroll[v].kind
    PROVE  Excused(v, m)'
<1>1. HiddenBy(v) \subseteq HiddenBy(v)'
    BY DEF HiddenBy
<1> QED
    BY <1>1, RecallLasts DEF Excused

LEMMA OwedStays ==
    ASSUME Core, Grown, TableTyped', hidden \subseteq hidden', NEW v, Owed(v),
           scroll'[v] = scroll[v]
    PROVE  Owed(v)'
<1>1. \A m : Excused(v, m) => Excused(v, m)'
    BY ExcusedStays
<1>2. Committed(scroll[v].scope) \subseteq Committed(scroll[v].scope)'
    BY Seen
<1> QED
    BY <1>1, <1>2 DEF Owed

LEMMA AwaitedStays ==
    ASSUME Core, Grown, TableTyped', hidden \subseteq hidden', NEW r \in Requests, Awaited(r),
           req'[r].scrolls =>
            /\ req[r].scrolls /\ req'[r].user = req[r].user
            /\ scroll'[req[r].user] = scroll[req[r].user]
            /\ req[r].pc # "filter" => /\ req'[r].rows = req[r].rows
                                       /\ req'[r].pc \in {"assemble", "answer"}
    PROVE  Awaited(r)'
<1> SUFFICES ASSUME req'[r].scrolls, scroll'[req'[r].user].exact PROVE Awaited(r)'
    BY DEF Awaited
<1>1. PICK v : v = req[r].user
    OBVIOUS
<1>2. /\ req[r].scrolls /\ req'[r].user = v /\ scroll'[v] = scroll[v]
      /\ scroll[v].exact
    BY <1>1
<1>3. \A m : Excused(v, m) => Excused(v, m)'
    BY <1>2, ExcusedStays
<1>4. req'[r].rows = req[r].rows /\ req'[r].pc \in {"assemble", "answer"}
    BY <1>1, <1>2 DEF Awaited
<1>5. \A m : OlderRows(m, req[r].rows)' <=> OlderRows(m, req[r].rows)
    BY <1>4 DEF OlderRows, Newest
<1> QED
    BY <1>1, <1>2, <1>3, <1>4, <1>5 DEF Awaited

\* A step of nobody who scrolls.
LEMMA AllStay ==
    ASSUME Core, Followed, Grown, TableTyped', hidden \subseteq hidden', scroll' = scroll,
           \A r \in Requests : req'[r] = req[r] \/ ~req'[r].scrolls
    PROVE  Followed'
<1>1. ASSUME NEW u \in Users PROVE Owed(u)'
    BY OwedStays DEF Followed
<1>2. ASSUME NEW r \in Requests PROVE Awaited(r)'
    <2>1. CASE req'[r] = req[r]
        <3>1. req'[r].scrolls /\ req[r].pc # "filter" => req'[r].pc \in {"assemble", "answer"}
            BY <2>1 DEF Core, Formed
        <3> QED
            BY <2>1, <3>1, AwaitedStays DEF Followed
    <2>2. CASE ~req'[r].scrolls
        BY <2>2 DEF Awaited
    <2> QED
        BY <2>1, <2>2
<1> QED
    BY <1>1, <1>2 DEF Followed

\* A step of the scroll of one user.
LEMMA OneScrolls ==
    ASSUME Core, Followed, Grown, TableTyped', hidden \subseteq hidden', NEW u \in Users,
           \A v \in Users : v # u => scroll'[v] = scroll[v],
           \A r \in Requests : req'[r].scrolls /\ req'[r].user # u => req'[r] = req[r],
           Owed(u)', \A r \in Requests : req'[r].scrolls /\ req'[r].user = u => Awaited(r)'
    PROVE  Followed'
<1>1. ASSUME NEW v \in Users PROVE Owed(v)'
    BY OwedStays DEF Followed
<1>2. ASSUME NEW r \in Requests PROVE Awaited(r)'
    <2>1. CASE req'[r].scrolls /\ req'[r].user # u
        <3>1. req'[r] = req[r] /\ req[r].scrolls
            BY <2>1
        <3>2. req[r].user \in Users /\ req[r].user # u /\ scroll'[req[r].user] = scroll[req[r].user]
            BY <2>1, <3>1 DEF Core, Formed
        <3>3. req[r].pc # "filter" => req'[r].pc \in {"assemble", "answer"}
            BY <3>1 DEF Core, Formed
        <3> QED
            BY <3>1, <3>2, <3>3, AwaitedStays DEF Followed
    <2>2. CASE ~req'[r].scrolls
        BY <2>2 DEF Awaited
    <2> QED
        BY <2>1, <2>2
<1> QED
    BY <1>1, <1>2 DEF Followed

\* The next page is asked for: what is owed is among its rows or older.
LEMMA AskFollowed ==
    ASSUME Core, Followed, Grown, TableTyped', hidden' = hidden, NEW r \in Requests,
           NEW u \in Users, NEW step \in {"filter", "assemble"}, NEW R \in SUBSET Ids,
           Ask(r, u, step, R), NEW z, scroll' = [scroll EXCEPT ![u] = z],
           z.state = "asking", z.scope = scroll[u].scope, z.kind = scroll[u].kind,
           z.want = scroll[u].want, z.got = scroll[u].got, z.before = scroll[u].before,
           z.exact => scroll[u].exact,
           z.exact => /\ step = "assemble"
                      /\ \A m \in z.want : Excused(u, m) \/ m \in R \/ OlderRows(m, R)
    PROVE  Followed'
<1>p. step \in Steps
    BY DEF Steps
<1>1. PICK b : b = Begin(r, u, step) /\ Blank(b, u, step)
    BY <1>p, BeginIsBlank
<1>2. PICK y : /\ y = [b EXCEPT !.scrolls = TRUE, !.rows = R, !.active = NotDeleted(R)]
               /\ req' = [req EXCEPT ![r] = y]
    BY <1>1 DEF Ask
<1>3. y.scrolls /\ y.user = u /\ y.pc = step /\ y.rows = R
    BY <1>1, <1>2 DEF Blank, Begun, Request
<1>4. /\ req'[r] = y /\ \A q \in Requests : q # r => req'[q] = req[q]
      /\ scroll'[u] = z /\ \A v \in Users : v # u => scroll'[v] = scroll[v]
    BY <1>2 DEF Core, TypeOK
<1>5. \A q \in Requests : req'[q].scrolls /\ req'[q].user = u => q = r
    BY <1>4 DEF Ask, Core, Formed
<1>6. \A m : Excused(u, m) => Excused(u, m)'
    BY <1>4, ExcusedStays
<1>7. Owed(u)'
    <2>1. Committed(scroll[u].scope) \subseteq Committed(scroll[u].scope)'
        BY Seen
    <2>2. scroll[u].want \subseteq Committed(scroll[u].scope)
        BY DEF Followed, Owed
    <2>3. Committed(scroll[u].scope)' = Committed(z.scope)'
        BY <1>4 DEF Committed
    <2>4. scroll'[u].want \subseteq Committed(scroll[u].scope)'
        BY <1>4, <2>1, <2>2, <2>3 DEF Committed
    <2>5. /\ scroll'[u].state = "asking" /\ scroll'[u].want = scroll[u].want
          /\ scroll'[u].before = scroll[u].before /\ scroll'[u].exact = z.exact
        BY <1>4
    <2>6. z.exact => \A m \in scroll[u].want : Excused(u, m) \/ m < scroll[u].before
        BY DEF Followed, Owed, Ask
    <2> QED
        BY <1>6, <2>4, <2>5, <2>6 DEF Owed
<1>8. Awaited(r)'
    <2>1. \A m : OlderRows(m, R)' <=> OlderRows(m, R)
        BY DEF OlderRows, Newest
    <2> QED
        BY <1>3, <1>4, <1>6, <2>1 DEF Awaited
<1>9. \A q \in Requests : req'[q].scrolls /\ req'[q].user # u => req'[q] = req[q]
    BY <1>3, <1>4
<1>10. \A q \in Requests : req'[q].scrolls /\ req'[q].user = u => Awaited(q)'
    BY <1>5, <1>8
<1> QED
    BY <1>4, <1>7, <1>9, <1>10, OneScrolls

LEMMA PagesFollowed ==
    ASSUME Core, Followed, Grown, TableTyped', NEW r \in Requests, NEW u \in Users,
           \/ \E S \in {Conversations, Channels} : GetPage(r, u, S) \/ GetRows(r, u, S)
           \/ Search(r, u)
    PROVE  Followed'
<1>1. Older(u) \in SUBSET Ids
    BY KnownIds DEF Older, Committed
<1>2. hidden' = hidden
    BY DEF GetPage, GetRows, Search, tables
<1>o. Owed(u) /\ scroll[u] \in Scroll
    BY DEF Followed, Core, TypeOK
<1>r. ASSUME scroll[u].exact, scroll[u].state = "open", NEW N \in SUBSET Ids,
             \A m \in Older(u) : Excused(u, m) \/ m \in N
      PROVE  \A m \in scroll[u].want :
                \/ Excused(u, m) \/ m \in Newest(N, Limit + 1) \/ OlderRows(m, Newest(N, Limit + 1))
    <2> SUFFICES ASSUME NEW m \in scroll[u].want, ~Excused(u, m)
                 PROVE  m \in Newest(N, Limit + 1) \/ OlderRows(m, Newest(N, Limit + 1))
        OBVIOUS
    <2>1. m \in Older(u)
        BY <1>o, <1>r DEF Owed, Older
    <2>2. m \in N
        BY <1>r, <2>1
    <2> QED
        BY <2>2, PageOrOlder
<1>3. ASSUME NEW S \in {Conversations, Channels}, GetPage(r, u, S) PROVE Followed'
    <2>1. PICK N : N = Older(u) \ HiddenBy(u)
        OBVIOUS
    <2>2. PICK R \in SUBSET Ids : R = Newest(N, Limit + 1)
        BY <1>1, <2>1, NewestIsPart
    <2>3. PICK z : z = [scroll[u] EXCEPT !.state = "asking"] /\ scroll' = [scroll EXCEPT ![u] = z]
        BY <1>3 DEF GetPage
    <2>4. /\ z.state = "asking" /\ z.scope = scroll[u].scope /\ z.kind = scroll[u].kind
          /\ z.want = scroll[u].want /\ z.got = scroll[u].got /\ z.exact = scroll[u].exact
          /\ z.before = scroll[u].before
        BY <1>o, <2>3 DEF Scroll
    <2>5. Ask(r, u, "assemble", R) /\ scroll[u].state = "open"
        BY <1>3, <2>1, <2>2 DEF GetPage, Page, Ask
    <2>6. \A m \in Older(u) : Excused(u, m) \/ m \in N
        BY <2>1 DEF Excused
    <2>7. z.exact => \A m \in z.want : Excused(u, m) \/ m \in R \/ OlderRows(m, R)
        BY <1>1, <1>r, <2>1, <2>2, <2>4, <2>5, <2>6
    <2> QED
        BY <1>2, <2>3, <2>4, <2>5, <2>7, AskFollowed
<1>4. ASSUME NEW S \in {Conversations, Channels}, GetRows(r, u, S) PROVE Followed'
    <2>1. PICK R \in SUBSET Ids : R = Newest(Older(u), Limit + 1)
        BY <1>1, NewestIsPart
    <2>2. PICK z : /\ z = [scroll[u] EXCEPT !.state = "asking", !.exact = FALSE]
                   /\ scroll' = [scroll EXCEPT ![u] = z]
        BY <1>4, <1>o DEF GetRows, Core, TypeOK
    <2>3. /\ z.state = "asking" /\ z.scope = scroll[u].scope /\ z.kind = scroll[u].kind
          /\ z.want = scroll[u].want /\ z.got = scroll[u].got /\ ~z.exact
          /\ z.before = scroll[u].before
        BY <1>o, <2>2 DEF Scroll
    <2>4. Ask(r, u, "filter", R)
        BY <1>4, <2>1 DEF GetRows
    <2> QED
        BY <1>2, <2>2, <2>3, <2>4, AskFollowed
<1>5. CASE Search(r, u)
    <2>1. PICK N : N = NotDeleted(Older(u)) \ HiddenBy(u)
        OBVIOUS
    <2>2. PICK R \in SUBSET Ids : R = Newest(N, Limit + 1)
        BY <1>1, <2>1, NewestIsPart DEF NotDeleted
    <2>3. PICK z : z = [scroll[u] EXCEPT !.state = "asking"] /\ scroll' = [scroll EXCEPT ![u] = z]
        BY <1>5 DEF Search
    <2>4. /\ z.state = "asking" /\ z.scope = scroll[u].scope /\ z.kind = scroll[u].kind
          /\ z.want = scroll[u].want /\ z.got = scroll[u].got /\ z.exact = scroll[u].exact
          /\ z.before = scroll[u].before
        BY <1>o, <2>3 DEF Scroll
    <2>5. Ask(r, u, "assemble", R) /\ scroll[u].state = "open" /\ scroll[u].kind = "search"
        BY <1>5, <2>1, <2>2 DEF Search, Page, Ask
    <2>6. \A m \in Older(u) : Excused(u, m) \/ m \in N
        BY <2>1, <2>5 DEF Excused, NotDeleted
    <2>7. N \in SUBSET Ids
        BY <1>1, <2>1 DEF NotDeleted
    <2>8. z.exact => \A m \in z.want : Excused(u, m) \/ m \in R \/ OlderRows(m, R)
        BY <1>r, <2>2, <2>4, <2>5, <2>6, <2>7
    <2> QED
        BY <1>2, <2>3, <2>4, <2>5, <2>8, AskFollowed
<1> QED
    BY <1>3, <1>4, <1>5

LEMMA BeginFollowed ==
    ASSUME Core, Followed, Grown, TableTyped', NEW r \in Requests, NEW u \in Users, BeginStep(r, u)
    PROVE  Followed'
<1> DEFINE Others == \/ \E s \in Scopes : GetPinned(r, u, s)
                     \/ \E m \in Known :
                          \/ GetUrl(r, u, m) \/ RecallUnaided(r, u, m) \/ MarkChannelAsRead(r, u, m)
                          \/ \E b \in BOOLEAN : SetPin(r, u, m, b) \/ React(r, u, m, b)
<1>1. CASE Others
    <2>1. UNCHANGED <<scroll, hidden>>
        BY <1>1 DEF GetPinned, GetUrl, RecallUnaided, MarkChannelAsRead, SetPin, React, tables
    <2>2. \A q \in Requests : q # r => req'[q] = req[q]
        BY BeginStepMakes
    <2>3. UNCHANGED req \/ ~req'[r].scrolls
        <3>a. req \in [Requests -> Request]
            BY DEF Core, TypeOK
        <3>1. ASSUME NEW s \in Scopes, GetPinned(r, u, s) PROVE ~req'[r].scrolls
            BY <3>a, <3>1 DEF GetPinned, Begin, Idle
        <3>2. ASSUME NEW m \in Known, GetUrl(r, u, m) \/ RecallUnaided(r, u, m)
              PROVE  ~req'[r].scrolls
            BY <3>a, <3>2 DEF GetUrl, RecallUnaided, Begin, Idle
        <3>3. ASSUME NEW m \in Known, MarkChannelAsRead(r, u, m), ~UNCHANGED req
              PROVE  ~req'[r].scrolls
            BY <3>a, <3>3 DEF MarkChannelAsRead, Begin, Idle
        <3>4. ASSUME NEW m \in Known, NEW b \in BOOLEAN, SetPin(r, u, m, b)
              PROVE  ~req'[r].scrolls
            BY <3>a, <3>4 DEF SetPin, Begin, Idle
        <3>5. ASSUME NEW m \in Known, NEW b \in BOOLEAN, React(r, u, m, b)
              PROVE  ~req'[r].scrolls
            BY <3>a, <3>5 DEF React, Begin, Idle
        <3> QED
            BY <1>1, <3>1, <3>2, <3>3, <3>4, <3>5
    <2>4. \A q \in Requests : req'[q] = req[q] \/ ~req'[q].scrolls
        BY <2>2, <2>3
    <2> QED
        BY <2>1, <2>4, AllStay
<1>2. CASE ~Others
    BY <1>2, PagesFollowed DEF BeginStep
<1> QED
    BY <1>1, <1>2

\* A scroll is opened.
LEMMA OpenFollowed ==
    ASSUME Core, Followed, Grown, TableTyped', NEW u \in Users, NEW s \in Scopes,
           NEW k \in {"page", "search"}, OpenScroll(u, s, k)
    PROVE  Followed'
<1> DEFINE W == (IF k = "search" THEN NotDeleted(Committed(s)) ELSE Committed(s)) \ HiddenBy(u)
<1>1. PICK z : /\ z = [NoScroll EXCEPT !.scope = s, !.kind = k, !.state = "open", !.want = W]
               /\ scroll' = [scroll EXCEPT ![u] = z]
    BY DEF OpenScroll
<1>2. /\ scroll'[u] = z /\ \A v \in Users : v # u => scroll'[v] = scroll[v]
      /\ req' = req /\ hidden' = hidden /\ scroll[u].state = "over"
    BY <1>1 DEF Core, TypeOK, OpenScroll, tables
<1>3. z.scope = s /\ z.state = "open" /\ z.want = W /\ z.before = MaxMessages + 1
    BY <1>1 DEF NoScroll
<1>4. W \subseteq Committed(s)
    BY DEF NotDeleted
<1> HIDE DEF W
<1>5. Committed(s) \subseteq Committed(s)' /\ Committed(s) \subseteq Ids
    BY Seen, KnownIds DEF Committed
<1>6. Owed(u)'
    <2>1. scroll'[u].want \subseteq Committed(scroll[u].scope)'
        BY <1>2, <1>3, <1>4, <1>5 DEF Committed
    <2>2. \A m \in scroll'[u].want : m < scroll'[u].before
        BY <1>2, <1>3, <1>4, <1>5, HistoryAssumption DEF Ids
    <2> QED
        BY <1>2, <1>3, <2>1, <2>2 DEF Owed
<1>7. \A r \in Requests : req'[r].scrolls => req'[r].user # u
    BY <1>2 DEF Core, Formed
<1> QED
    BY <1>2, <1>6, <1>7, OneScrolls

\* A page is answered.
LEMMA AnswerFollowed ==
    ASSUME Core, Followed, Grown, TableTyped', NEW r \in Requests, Answer(r)
    PROVE  Followed'
<1>1. /\ hidden' = hidden /\ \A q \in Requests : q # r => req'[q] = req[q]
      /\ ~req'[r].scrolls /\ req[r].user \in Users
    BY DEF Answer, tables, Core, TypeOK, Formed, Idle
<1>2. CASE ~req[r].scrolls
    <2>1. UNCHANGED scroll
        BY <1>2 DEF Answer
    <2>2. \A q \in Requests : req'[q] = req[q] \/ ~req'[q].scrolls
        BY <1>1
    <2> QED
        BY <1>1, <2>1, <2>2, AllStay
<1>3. CASE req[r].scrolls
    <2> DEFINE w == req[r].user
               Q == Newest(req[r].rows, Limit)
               c == CHOOSE m \in Q : \A x \in Q : m <= x
    <2>a. scroll' = [scroll EXCEPT ![w].got = @ \cup Q,
                                   ![w].before = IF Q # req[r].rows THEN c ELSE @,
                                   ![w].state = IF Q # req[r].rows THEN "open" ELSE "over"]
        BY <1>3 DEF Answer
    <2>2. PICK R \in SUBSET Ids : R = req[r].rows
        BY DEF Core, TypeOK, Request
    <2>b. Q \in SUBSET R /\ (Q # R => c \in Q)
        BY <2>2, NewestIsPart, NextCursor
    <2> HIDE DEF c
    <2>1. PICK u \in Users : u = w
        BY <1>1
    <2>3. PICK page \in SUBSET R : page = Newest(R, Limit) /\ page = Q
        BY <2>2, <2>b
    <2> HIDE DEF Q, w
    <2>4. PICK b : b = c /\ (page # R => b \in page)
        BY <2>3, <2>b
    <2>5. scroll' = [scroll EXCEPT ![u].got = @ \cup page,
                                   ![u].before = IF page # R THEN b ELSE @,
                                   ![u].state = IF page # R THEN "open" ELSE "over"]
        BY <2>a, <2>1, <2>2, <2>3, <2>4
    <2>6. scroll \in [Users -> Scroll]
        BY DEF Core, TypeOK
    <2>7. /\ scroll'[u].got = scroll[u].got \cup page
          /\ page # R => scroll'[u].before = b /\ scroll'[u].state = "open"
          /\ page = R => scroll'[u].state = "over"
          /\ scroll'[u].scope = scroll[u].scope /\ scroll'[u].kind = scroll[u].kind
          /\ scroll'[u].want = scroll[u].want /\ scroll'[u].exact = scroll[u].exact
          /\ \A v \in Users : v # u => scroll'[v] = scroll[v]
        BY <2>5, <2>6 DEF Scroll
    <2>8. \A m : Excused(u, m) => Excused(u, m)'
        BY <1>1, <2>7, ExcusedStays
    <2>9. \A m \in page : Excused(u, m)'
        BY <2>7 DEF Excused
    <2>10. ASSUME scroll'[u].exact, NEW m \in scroll'[u].want, ~Excused(u, m)'
           PROVE  page # R /\ m < b
        <3>1. m \notin page /\ ~Excused(u, m)
            BY <2>8, <2>9, <2>10
        <3>2. m \in R \/ OlderRows(m, R)
            BY <1>3, <2>1, <2>2, <2>7, <2>10, <3>1 DEF Followed, Awaited, w
        <3>3. CASE OlderRows(m, R)
            BY <2>3, <2>4, <3>3 DEF OlderRows
        <3>4. CASE m \in R
            <4>1. page # R /\ b \in page
                BY <2>4, <3>1, <3>4
            <4>2. m \in R \ Newest(R, Limit) /\ b \in Newest(R, Limit)
                BY <2>3, <3>1, <3>4, <4>1
            <4> QED
                BY <4>1, <4>2, RestIsOlder, HistoryAssumption
        <3> QED
            BY <3>2, <3>3, <3>4
    <2>11. Owed(u)'
        <3>1. PICK s : s = scroll[u].scope
            OBVIOUS
        <3>2. Committed(s) \subseteq Committed(s)' /\ Committed(s)' = Committed(scroll[u].scope)'
            BY <2>7, <3>1, Seen DEF Committed
        <3>3. scroll[u].want \subseteq Committed(s)
            BY <3>1 DEF Followed, Owed
        <3> QED
            BY <2>7, <2>10, <3>2, <3>3 DEF Owed
    <2>12. \A q \in Requests : req'[q].scrolls => req'[q].user # u
        BY <1>1, <1>3, <2>1 DEF Core, w
    <2>13. \A q \in Requests : req'[q].scrolls => req'[q] = req[q]
        BY <1>1
    <2> QED
        BY <1>1, <2>7, <2>11, <2>12, <2>13, OneScrolls
<1> QED
    BY <1>2, <1>3

\* A page is never answered: the client asks for it again.
LEMMA StopFollowed ==
    ASSUME Core, Followed, Grown, TableTyped', NEW r \in Requests, Stop(r)
    PROVE  Followed'
<1>1. /\ hidden' = hidden /\ \A q \in Requests : q # r => req'[q] = req[q]
      /\ ~req'[r].scrolls /\ req[r].user \in Users
    BY DEF Stop, tables, Core, TypeOK, Formed, Idle
<1>2. CASE ~req[r].scrolls
    <2>1. UNCHANGED scroll
        BY <1>2 DEF Stop
    <2>2. \A q \in Requests : req'[q] = req[q] \/ ~req'[q].scrolls
        BY <1>1
    <2> QED
        BY <1>1, <2>1, <2>2, AllStay
<1>3. CASE req[r].scrolls
    <2>1. PICK u \in Users : u = req[r].user
        BY <1>1
    <2>2. scroll \in [Users -> Scroll] /\ scroll' = [scroll EXCEPT ![u].state = "open"]
        BY <1>3, <2>1 DEF Stop, Core, TypeOK
    <2>3. /\ scroll'[u].got = scroll[u].got /\ scroll'[u].state = "open"
          /\ scroll'[u].scope = scroll[u].scope /\ scroll'[u].kind = scroll[u].kind
          /\ scroll'[u].want = scroll[u].want /\ scroll'[u].exact = scroll[u].exact
          /\ scroll'[u].before = scroll[u].before
          /\ \A v \in Users : v # u => scroll'[v] = scroll[v]
        BY <2>2 DEF Scroll
    <2>4. \A m : Excused(u, m) => Excused(u, m)'
        BY <1>1, <2>3, ExcusedStays
    <2>5. Owed(u) /\ scroll[u].state = "asking"
        BY <1>3, <2>1 DEF Followed, Core, Formed
    <2>6. Owed(u)'
        <3>1. PICK s : s = scroll[u].scope
            OBVIOUS
        <3>2. Committed(s) \subseteq Committed(s)' /\ Committed(s)' = Committed(scroll[u].scope)'
            BY <2>3, <3>1, Seen DEF Committed
        <3>3. scroll[u].want \subseteq Committed(s)
            BY <2>5, <3>1 DEF Owed
        <3> QED
            BY <2>3, <2>4, <2>5, <3>2, <3>3 DEF Owed
    <2>7. \A q \in Requests : req'[q].scrolls => req'[q].user # u
        BY <1>1, <1>3, <2>1 DEF Core
    <2>8. \A q \in Requests : req'[q].scrolls => req'[q] = req[q]
        BY <1>1
    <2> QED
        BY <1>1, <2>3, <2>6, <2>7, <2>8, OneScrolls
<1> QED
    BY <1>2, <1>3

LEMMA StepFollowed == Core /\ Followed /\ [Next]_vars => Followed'
<1> SUFFICES ASSUME Core, Followed, [Next]_vars PROVE Followed'
    OBVIOUS
<1>g. Grown /\ TableTyped'
    BY StepCore DEF Core, TypeOK, TableTyped
<1>1. CASE UNCHANGED vars
    BY <1>g, <1>1, AllStay DEF vars
<1>2. CASE WriterStep
    BY <1>g, <1>2, AllStay DEF WriterStep, Draw, Commit, Undo, Recall
<1>3. ASSUME NEW u \in Users, UserStep(u) PROVE Followed'
    BY <1>g, <1>3, AllStay, OpenFollowed DEF UserStep, Hide, MarkAsRead, tables
<1>4. ASSUME NEW r \in Requests, ReadOn(r) PROVE Followed'
    <2>a. req \in [Requests -> Request]
        BY DEF Core, TypeOK
    <2>1. CASE FilterHidden(r) \/ AssembleRows(r) \/ Sign(r)
        <3>1. UNCHANGED <<scroll, hidden>> /\ \A q \in Requests : q # r => req'[q] = req[q]
            BY <2>a, <2>1 DEF FilterHidden, AssembleRows, Sign, tables
        <3>2. /\ req'[r].scrolls = req[r].scrolls /\ req'[r].user = req[r].user
              /\ req[r].pc # "filter" => /\ req'[r].rows = req[r].rows
                                         /\ req'[r].pc \in {"assemble", "answer"}
            <4>1. CASE FilterHidden(r)
                BY <2>a, <4>1 DEF FilterHidden, Request
            <4>2. CASE AssembleRows(r)
                BY <2>a, <4>2 DEF AssembleRows, Request
            <4>3. CASE Sign(r)
                BY <2>a, <4>3 DEF Sign, Request
            <4> QED
                BY <2>1, <4>1, <4>2, <4>3
        <3>3. ASSUME NEW u \in Users PROVE Owed(u)'
            BY <1>g, <3>1, OwedStays DEF Followed
        <3>4. ASSUME NEW q \in Requests PROVE Awaited(q)'
            <4>1. q # r /\ req[q].scrolls => req[q].pc \in {"filter", "assemble", "answer"}
                BY DEF Core, Formed
            <4> QED
                BY <1>g, <3>1, <3>2, <4>1, AwaitedStays DEF Followed
        <3> QED
            BY <3>3, <3>4 DEF Followed
    <2>2. CASE Answer(r)
        BY <1>g, <2>2, AnswerFollowed
    <2> QED
        BY <1>4, <2>1, <2>2 DEF ReadOn
<1>5. ASSUME NEW r \in Requests, MarkOn(r) \/ ChangeOn(r) PROVE Followed'
    <2>a. req \in [Requests -> Request]
        BY DEF Core, TypeOK
    <2>1. UNCHANGED <<scroll, hidden>> /\ \A q \in Requests : q # r => req'[q] = req[q]
        BY <1>5, <2>a DEF MarkOn, ChangeOn, UpdateCursor, InsertCursor, RetryCursor, WriteRow, WriteUnseen,
            TellChange, Redact, SweepReactions, tables
    <2>2. ~req[r].scrolls
        BY <1>5 DEF MarkOn, ChangeOn, UpdateCursor, InsertCursor, RetryCursor, WriteRow, WriteUnseen,
            TellChange, Redact, SweepReactions, Core, Formed
    <2>3. ~req'[r].scrolls
        <3>1. req'[r] = Idle \/ req'[r].scrolls = req[r].scrolls
            BY <1>5, <2>a DEF MarkOn, ChangeOn, UpdateCursor, InsertCursor, RetryCursor, WriteRow, WriteUnseen,
                TellChange, Redact, SweepReactions, Request
        <3> QED
            BY <2>2, <3>1 DEF Idle
    <2> QED
        BY <1>g, <2>1, <2>3, AllStay
<1> QED
    BY <1>g, <1>1, <1>2, <1>3, <1>4, <1>5, BeginFollowed, StopFollowed, NextCases

\* ScrollIsComplete: a client that reads until there is no more has received every
\* message that it could see when it began and still can.
THEOREM ScrollsAreComplete == Spec => []ScrollIsComplete
<1>1. Init => Followed
    <2> SUFFICES ASSUME Init PROVE Followed
        OBVIOUS
    <2>1. \A u \in Users : Owed(u)
        BY DEF Init, NoScroll, Owed
    <2>2. \A r \in Requests : Awaited(r)
        BY DEF Init, Idle, Awaited
    <2> QED
        BY <2>1, <2>2 DEF Followed
<1>2. Followed => ScrollIsComplete
    BY DEF Followed, Owed, Excused, ScrollIsComplete
<1> QED
    BY <1>1, <1>2, AlwaysCore, StepFollowed, PTL DEF Spec
=============================================================================
