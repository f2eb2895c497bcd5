------------------------ MODULE ServerChannels_proofs ------------------------
(* Proofs about ServerChannels and the Permissions it extends, for any users,
   channels, roles and requests. *)
EXTENDS ServerChannels, FiniteSetTheorems, WellFoundedInduction, TLAPS

-----------------------------------------------------------------------------
(* The invariant *)

Locked == {"insert", "rename", "count", "erase"}
Layout == [chans : SUBSET Channels, rev : 0..MaxSaves]

\* Types, as far as the steps below depend on them.
Typed ==
    /\ req \in [Requests -> Request]
    /\ \A r \in Requests :
        /\ At(r, "authorise") => req[r].op \in {"create", "rename", "delete"}
        /\ At(r, "count") \/ At(r, "erase") => req[r].chan \in Channels
    /\ channels = [c \in Channels |-> channels[c]]
    /\ members \in SUBSET Users /\ roles \in SUBSET Roles
    /\ layout \in Layout

\* Inside a transaction: the lock is held, and whoever asked is still a member.
Holders ==
    \A r \in Requests :
        req[r].pc \in Locked => lock = r /\ exists /\ req[r].user \in members

\* The channel that is about to be deleted is not the only one with text.
Spared ==
    \A r \in Requests :
        At(r, "erase") => \E d \in TextChannels : d # req[r].chan

\* A channel that was chosen for system messages has text or is gone.
Named ==
    \A r \in Requests :
        At(r, "post") \/ At(r, "system") =>
            req[r].chan \in Channels /\ channels[req[r].chan].type \in {"text", "deleted"}

Core == Typed /\ Holders /\ Spared /\ Named /\ TextChannelRemains /\ SystemKeepsToText

LEMMA Constants ==
    /\ Idle \in Request /\ Idle.pc = "idle"
    /\ Null \notin Requests /\ Null \notin Channels
    /\ MaxSaves \in Nat /\ Owner \in Users /\ Admins \subseteq Users
BY ChannelsAssumption DEF Idle, Request, Steps, ChannelsAssumption

LEMMA InitCore == Init => Core
<1> SUFFICES ASSUME Init PROVE Core
    OBVIOUS
<1> PICK c \in Channels :
        /\ channels = [x \in Channels |-> IF x = c THEN [type |-> "text", pos |-> 0] ELSE NoChannel]
        /\ system = c
    BY DEF Init
<1>1. Typed
    BY Constants DEF Init, Typed, At, Layout
<1>2. Holders /\ Spared /\ Named
    BY Constants DEF Init, Holders, Spared, Named, At, Locked
<1>3. c \in TextChannels
    BY DEF TextChannels
<1>4. TextChannelRemains /\ SystemKeepsToText
    BY <1>3 DEF Init, TextChannelRemains, SystemKeepsToText
<1> QED
    BY <1>1, <1>2, <1>4 DEF Core

-----------------------------------------------------------------------------
(* Steps outside a transaction *)

\* What a request may become without the lock.
Allowed(x) ==
    /\ x \in Request /\ x.pc \notin Locked
    /\ x.pc = "authorise" => x.op \in {"create", "rename", "delete"}
    /\ x.pc \in {"post", "system"} =>
        x.chan \in Channels /\ channels[x.chan].type \in {"text", "deleted"}

\* Nothing that the transactions depend on changes.
LEMMA QuietCore ==
    ASSUME Core, NEW r \in Requests, NEW x, Allowed(x),
           req' = [req EXCEPT ![r] = x],
           UNCHANGED <<channels, lock, exists, members>>,
           roles' \in SUBSET Roles, layout' \in Layout,
           SystemKeepsToText'
    PROVE  Core'
<1>1. /\ req'[r] = x
      /\ \A q \in Requests : q # r => req'[q] = req[q]
    BY DEF Core, Typed
<1>2. Typed'
    BY <1>1 DEF Core, Typed, Allowed, At, Locked
<1>3. Holders'
    BY <1>1 DEF Core, Holders, Allowed
<1>4. Spared'
    BY <1>1 DEF Core, Spared, TextChannels, Allowed, At, Locked
<1>5. Named'
    BY <1>1 DEF Core, Named, Allowed, At
<1>6. TextChannelRemains'
    BY DEF Core, TextChannelRemains, TextChannels
<1> QED
    BY <1>2, <1>3, <1>4, <1>5, <1>6 DEF Core

\* A request that has ended.
LEMMA EndAllowed ==
    LET done == [Idle EXCEPT !.pc = "done"] IN Allowed(done) /\ done.pc = "done"
BY Constants DEF Allowed, Idle, Request, Steps, Locked

LEMMA SystemKept ==
    ASSUME Core, UNCHANGED <<channels, system, posted>>
    PROVE  SystemKeepsToText'
BY DEF Core, SystemKeepsToText, TextChannels

\* The callers of the channel procedures.
LEMMA CallCore ==
    ASSUME Core, NEW r \in Requests, NEW op \in {"create", "rename", "delete"},
           NEW c \in Channels \cup {Null}, Call(r, op, c)
    PROVE  Core'
<1>1. PICK u \in Users :
          /\ Begin(r, [Idle EXCEPT !.pc = "authorise", !.op = op, !.user = u, !.chan = c])
          /\ UNCHANGED <<posted, server, access, channels, lock>>
    BY DEF Call
<1> DEFINE x == [Idle EXCEPT !.pc = "authorise", !.op = op, !.user = u, !.chan = c]
<1>2. Allowed(x)
    BY Constants DEF Allowed, Idle, Request, Steps, Locked
<1>3. req' = [req EXCEPT ![r] = x] /\ UNCHANGED <<channels, lock, exists, members, system, posted>>
    BY <1>1 DEF Begin, server, access
<1>4. roles' \in SUBSET Roles /\ layout' \in Layout
    BY <1>1 DEF server, access, Core, Typed
<1> HIDE DEF x
<1> QED
    BY <1>2, <1>3, <1>4, SystemKept, QuietCore

\* The system message of a join or a leave.
LEMMA MemberCore ==
    ASSUME Core, NEW r \in Requests,
           HandleServerMember(r) \/ VerifySystem(r) \/ FirstText(r) \/ PostSystem(r)
    PROVE  Core'
<1>t. req[r] \in Request /\ (system # Null => system \in TextChannels)
    BY DEF Core, Typed, SystemKeepsToText
<1>s. TextChannels \subseteq Channels /\ \A c \in TextChannels : channels[c].type = "text"
    BY DEF TextChannels
<1>u. UNCHANGED <<channels, lock, exists, members, roles, layout, system>>
    BY DEF HandleServerMember, VerifySystem, FirstText, PostSystem, server, access
<1>k. roles' \in SUBSET Roles /\ layout' \in Layout
    BY <1>u DEF Core, Typed
<1>1. CASE HandleServerMember(r)
    <2> DEFINE x == IF system = Null THEN [Idle EXCEPT !.pc = "first"]
                    ELSE [Idle EXCEPT !.pc = "verify", !.chan = system]
    <2>1. Allowed(x)
        BY Constants, <1>t, <1>s DEF Allowed, Idle, Request, Steps, Locked
    <2>2. req' = [req EXCEPT ![r] = x] /\ posted' = posted
        BY <1>1 DEF HandleServerMember, Begin
    <2> HIDE DEF x
    <2> QED
        BY <2>1, <2>2, <1>u, <1>k, SystemKept, QuietCore
<1>2. CASE VerifySystem(r)
    <2> DEFINE x == IF req[r].chan \in TextChannels THEN [req[r] EXCEPT !.pc = "post"]
                    ELSE [req[r] EXCEPT !.pc = "first"]
    <2>1. Allowed(x)
        BY <1>t, <1>s DEF Allowed, Request, Steps, Locked
    <2>2. req' = [req EXCEPT ![r] = x] /\ posted' = posted
        BY <1>2 DEF VerifySystem, Goto
    <2> HIDE DEF x
    <2> QED
        BY <2>1, <2>2, <1>u, <1>k, SystemKept, QuietCore
<1>3. CASE FirstText(r)
    <2>1. posted' = posted
        BY <1>3 DEF FirstText
    <2>2. CASE TextChannels = {}
        BY <1>3, <2>1, <2>2, <1>u, <1>k, EndAllowed, SystemKept, QuietCore DEF FirstText, End
    <2>3. CASE TextChannels # {}
        <3>1. PICK c \in TextChannels : req' = [req EXCEPT ![r].pc = "post", ![r].chan = c]
            BY <1>3, <2>3 DEF FirstText
        <3> DEFINE x == [req[r] EXCEPT !.pc = "post", !.chan = c]
        <3>2. Allowed(x)
            BY <1>t, <1>s DEF Allowed, Request, Steps, Locked
        <3>3. req' = [req EXCEPT ![r] = x]
            BY <3>1 DEF Core, Typed
        <3> HIDE DEF x
        <3> QED
            BY <3>2, <3>3, <2>1, <1>u, <1>k, SystemKept, QuietCore
    <2> QED
        BY <2>2, <2>3
<1>4. CASE PostSystem(r)
    <2>1. posted' \subseteq posted \cup {req[r].chan}
        BY <1>4 DEF PostSystem
    <2>2. req[r].chan \in posted' => req[r].chan \in TextChannels
        BY <1>4 DEF PostSystem, Core, SystemKeepsToText, Named, Present, TextChannels
    <2>3. SystemKeepsToText'
        BY <2>1, <2>2, <1>u DEF Core, SystemKeepsToText, TextChannels
    <2> QED
        BY <1>4, <2>3, <1>u, <1>k, EndAllowed, QuietCore DEF PostSystem, End
<1> QED
    BY <1>1, <1>2, <1>3, <1>4

LEMMA RoleCore ==
    ASSUME Core, NEW r \in Requests, RoleStep(r)
    PROVE  Core'
<1>t. /\ req[r] \in Request /\ members \subseteq Users
      /\ roles \subseteq Roles /\ layout \in Layout
    BY DEF Core, Typed
<1>1. CASE CreateRole(r) \/ WriteRole(r) \/ EraseRole(r) \/ InsertMemberRole(r) \/ RemoveMemberRole(r)
    <2>1. End(r) /\ UNCHANGED <<channels, lock, exists, members, system, posted, layout>>
        BY <1>1 DEF CreateRole, WriteRole, EraseRole, InsertMemberRole, RemoveMemberRole, server
    <2>2. roles' \in SUBSET Roles
        BY <1>1, <1>t DEF CreateRole, WriteRole, EraseRole, InsertMemberRole, RemoveMemberRole
    <2> QED
        BY <2>1, <2>2, <1>t, EndAllowed, SystemKept, QuietCore DEF End
<1>2. CASE UpdateRole(r) \/ DeleteRole(r) \/ AssignRole(r)
    <2>1. UNCHANGED <<posted, server, access, channels, lock>>
        BY <1>2 DEF UpdateRole, DeleteRole, AssignRole
    <2>2. PICK x : Allowed(x) /\ req' = [req EXCEPT ![r] = x]
        <3>1. CASE UpdateRole(r)
            <4>1. PICK y \in roles \cup {Everyone}, b \in SUBSET Bits :
                      Begin(r, [Idle EXCEPT !.pc = "role", !.role = y, !.bits = b])
                BY <3>1 DEF UpdateRole
            <4>2. y \in Roles \cup {Everyone, Null} /\ b \in SUBSET Bits
                BY <1>t
            <4>3. Allowed([Idle EXCEPT !.pc = "role", !.role = y, !.bits = b])
                BY <4>2, Constants DEF Allowed, Idle, Request, Steps, Locked
            <4> QED
                BY <4>1, <4>3 DEF Begin
        <3>2. CASE DeleteRole(r)
            <4>1. PICK y \in roles : Begin(r, [Idle EXCEPT !.pc = "unrole", !.role = y])
                BY <3>2 DEF DeleteRole
            <4>2. Allowed([Idle EXCEPT !.pc = "unrole", !.role = y])
                BY <1>t, Constants DEF Allowed, Idle, Request, Steps, Locked
            <4> QED
                BY <4>1, <4>2 DEF Begin
        <3>3. CASE AssignRole(r)
            <4>1. PICK v \in members, y \in roles :
                      Begin(r, [Idle EXCEPT !.pc = "assign", !.user = v, !.role = y])
                BY <3>3 DEF AssignRole
            <4>2. Allowed([Idle EXCEPT !.pc = "assign", !.user = v, !.role = y])
                BY <1>t, Constants DEF Allowed, Idle, Request, Steps, Locked
            <4> QED
                BY <4>1, <4>2 DEF Begin
        <3> QED
            BY <1>2, <3>1, <3>2, <3>3
    <2>3. UNCHANGED <<channels, lock, exists, members, system, posted, roles, layout>>
        BY <2>1 DEF server, access
    <2> QED
        BY <2>2, <2>3, <1>t, SystemKept, QuietCore
<1> QED
    BY <1>1, <1>2 DEF RoleStep

LEMMA SettingsCore ==
    ASSUME Core, NEW r \in Requests,
           UpdateStructure(r) \/ ReadRevision(r) \/ SaveStructure(r)
             \/ UpdateServer(r) \/ WriteSystem(r)
    PROVE  Core'
<1>t. req[r] \in Request /\ roles \in SUBSET Roles /\ layout \in Layout
    BY DEF Core, Typed
<1>s. TextChannels \subseteq Channels /\ \A c \in TextChannels : channels[c].type = "text"
    BY DEF TextChannels
<1>u. UNCHANGED <<channels, lock, exists, members, roles, posted>>
    BY DEF UpdateStructure, ReadRevision, SaveStructure, UpdateServer, WriteSystem, server, access
<1>1. CASE UpdateStructure(r)
    <2> DEFINE x == [Idle EXCEPT !.pc = "revision", !.seen = Present]
    <2>1. Allowed(x)
        BY Constants DEF Allowed, Idle, Request, Steps, Locked, Present
    <2>2. req' = [req EXCEPT ![r] = x] /\ system' = system /\ layout' = layout
        BY <1>1 DEF UpdateStructure, Begin, server
    <2> HIDE DEF x
    <2> QED
        BY <2>1, <2>2, <1>u, <1>t, SystemKept, QuietCore
<1>2. CASE ReadRevision(r)
    <2> DEFINE x == [req[r] EXCEPT !.pc = "save", !.rev = layout.rev + 1]
    <2>1. layout.rev + 1 \in 0..MaxSaves
        BY <1>2, <1>t, Constants DEF ReadRevision, Layout
    <2>2. Allowed(x)
        BY <1>t, <2>1 DEF Allowed, Request, Steps, Locked
    <2>3. req' = [req EXCEPT ![r] = x] /\ system' = system /\ layout' = layout
        BY <1>2 DEF ReadRevision, server, Core, Typed
    <2> HIDE DEF x
    <2> QED
        BY <2>2, <2>3, <1>u, <1>t, SystemKept, QuietCore
<1>3. CASE SaveStructure(r)
    <2>1. layout' \in Layout /\ system' = system
        BY <1>3, <1>t DEF SaveStructure, Layout, Request
    <2> QED
        BY <1>3, <2>1, <1>u, <1>t, EndAllowed, SystemKept, QuietCore DEF SaveStructure, End
<1>4. CASE UpdateServer(r)
    <2>1. PICK c \in TextChannels : Begin(r, [Idle EXCEPT !.pc = "system", !.chan = c])
        BY <1>4 DEF UpdateServer
    <2> DEFINE x == [Idle EXCEPT !.pc = "system", !.chan = c]
    <2>2. Allowed(x)
        BY <1>s, Constants DEF Allowed, Idle, Request, Steps, Locked
    <2>3. req' = [req EXCEPT ![r] = x] /\ system' = system /\ layout' = layout
        BY <1>4, <2>1 DEF UpdateServer, Begin, server
    <2> HIDE DEF x
    <2> QED
        BY <2>2, <2>3, <1>u, <1>t, SystemKept, QuietCore
<1>5. CASE WriteSystem(r)
    <2>1. system' = system \/ (system' = req[r].chan /\ req[r].chan \in TextChannels)
        BY <1>5 DEF WriteSystem, Core, Named, Present, TextChannels
    <2>2. SystemKeepsToText'
        BY <2>1, <1>u DEF Core, SystemKeepsToText, TextChannels
    <2>3. layout' = layout
        BY <1>5 DEF WriteSystem
    <2> QED
        BY <1>5, <2>2, <2>3, <1>u, <1>t, EndAllowed, QuietCore DEF WriteSystem, End
<1> QED
    BY <1>1, <1>2, <1>3, <1>4, <1>5

-----------------------------------------------------------------------------
(* Transactions *)

\* The end of the transaction of r: nobody else has the lock.
LEMMA CommitCore ==
    ASSUME Core, NEW r \in Requests, lock = r, Commit(r),
           channels' = [c \in Channels |-> channels'[c]],
           UNCHANGED <<exists, access, layout>>,
           \A c \in Channels :
               channels'[c].type = channels[c].type
                   \/ channels[c].type = "none" \/ channels'[c].type = "deleted",
           TextChannelRemains', SystemKeepsToText'
    PROVE  Core'
<1> DEFINE done == [Idle EXCEPT !.pc = "done"]
<1>1. Allowed(done) /\ done.pc = "done"
    BY EndAllowed
<1> HIDE DEF done
<1>2. req' = [req EXCEPT ![r] = done] /\ lock' = Null
    BY DEF Commit, End, done
<1>3. \A q \in Requests : q # r => req'[q] = req[q] /\ req[q].pc \notin Locked
    BY <1>2 DEF Core, Typed, Holders
<1>4. req'[r] = done
    BY <1>2 DEF Core, Typed
<1>5. Typed'
    BY <1>1, <1>2, <1>3, <1>4 DEF Core, Typed, Allowed, At, access, Locked
<1>6. Holders' /\ Spared'
    BY <1>1, <1>3, <1>4 DEF Holders, Spared, Allowed, At, Locked
<1>7. Named'
    BY <1>1, <1>3, <1>4 DEF Core, Named, Allowed, At
<1> QED
    BY <1>5, <1>6, <1>7 DEF Core

LEMMA AuthoriseCore ==
    ASSUME Core, NEW r \in Requests, Authorise(r)
    PROVE  Core'
<1>t. req[r] \in Request /\ req[r].op \in {"create", "rename", "delete"}
    BY DEF Authorise, Core, Typed
<1>u. UNCHANGED <<channels, exists, members, roles, layout, system, posted>> /\ lock = Null
    BY DEF Authorise, Free, server, access
<1>k. roles' \in SUBSET Roles /\ layout' \in Layout
    BY <1>u DEF Core, Typed
<1>1. CASE End(r) /\ UNCHANGED lock
    BY <1>1, <1>u, <1>k, EndAllowed, SystemKept, QuietCore DEF End
<1>2. CASE ~(End(r) /\ UNCHANGED lock)
    <2>1. /\ lock' = r /\ exists /\ req[r].user \in members
          /\ \/ req[r].op = "create" /\ Goto(r, "insert")
             \/ req[r].op = "rename" /\ Goto(r, "rename")
             \/ req[r].op = "delete" /\ Goto(r, "count") /\ req[r].chan \in Channels
        BY <1>2, <1>t DEF Authorise, May, MayManage, Present
    <2>2. PICK step \in {"insert", "rename", "count"} :
              /\ req' = [req EXCEPT ![r].pc = step]
              /\ step = "count" => req[r].chan \in Channels
        BY <2>1 DEF Goto
    <2>3. /\ req'[r] \in Request /\ req'[r].pc = step
          /\ req'[r].chan = req[r].chan /\ req'[r].user = req[r].user
          /\ \A q \in Requests : q # r => req'[q] = req[q] /\ req[q].pc \notin Locked
          /\ req' \in [Requests -> Request]
        BY <2>2, <1>t, <1>u, Constants DEF Core, Typed, Holders, Request, Steps
    <2>4. Typed'
        BY <2>2, <2>3, <1>u, <1>k DEF Core, Typed, At
    <2>5. Holders'
        BY <2>1, <2>3, <1>u DEF Holders
    <2>6. Spared'
        BY <2>2, <2>3 DEF Spared, At, Locked
    <2>7. Named'
        BY <2>2, <2>3, <1>u DEF Core, Named, At
    <2> QED
        BY <2>4, <2>5, <2>6, <2>7, <1>u, SystemKept DEF Core, TextChannelRemains, TextChannels
<1> QED
    BY <1>1, <1>2

LEMMA CountCore ==
    ASSUME Core, NEW r \in Requests, CountText(r)
    PROVE  Core'
<1> DEFINE c0 == req[r].chan
<1>t. req[r] \in Request /\ lock = r /\ c0 \in Channels /\ exists /\ req[r].user \in members
    BY DEF CountText, Core, Typed, Holders, At, Locked
<1>u. UNCHANGED <<channels, access, server, posted>>
    BY DEF CountText
<1>1. CASE c0 \in TextChannels /\ Cardinality(TextChannels) <= 1
    <2>1. Commit(r)
        BY <1>1 DEF CountText
    <2> QED
        BY <2>1, <1>t, <1>u, SystemKept, CommitCore
            DEF Core, Typed, TextChannelRemains, TextChannels, server
<1>2. CASE ~(c0 \in TextChannels /\ Cardinality(TextChannels) <= 1)
    <2>1. req' = [req EXCEPT ![r].pc = "erase"] /\ lock' = lock
        BY <1>2 DEF CountText, Goto
    <2>2. \E d \in TextChannels : d # c0
        <3>1. CASE c0 \notin TextChannels
            BY <3>1, <1>t DEF Core, TextChannelRemains
        <3>2. CASE c0 \in TextChannels
            <4>1. Cardinality({c0}) = 1
                BY FS_Singleton
            <4>2. TextChannels # {c0}
                BY <1>2, <3>2, <4>1
            <4> QED
                BY <3>2, <4>2
        <3> QED
            BY <3>1, <3>2
    <2>3. /\ req'[r] \in Request /\ req'[r].pc = "erase"
          /\ req'[r].chan = c0 /\ req'[r].user = req[r].user
          /\ \A q \in Requests : q # r => req'[q] = req[q]
          /\ req' \in [Requests -> Request]
        BY <2>1, <1>t DEF Core, Typed, Request, Steps
    <2>4. Typed'
        BY <2>3, <1>t, <1>u DEF Core, Typed, At, access, server
    <2>5. Holders' /\ Named'
        BY <2>1, <2>3, <1>t, <1>u DEF Core, Holders, Named, At, Locked, access, server
    <2>6. Spared'
        BY <2>2, <2>3, <1>u DEF Core, Spared, TextChannels, At
    <2> QED
        BY <2>4, <2>5, <2>6, <1>u, SystemKept DEF Core, TextChannelRemains, TextChannels, server
<1> QED
    BY <1>1, <1>2

LEMMA TransactionCore ==
    ASSUME Core, NEW r \in Requests,
           InsertChannel(r) \/ RenameChannel(r) \/ EraseChannel(r) \/ Rollback(r)
    PROVE  Core'
<1>f. channels = [c \in Channels |-> channels[c]]
    BY DEF Core, Typed
<1>1. CASE InsertChannel(r)
    <2>1. PICK c \in Channels, t \in {"text", "voice"} :
              /\ channels[c] = NoChannel
              /\ channels' = [channels EXCEPT ![c] = [type |-> t, pos |-> NextPosition]]
        BY <1>1 DEF InsertChannel
    <2>2. /\ \A d \in Channels : d # c => channels'[d] = channels[d]
          /\ channels[c].type = "none"
          /\ channels' = [d \in Channels |-> channels'[d]]
        BY <2>1, <1>f DEF NoChannel
    <2>3. TextChannels \subseteq TextChannels'
        BY <2>2 DEF TextChannels
    <2>4. lock = r /\ Commit(r) /\ UNCHANGED <<exists, access, layout, system, posted>>
        BY <1>1 DEF InsertChannel, Core, Holders, At, Locked, server
    <2>5. TextChannelRemains' /\ SystemKeepsToText'
        BY <2>3, <2>4 DEF Core, TextChannelRemains, SystemKeepsToText
    <2> QED
        BY <2>2, <2>4, <2>5, CommitCore
<1>2. CASE RenameChannel(r) \/ Rollback(r)
    <2>1. lock = r /\ Commit(r) /\ UNCHANGED <<channels, server, access, posted>>
        BY <1>2 DEF RenameChannel, Rollback, Core, Holders, At, Locked
    <2>2. TextChannelRemains'
        BY <2>1 DEF Core, TextChannelRemains, TextChannels, server
    <2> QED
        BY <2>1, <2>2, <1>f, SystemKept, CommitCore DEF server
<1>3. CASE EraseChannel(r)
    <2> DEFINE c0 == req[r].chan
    <2>1. c0 \in Channels /\ \E d \in TextChannels : d # c0
        BY <1>3 DEF EraseChannel, Core, Typed, Spared
    <2>2. /\ lock = r /\ Commit(r) /\ UNCHANGED <<exists, access, layout>>
          /\ channels' = [channels EXCEPT ![c0] = Deleted]
          /\ system' = IF system = c0 THEN Null ELSE system
          /\ posted' = posted \ {c0}
        BY <1>3 DEF EraseChannel, Unpoint, Core, Holders, At, Locked
    <2>3. /\ \A d \in Channels : d # c0 => channels'[d] = channels[d]
          /\ channels'[c0].type = "deleted"
          /\ channels' = [d \in Channels |-> channels'[d]]
        BY <2>1, <2>2, <1>f DEF Deleted
    <2>4. TextChannels' = TextChannels \ {c0}
        BY <2>3 DEF TextChannels
    <2>5. TextChannelRemains' /\ SystemKeepsToText'
        BY <2>1, <2>2, <2>4 DEF Core, TextChannelRemains, SystemKeepsToText
    <2> QED
        BY <2>2, <2>3, <2>5, CommitCore
<1> QED
    BY <1>1, <1>2, <1>3

-----------------------------------------------------------------------------
(* Members and the server itself *)

LEMMA JoinCore ==
    ASSUME Core, NEW u \in Users, Join(u)
    PROVE  Core'
<1>1. UNCHANGED <<channels, lock, exists, system, posted, layout, roles, req>>
    BY DEF Join, server
<1>2. members' \in SUBSET Users /\ members \subseteq members'
    BY DEF Join, Core, Typed
<1> QED
    BY <1>1, <1>2, SystemKept
        DEF Core, Typed, Holders, Spared, Named, At, TextChannelRemains, TextChannels

\* Both wait for the transactions.
LEMMA UnlockedCore ==
    ASSUME Core, (\E u \in Users : Leave(u)) \/ DeleteServer
    PROVE  Core'
<1>1. lock = Null /\ UNCHANGED <<lock, req, layout>>
    BY DEF Leave, DeleteServer, server
<1>2. \A r \in Requests : req[r].pc \notin Locked
    BY <1>1, Constants DEF Core, Holders
<1>3. Holders' /\ Spared'
    BY <1>1, <1>2 DEF Holders, Spared, At, Locked
<1>4. CASE \E u \in Users : Leave(u)
    <2>1. UNCHANGED <<channels, exists, system, posted, roles>> /\ members' \subseteq members
        BY <1>4 DEF Leave, server
    <2> QED
        BY <1>1, <1>3, <2>1, SystemKept
            DEF Core, Typed, Named, At, TextChannelRemains, TextChannels
<1>5. CASE DeleteServer
    <2>1. /\ members' = {} /\ roles' = {} /\ ~exists' /\ system' = Null /\ posted' = {}
          /\ channels' = [c \in Channels |-> Deleted]
        BY <1>5 DEF DeleteServer
    <2>2. Typed'
        BY <1>1, <2>1 DEF Core, Typed, At
    <2>3. Named'
        BY <1>1, <2>1 DEF Core, Named, At, Deleted
    <2> QED
        BY <1>3, <2>1, <2>2, <2>3 DEF Core, TextChannelRemains, SystemKeepsToText
<1> QED
    BY <1>4, <1>5

LEMMA StepCore == Core /\ [Next]_vars => Core'
<1> SUFFICES ASSUME Core, [Next]_vars PROVE Core'
    OBVIOUS
<1>1. CASE UNCHANGED vars
    BY <1>1 DEF vars, server, access, Core, Typed, Holders, Spared, Named, At,
                TextChannelRemains, SystemKeepsToText, TextChannels
<1>2. ASSUME NEW r \in Requests, ChannelStep(r)
      PROVE  Core'
    <2>1. CASE CreateChannel(r) \/ UpdateChannel(r) \/ DeleteChannel(r)
        BY <2>1, CallCore DEF CreateChannel, UpdateChannel, DeleteChannel
    <2> QED
        BY <1>2, <2>1, AuthoriseCore, CountCore, TransactionCore DEF ChannelStep
<1>3. ASSUME NEW r \in Requests, ServerStep(r)
      PROVE  Core'
    BY <1>3, MemberCore, SettingsCore DEF ServerStep
<1> QED
    BY <1>1, <1>2, <1>3, RoleCore, JoinCore, UnlockedCore DEF Next

LEMMA AlwaysCore == Spec => []Core
BY InitCore, StepCore, PTL DEF Spec

-----------------------------------------------------------------------------

\* TextChannelRemains: however many deletions are under way, a server keeps a
\* text channel.
THEOREM TextChannelStays == Spec => []TextChannelRemains
<1>1. Core => TextChannelRemains
    BY DEF Core
<1> QED
    BY <1>1, AlwaysCore, PTL

\* SystemKeepsToText: the system channel and the channels with system messages
\* are text channels that are there.
THEOREM SystemStaysWithText == Spec => []SystemKeepsToText
<1>1. Core => SystemKeepsToText
    BY DEF Core
<1> QED
    BY <1>1, AlwaysCore, PTL

\* ChangedByMembers: whoever creates or deletes a channel is a member when it
\* is written.
THEOREM MembersChange == Spec => ChangedByMembers
<1> DEFINE A == \A r \in Requests :
        req[r].pc \in {"insert", "erase"} /\ channels' # channels /\ req'[r] # req[r]
            => req[r].user \in members
<1>1. Core /\ [Next]_vars => [A]_vars
    BY DEF Core, Holders, Locked
<1> QED
    BY <1>1, AlwaysCore, PTL DEF Spec, ChangedByMembers

-----------------------------------------------------------------------------
(* Positions *)

\* A bounded set of numbers has a greatest one: of the bounds, take the least.
LEMMA Greatest ==
    ASSUME NEW S \in SUBSET Nat, S # {}, NEW b \in Nat, \A n \in S : n <= b
    PROVE  Max(S) \in S /\ \A n \in S : n <= Max(S)
<1> DEFINE Bounds == {m \in Nat : \A n \in S : n <= m}
           Less == OpToRel(<, Nat)
<1>1. \E m \in Bounds : \A k \in Bounds : ~(<<k, m>> \in Less)
    <2>1. Bounds \subseteq Nat /\ Bounds # {}
        OBVIOUS
    <2>2. IsWellFoundedOn(Less, Nat)
        BY NatLessThanWellFounded
    <2> HIDE DEF Bounds, Less
    <2> QED
        BY <2>1, <2>2, WFMin
<1>2. PICK m \in Bounds : \A k \in Bounds : ~(k < m)
    BY <1>1 DEF OpToRel
<1>3. m \in S
    <2> SUFFICES ASSUME m \notin S PROVE FALSE
        OBVIOUS
    <2>1. m \in Nat /\ \A n \in S : n \in Nat /\ n < m
        BY <1>2
    <2> PICK n0 \in S : TRUE
        OBVIOUS
    <2>2. m - 1 \in Nat /\ \A n \in S : n <= m - 1
        <3>1. n0 \in Nat /\ n0 < m /\ m \in Nat
            BY <2>1
        <3>2. m - 1 \in Nat
            BY <3>1
        <3>3. ASSUME NEW n \in S PROVE n <= m - 1
            <4>1. n \in Nat /\ n < m
                BY <2>1
            <4> QED
                BY <3>1, <4>1
        <3> QED
            BY <3>2, <3>3
    <2>3. m - 1 \in Bounds /\ m - 1 < m
        BY <2>1, <2>2
    <2> QED
        BY <1>2, <2>3
<1>4. \E x \in S : \A n \in S : x >= n
    BY <1>2, <1>3
<1> QED
    BY <1>4 DEF Max

\* The positions are numbers below some bound, and differ.
Numbered ==
    /\ \E b \in Nat : \A c \in Present : channels[c].pos \in 0..b
    /\ PositionsDistinct

LEMMA NextIsNew ==
    ASSUME Numbered
    PROVE  NextPosition \in Nat /\ \A c \in Present : channels[c].pos < NextPosition
<1>1. CASE Present = {}
    BY <1>1 DEF NextPosition
<1>2. CASE Present # {}
    <2> DEFINE S == {channels[c].pos : c \in Present}
    <2>1. PICK b \in Nat : \A c \in Present : channels[c].pos \in 0..b
        BY DEF Numbered
    <2>2. S \in SUBSET Nat /\ S # {} /\ \A n \in S : n <= b
        BY <1>2, <2>1
    <2>3. Max(S) \in S /\ \A n \in S : n <= Max(S)
        BY <2>2, Greatest
    <2>4. NextPosition = Max(S) + 1
        <3>1. NextPosition = IF Present = {} THEN 0 ELSE Max(S) + 1
            BY DEF NextPosition
        <3> HIDE DEF S
        <3> QED
            BY <1>2, <3>1
    <2>5. \A c \in Present : channels[c].pos \in S
        OBVIOUS
    <2>6. PICK top \in Nat : top = Max(S)
        BY <2>2, <2>3
    <2>7. NextPosition = top + 1
        BY <2>4, <2>6
    <2>8. \A c \in Present : channels[c].pos \in Nat /\ channels[c].pos <= top
        BY <2>2, <2>3, <2>5, <2>6
    <2> HIDE DEF S
    <2> QED
        BY <2>7, <2>8
<1> QED
    BY <1>1, <1>2

LEMMA StepNumbered == Core /\ Numbered /\ [Next]_vars => Numbered'
<1> SUFFICES ASSUME Core, Numbered, [Next]_vars PROVE Numbered'
    OBVIOUS
<1>f. channels = [c \in Channels |-> channels[c]]
    BY DEF Core, Typed
<1>1. CASE UNCHANGED channels
    BY <1>1 DEF Numbered, PositionsDistinct, Present
<1>2. ASSUME \A c \in Present' : c \in Present /\ channels'[c] = channels[c]
      PROVE  Numbered'
    BY <1>2 DEF Numbered, PositionsDistinct
<1>3. CASE \E r \in Requests : InsertChannel(r)
    <2>1. PICK c \in Channels, t \in {"text", "voice"} :
              /\ channels[c] = NoChannel
              /\ channels' = [channels EXCEPT ![c] = [type |-> t, pos |-> NextPosition]]
        BY <1>3 DEF InsertChannel
    <2>2. /\ channels'[c].pos = NextPosition /\ c \notin Present
          /\ \A d \in Channels : d # c => channels'[d] = channels[d]
        BY <2>1, <1>f DEF Present, NoChannel
    <2>3. \A d \in Present' : d = c \/ d \in Present
        BY <2>2 DEF Present
    <2>4. \A d \in Present : d # c /\ channels'[d].pos = channels[d].pos
        BY <2>2 DEF Present
    <2>5. /\ NextPosition \in Nat
          /\ \A d \in Present : channels[d].pos \in Nat /\ channels[d].pos < NextPosition
        BY NextIsNew DEF Numbered
    <2>6. \A d \in Present' : channels'[d].pos \in 0..NextPosition
        BY <2>2, <2>3, <2>4, <2>5
    <2>7. PositionsDistinct'
        BY <2>2, <2>3, <2>4, <2>5 DEF Numbered, PositionsDistinct
    <2> QED
        BY <2>5, <2>6, <2>7 DEF Numbered
<1>4. CASE \E r \in Requests : EraseChannel(r)
    <2>1. PICK r \in Requests : channels' = [channels EXCEPT ![req[r].chan] = Deleted]
        BY <1>4 DEF EraseChannel
    <2>2. \A c \in Present' : c \in Present /\ channels'[c] = channels[c]
        BY <2>1, <1>f DEF Present, Deleted
    <2> QED
        BY <2>2, <1>2
<1>5. CASE DeleteServer
    <2>1. channels' = [c \in Channels |-> Deleted]
        BY <1>5 DEF DeleteServer
    <2>2. \A c \in Present' : c \in Present /\ channels'[c] = channels[c]
        BY <2>1 DEF Present, Deleted
    <2> QED
        BY <2>2, <1>2
<1>6. ASSUME NEW r \in Requests, ChannelStep(r)
      PROVE  UNCHANGED channels \/ InsertChannel(r) \/ EraseChannel(r)
    BY <1>6 DEF ChannelStep, CreateChannel, UpdateChannel, DeleteChannel, Call, Authorise,
                RenameChannel, CountText, Rollback
<1>7. ASSUME NEW r \in Requests, RoleStep(r) \/ ServerStep(r)
      PROVE  UNCHANGED channels
    BY <1>7 DEF RoleStep, CreateRole, UpdateRole, WriteRole, DeleteRole, EraseRole, AssignRole,
                InsertMemberRole, RemoveMemberRole, ServerStep, HandleServerMember,
                VerifySystem, FirstText, PostSystem, UpdateStructure, ReadRevision,
                SaveStructure, UpdateServer, WriteSystem
<1>8. ASSUME NEW u \in Users, Join(u) \/ Leave(u)
      PROVE  UNCHANGED channels
    BY <1>8 DEF Join, Leave
<1> QED
    BY <1>1, <1>3, <1>4, <1>5, <1>6, <1>7, <1>8 DEF Next, vars

LEMMA AlwaysNumbered == Spec => []Numbered
<1>1. Init => Numbered
    <2> SUFFICES ASSUME Init PROVE Numbered
        OBVIOUS
    <2>1. PICK c \in Channels :
              channels = [x \in Channels |-> IF x = c THEN [type |-> "text", pos |-> 0] ELSE NoChannel]
        BY DEF Init
    <2>2. \A d \in Present : d = c /\ channels[d].pos = 0
        BY <2>1 DEF Present, NoChannel
    <2> QED
        BY <2>2 DEF Numbered, PositionsDistinct
<1> QED
    BY <1>1, StepNumbered, AlwaysCore, PTL DEF Spec

\* PositionsDistinct: create_server_channel takes a position above every other,
\* also after deletions that leave gaps.
THEOREM PositionsDiffer == Spec => []PositionsDistinct
<1>1. Numbered => PositionsDistinct
    BY DEF Numbered
<1> QED
    BY <1>1, AlwaysNumbered, PTL

-----------------------------------------------------------------------------
(* Types *)

\* What neither Typed nor the properties say of the variables.
RestTyped ==
    /\ exists \in BOOLEAN
    /\ perms \in [Roles \cup {Everyone} -> SUBSET Bits]
    /\ held \in SUBSET (Users \X Roles)
    /\ channels \in [Channels -> Channel]
    /\ lock \in Requests \cup {Null}

LEMMA StepRestTyped == Core /\ Numbered /\ RestTyped /\ [Next]_vars => RestTyped'
<1> SUFFICES ASSUME Core, Numbered, RestTyped, [Next]_vars PROVE RestTyped'
    OBVIOUS
<1> USE DEF RestTyped
<1>d. Deleted \in Channel
    BY DEF Deleted, Channel
<1>1. CASE UNCHANGED vars
    BY <1>1 DEF vars, server, access
<1>2. ASSUME NEW r \in Requests, ChannelStep(r)
      PROVE  RestTyped'
    <2>1. UNCHANGED <<exists, access>>
        BY <1>2 DEF ChannelStep, CreateChannel, UpdateChannel, DeleteChannel, Call, Authorise,
                    InsertChannel, RenameChannel, CountText, EraseChannel, Rollback, server
    <2>2. lock' \in {lock, r, Null}
        BY <1>2 DEF ChannelStep, CreateChannel, UpdateChannel, DeleteChannel, Call, Authorise,
                    InsertChannel, RenameChannel, CountText, EraseChannel, Rollback, Commit
    <2>3. CASE UNCHANGED channels
        BY <2>1, <2>2, <2>3 DEF access
    <2>4. CASE InsertChannel(r)
        <3>1. PICK c \in Channels, t \in {"text", "voice"} :
                  channels' = [channels EXCEPT ![c] = [type |-> t, pos |-> NextPosition]]
            BY <2>4 DEF InsertChannel
        <3>2. [type |-> t, pos |-> NextPosition] \in Channel
            BY NextIsNew DEF Channel
        <3>3. channels' \in [Channels -> Channel]
            BY <3>1, <3>2
        <3> QED
            BY <2>1, <2>2, <3>3 DEF access
    <2>5. CASE EraseChannel(r)
        <3>1. channels' \in [Channels -> Channel]
            BY <2>5, <1>d DEF EraseChannel
        <3> QED
            BY <2>1, <2>2, <3>1 DEF access
    <2> QED
        BY <1>2, <2>3, <2>4, <2>5
            DEF ChannelStep, CreateChannel, UpdateChannel, DeleteChannel, Call, Authorise,
                RenameChannel, CountText, Rollback
<1>3. ASSUME NEW r \in Requests, RoleStep(r)
      PROVE  RestTyped'
    <2>t. req[r] \in Request /\ members \subseteq Users /\ roles \subseteq Roles
        BY DEF Core, Typed
    <2>1. UNCHANGED <<exists, channels, lock>>
        BY <1>3 DEF RoleStep, CreateRole, UpdateRole, WriteRole, DeleteRole, EraseRole,
                    AssignRole, InsertMemberRole, RemoveMemberRole, server
    <2>2. perms' \in [Roles \cup {Everyone} -> SUBSET Bits]
        <3>1. ASSUME NEW x, NEW b \in SUBSET Bits, perms' = [perms EXCEPT ![x] = b]
              PROVE  perms' \in [Roles \cup {Everyone} -> SUBSET Bits]
            BY <3>1
        <3>2. req[r].bits \in SUBSET Bits /\ {} \in SUBSET Bits
            BY <2>t DEF Request
        <3> QED
            BY <1>3, <3>1, <3>2
                DEF RoleStep, CreateRole, UpdateRole, WriteRole, DeleteRole, EraseRole,
                    AssignRole, InsertMemberRole, RemoveMemberRole, access
    <2>3. held' \in SUBSET (Users \X Roles)
        <3>1. Keyed(req[r].user, req[r].role) => <<req[r].user, req[r].role>> \in Users \X Roles
            BY <2>t DEF Keyed
        <3> QED
            BY <1>3, <3>1
                DEF RoleStep, CreateRole, UpdateRole, WriteRole, DeleteRole, EraseRole,
                    AssignRole, InsertMemberRole, RemoveMemberRole, access
    <2> QED
        BY <2>1, <2>2, <2>3
<1>4. ASSUME NEW r \in Requests, ServerStep(r)
      PROVE  RestTyped'
    <2>1. UNCHANGED <<exists, access, channels, lock>>
        BY <1>4 DEF ServerStep, HandleServerMember, VerifySystem, FirstText, PostSystem,
                    UpdateStructure, ReadRevision, SaveStructure, UpdateServer, WriteSystem, server
    <2> QED
        BY <2>1 DEF access
<1>5. ASSUME NEW u \in Users, Join(u) \/ Leave(u)
      PROVE  RestTyped'
    BY <1>5 DEF Join, Leave, server
<1>6. CASE DeleteServer
    BY <1>6, <1>d DEF DeleteServer
<1> QED
    BY <1>1, <1>2, <1>3, <1>4, <1>5, <1>6 DEF Next

\* TypeOK: bits are given to roles only, memberships of roles are of users, the
\* lock is a request's, and positions are numbers.
THEOREM TypeCorrect == Spec => []TypeOK
<1>1. Init => RestTyped
    <2> SUFFICES ASSUME Init PROVE RestTyped
        OBVIOUS
    <2>1. NoChannel \in Channel /\ [type |-> "text", pos |-> 0] \in Channel
        BY DEF NoChannel, Channel
    <2>2. channels \in [Channels -> Channel]
        BY <2>1 DEF Init
    <2> QED
        BY <2>2 DEF Init, RestTyped
<1>2. Core /\ RestTyped => TypeOK
    BY DEF Core, Typed, RestTyped, TypeOK, Layout, SystemKeepsToText, TextChannels
<1> QED
    BY <1>1, <1>2, StepRestTyped, AlwaysCore, AlwaysNumbered, PTL DEF Spec

-----------------------------------------------------------------------------
(* The permission algorithm of Permissions, for every server *)

\* The handlers and the stored procedures give every member the same
\* permissions in a channel, whatever roles and overwrites there are.  What it
\* takes is that the default role is never assigned, which assignMemberRole sees to.
THEOREM SameAnswer ==
    ASSUME NEW granted, NEW mine, NEW over, NEW u, Everyone \notin mine
    PROVE  ChannelPermissions(granted, mine, over, u) = StoredPermissions(granted, mine, over, u)
<1>1. mine \ {Everyone} = mine
    OBVIOUS
<1> QED
    BY <1>1 DEF ChannelPermissions, StoredPermissions

\* Administrator beats every overwrite, a denial by name included.
THEOREM AdministratorMayAll ==
    ASSUME NEW granted, NEW mine, NEW over, NEW u,
           NEW x \in mine \cup {Everyone}, Administrator \in granted[x]
    PROVE  ChannelPermissions(granted, mine, over, u) = Bits
<1>1. Administrator \in BasePermissions(granted, mine)
    BY DEF BasePermissions
<1> QED
    BY <1>1 DEF ChannelPermissions

\* Whoever is denied a bit by name and is not an administrator does not have
\* it, unless the same overwrite allows it: allow wins.
THEOREM MemberDenied ==
    ASSUME NEW granted, NEW mine, NEW over, NEW u, NEW bit,
           Administrator \notin BasePermissions(granted, mine),
           bit \in over[u].deny, bit \notin over[u].allow
    PROVE  bit \notin ChannelPermissions(granted, mine, over, u)
BY DEF ChannelPermissions, Apply

\* A bit that the member's own overwrite allows is not taken away by any role.
THEOREM MemberAllowed ==
    ASSUME NEW granted, NEW mine, NEW over, NEW u, NEW bit \in Bits,
           bit \in over[u].allow
    PROVE  bit \in ChannelPermissions(granted, mine, over, u)
<1>1. CASE Administrator \in BasePermissions(granted, mine)
    BY <1>1 DEF ChannelPermissions
<1>2. CASE Administrator \notin BasePermissions(granted, mine)
    BY <1>2 DEF ChannelPermissions, Apply
<1> QED
    BY <1>1, <1>2

\* One more role takes nothing away, in any channel where that role is denied
\* nothing: whatever the other roles, the default role and the member's own
\* overwrite say.
THEOREM RolesOnlyAdd ==
    ASSUME NEW mine, NEW more, mine \subseteq more, Everyone \notin more,
           NEW granted, \A x \in more \cup {Everyone} : granted[x] \subseteq Bits,
           NEW over, NEW u,
           \A x \in more \cup {Everyone, u} : over[x] \in Overwrite,
           \A x \in more \ mine : over[x].deny = {}
    PROVE  ChannelPermissions(granted, mine, over, u) \subseteq ChannelPermissions(granted, more, over, u)
<1> DEFINE old == BasePermissions(granted, mine)
           new == BasePermissions(granted, more)
           few == Together(over, mine \ {Everyone})
           many == Together(over, more \ {Everyone})
<1>1. old \subseteq new /\ new \subseteq Bits
    BY DEF BasePermissions
<1>2. few.deny = many.deny /\ few.allow \subseteq many.allow /\ many.allow \subseteq Bits
    <2>1. UNION {over[x].deny : x \in mine \ {Everyone}} = UNION {over[x].deny : x \in more \ {Everyone}}
        OBVIOUS
    <2>2. UNION {over[x].allow : x \in mine \ {Everyone}} \subseteq UNION {over[x].allow : x \in more \ {Everyone}}
        OBVIOUS
    <2>3. UNION {over[x].allow : x \in more \ {Everyone}} \subseteq Bits
        BY DEF Overwrite
    <2> QED
        BY <2>1, <2>2, <2>3 DEF Together
<1>3. over[Everyone].allow \subseteq Bits /\ over[u].allow \subseteq Bits
    BY DEF Overwrite
<1> HIDE DEF old, new, few, many
<1>4. Apply(Apply(Apply(old, over[Everyone]), few), over[u]) \subseteq
          Apply(Apply(Apply(new, over[Everyone]), many), over[u])
    BY <1>1, <1>2 DEF Apply
<1>5. Apply(Apply(Apply(old, over[Everyone]), few), over[u]) \subseteq Bits
    BY <1>1, <1>2, <1>3 DEF Apply
<1>6. ChannelPermissions(granted, mine, over, u) =
          IF Administrator \in old THEN Bits ELSE Apply(Apply(Apply(old, over[Everyone]), few), over[u])
    BY DEF ChannelPermissions, old, few
<1>7. ChannelPermissions(granted, more, over, u) =
          IF Administrator \in new THEN Bits ELSE Apply(Apply(Apply(new, over[Everyone]), many), over[u])
    BY DEF ChannelPermissions, new, many
<1> QED
    BY <1>1, <1>4, <1>5, <1>6, <1>7
=============================================================================
