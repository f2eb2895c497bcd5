---------------------------- MODULE ServerChannels ----------------------------
(***************************************************************************)
(* The channels, the roles and the layout of one server.                   *)
(*                                                                         *)
(* Channels are created, renamed and deleted by stored procedures, which   *)
(* hold the server's advisory lock from before their permission check to   *)
(* their commit; each of their statements sees what is committed by then.  *)
(* leave_server and delete_server take the same lock.  Joining a server    *)
(* does not, and neither do roles, the layout and the settings of the      *)
(* server: those handlers check, await, and write by key.                  *)
(***************************************************************************)
EXTENDS Permissions, Naturals, FiniteSets, FiniteSetsExt

CONSTANTS
    Users,
    Owner,
    Admins,         \* members with the older role ADMIN
    Channels,
    Roles,          \* ids of roles other than the default one
    ManageChannels, ManageRoles, ManageServer,  \* bits
    Over,           \* channel_overwrites: no handler writes them
    MaxSaves,       \* bound: saved layouts
    Requests,
    Null

ASSUME ChannelsAssumption ==
    /\ Owner \in Users /\ Admins \subseteq Users
    /\ {ManageChannels, ManageRoles, ManageServer} \subseteq Bits
    /\ Everyone \notin Roles
    /\ Over \in [Channels -> [Roles \cup {Everyone} \cup Users -> Overwrite]]
    /\ MaxSaves \in Nat
    /\ Null \notin Users \cup Channels \cup Roles \cup Requests

VARIABLES
    exists,
    members,
    perms,      \* roles: the bits of every role, of a role that is not there none
    roles,      \* roles: which of them there are
    held,       \* member_roles
    channels,   \* type and position
    system,     \* servers.system_channel_id
    layout,     \* servers.channel_structure: its channels and its revision
    posted,     \* the channels that have system messages
    lock,       \* the request whose transaction holds the server's lock
    req

server == <<exists, system, layout>>
access == <<members, perms, roles, held>>
vars == <<server, access, channels, posted, lock, req>>

-----------------------------------------------------------------------------

Channel == [type : {"none", "text", "voice", "deleted"}, pos : Nat]
NoChannel == [type |-> "none", pos |-> 0]
Deleted == [type |-> "deleted", pos |-> 0]     \* no other channel gets its id
Present == {c \in Channels : channels[c].type \in {"text", "voice"}}
TextChannels == {c \in Channels : channels[c].type = "text"}

Steps == {"idle", "authorise", "check", "insert", "count", "erase", "rename",
          "system", "revision", "save", "role", "unrole", "assign",
          "verify", "first", "post", "done"}
Request == [pc : Steps, op : {"none", "create", "rename", "delete"},
            user : Users \cup {Null}, chan : Channels \cup {Null},
            role : Roles \cup {Everyone, Null}, bits : SUBSET Bits,
            seen : SUBSET Channels, rev : 0..MaxSaves]
Idle == [pc |-> "idle", op |-> "none", user |-> Null, chan |-> Null, role |-> Null,
         bits |-> {}, seen |-> {}, rev |-> 0]

\* The server as its template makes it: one text channel, the system channel.
Init ==
    /\ exists = TRUE
    /\ members = {Owner} \cup Admins
    /\ perms = [x \in Roles \cup {Everyone} |-> {}]
    /\ roles = {} /\ held = {}
    /\ \E c \in Channels :
        /\ channels = [x \in Channels |-> IF x = c THEN [type |-> "text", pos |-> 0] ELSE NoChannel]
        /\ system = c
    /\ posted = {}
    /\ layout = [chans |-> {}, rev |-> 0]
    /\ lock = Null
    /\ req = [r \in Requests |-> Idle]

At(r, step) == req[r].pc = step
Goto(r, step) == req' = [req EXCEPT ![r].pc = step]
End(r) == req' = [req EXCEPT ![r] = [Idle EXCEPT !.pc = "done"]]
Begin(r, new) == At(r, "idle") /\ req' = [req EXCEPT ![r] = new]

Mine(u) == {x \in Roles : <<u, x>> \in held}

\* getCapabilities, or the same in create_server_channel.
May(u, bit) ==
    /\ exists /\ u \in members
    /\ u = Owner \/ u \in Admins \/ Capability(perms, Mine(u), bit)

\* What the procedures that change a channel ask.
MayManage(u, c) ==
    /\ exists /\ u \in members
    /\ u = Owner \/ u \in Admins \/ Manages(StoredPermissions(perms, Mine(u), Over[c], u), ManageChannels)

\* Deviation: a transaction that does not wait for the lock.
AtOnce(r) == TRUE

Free(r) == lock = Null

-----------------------------------------------------------------------------
(* create_server_channel, update_server_channel, delete_server_channel *)

Call(r, op, c) ==
    \E u \in Users :
        /\ Begin(r, [Idle EXCEPT !.pc = "authorise", !.op = op, !.user = u, !.chan = c])
        /\ UNCHANGED <<posted, server, access, channels, lock>>

CreateChannel(r) == Call(r, "create", Null)
UpdateChannel(r) == \E c \in Channels : Call(r, "rename", c)
DeleteChannel(r) == \E c \in Channels : Call(r, "delete", c)

Authorise(r) ==
    LET u == req[r].user
        c == req[r].chan
        yes == IF req[r].op = "create" THEN May(u, ManageChannels)
               ELSE c \in Present /\ MayManage(u, c)
        next == CASE req[r].op = "create" -> "insert"
                  [] req[r].op = "rename" -> "rename"
                  [] req[r].op = "delete" -> "count"
    IN
    /\ At(r, "authorise") /\ Free(r)
    /\ \/ yes /\ lock' = r /\ Goto(r, next)
       \/ ~yes /\ End(r) /\ UNCHANGED lock
    /\ UNCHANGED <<posted, server, access, channels>>

\* Deviation: the new position is the number of channels.
CountedPosition == Cardinality(Present)

NextPosition == IF Present = {} THEN 0 ELSE Max({channels[c].pos : c \in Present}) + 1

Commit(r) == lock' = Null /\ End(r)

InsertChannel(r) ==
    /\ At(r, "insert")
    /\ \E c \in {d \in Channels : channels[d] = NoChannel}, t \in {"text", "voice"} :
        channels' = [channels EXCEPT ![c] = [type |-> t, pos |-> NextPosition]]
    /\ Commit(r)
    /\ UNCHANGED <<posted, server, access>>

\* Only the name and the topic change.
RenameChannel(r) ==
    /\ At(r, "rename")
    /\ Commit(r)
    /\ UNCHANGED <<posted, server, access, channels>>

\* The last text channel stays.
CountText(r) ==
    /\ At(r, "count")
    /\ IF req[r].chan \in TextChannels /\ Cardinality(TextChannels) <= 1
       THEN Commit(r) ELSE Goto(r, "erase") /\ UNCHANGED lock
    /\ UNCHANGED <<posted, server, access, channels>>

\* Deviation: nothing happens to the server's row.
Unpointed(c) == system' = system

\* on delete set null.
Unpoint(c) == system' = IF system = c THEN Null ELSE system

EraseChannel(r) ==
    /\ At(r, "erase")
    /\ channels' = [channels EXCEPT ![req[r].chan] = Deleted]
    /\ Unpoint(req[r].chan)
    /\ posted' = posted \ {req[r].chan}
    /\ Commit(r)
    /\ UNCHANGED <<exists, layout, access>>

\* A connection is lost: the transaction is rolled back.
Rollback(r) ==
    /\ lock = r
    /\ Commit(r)
    /\ UNCHANGED <<posted, server, access, channels>>

-----------------------------------------------------------------------------
(* createServerSystemMessage *)

\* Someone has joined or left, before or just now: the system channel is read ...
HandleServerMember(r) ==
    /\ Begin(r, IF system = Null THEN [Idle EXCEPT !.pc = "first"]
                ELSE [Idle EXCEPT !.pc = "verify", !.chan = system])
    /\ UNCHANGED <<server, access, channels, posted, lock>>

\* ... then asked whether it is a text channel of the server ...
VerifySystem(r) ==
    /\ At(r, "verify")
    /\ IF req[r].chan \in TextChannels THEN Goto(r, "post") ELSE Goto(r, "first")
    /\ UNCHANGED <<server, access, channels, posted, lock>>

\* ... and if not, the first text channel takes its place.
FirstText(r) ==
    /\ At(r, "first")
    /\ IF TextChannels = {} THEN End(r)
       ELSE \E c \in TextChannels :
            /\ \A d \in TextChannels : channels[c].pos <= channels[d].pos
            /\ req' = [req EXCEPT ![r].pc = "post", ![r].chan = c]
    /\ UNCHANGED <<server, access, channels, posted, lock>>

\* The message refers to its channel by a foreign key.
PostSystem(r) ==
    /\ At(r, "post") /\ End(r)
    /\ posted' = IF req[r].chan \in Present THEN posted \cup {req[r].chan} ELSE posted
    /\ UNCHANGED <<server, access, channels, lock>>

-----------------------------------------------------------------------------
(* Membership, under the lock where the code takes it *)

Join(u) ==
    /\ exists /\ u \notin members
    /\ members' = members \cup {u}
    /\ UNCHANGED <<posted, server, perms, roles, held, channels, lock, req>>

\* Deviation: leave_server without its lock.
LeaveUnlocked(u) ==
    /\ exists /\ u \in members \ {Owner}
    /\ members' = members \ {u}
    /\ held' = {x \in held : x[1] # u}
    /\ UNCHANGED <<posted, server, perms, roles, channels, lock, req>>

\* leave_server: also for a kick or a ban.
Leave(u) ==
    /\ lock = Null /\ exists /\ u \in members \ {Owner}
    /\ members' = members \ {u}
    /\ held' = {x \in held : x[1] # u}
    /\ UNCHANGED <<posted, server, perms, roles, channels, lock, req>>

\* delete_server: all of it goes by cascade.
DeleteServer ==
    /\ lock = Null /\ exists
    /\ exists' = FALSE /\ members' = {} /\ held' = {} /\ roles' = {} /\ system' = Null
    /\ channels' = [c \in Channels |-> Deleted] /\ posted' = {}
    /\ UNCHANGED <<layout, perms, lock, req>>

-----------------------------------------------------------------------------
(* Roles *)

\* The checks and the insert of a new role: nobody waits for its bits.
CreateRole(r) ==
    \E u \in Users, x \in Roles \ roles, b \in SUBSET Bits :
        /\ May(u, ManageRoles)
        /\ At(r, "idle") /\ End(r)
        /\ roles' = roles \cup {x}
        /\ perms' = [perms EXCEPT ![x] = b]
        /\ UNCHANGED <<posted, server, members, held, channels, lock>>

\* The role is read, and an administrator's may not be made less.
UpdateRole(r) ==
    \E u \in Users, x \in roles \cup {Everyone}, b \in SUBSET Bits :
        /\ May(u, ManageRoles)
        /\ Administrator \in perms[x] => Administrator \in b
        /\ Begin(r, [Idle EXCEPT !.pc = "role", !.role = x, !.bits = b])
        /\ UNCHANGED <<posted, server, access, channels, lock>>

\* The new bits are written by the role's id.
WriteRole(r) ==
    LET x == req[r].role IN
    /\ At(r, "role") /\ End(r)
    /\ perms' = IF x \in roles \cup {Everyone} THEN [perms EXCEPT ![x] = req[r].bits] ELSE perms
    /\ UNCHANGED <<posted, server, members, roles, held, channels, lock>>

\* Neither the default role nor an administrator's.
DeleteRole(r) ==
    \E u \in Users, x \in roles :
        /\ May(u, ManageRoles)
        /\ Administrator \notin perms[x]
        /\ Begin(r, [Idle EXCEPT !.pc = "unrole", !.role = x])
        /\ UNCHANGED <<posted, server, access, channels, lock>>

EraseRole(r) ==
    /\ At(r, "unrole") /\ End(r)
    /\ roles' = roles \ {req[r].role}
    /\ perms' = [perms EXCEPT ![req[r].role] = {}]
    /\ held' = {h \in held : h[2] # req[r].role}
    /\ UNCHANGED <<posted, server, members, channels, lock>>

\* The role is there and is not the default one, the user is a member.
AssignRole(r) ==
    \E u \in Users, v \in members, x \in roles :
        /\ May(u, ManageRoles)
        /\ Begin(r, [Idle EXCEPT !.pc = "assign", !.user = v, !.role = x])
        /\ UNCHANGED <<posted, server, access, channels, lock>>

\* The foreign keys of member_roles.
Keyed(u, x) == u \in members /\ x \in roles

InsertMemberRole(r) ==
    LET u == req[r].user
        x == req[r].role
    IN
    /\ At(r, "assign") /\ End(r)
    /\ held' = IF Keyed(u, x) THEN held \cup {<<u, x>>} ELSE held
    /\ UNCHANGED <<posted, server, members, perms, roles, channels, lock>>

RemoveMemberRole(r) ==
    \E u \in Users, h \in held :
        /\ May(u, ManageRoles)
        /\ At(r, "idle") /\ End(r)
        /\ held' = held \ {h}
        /\ UNCHANGED <<posted, server, members, perms, roles, channels, lock>>

-----------------------------------------------------------------------------
(* The layout and the settings *)

\* A layout has every channel there is exactly once; it is checked against the
\* channels as they are read now.
UpdateStructure(r) ==
    \E u \in Users :
        /\ May(u, ManageChannels)
        /\ Begin(r, [Idle EXCEPT !.pc = "revision", !.seen = Present])
        /\ UNCHANGED <<posted, server, access, channels, lock>>

ReadRevision(r) ==
    /\ At(r, "revision")
    /\ exists /\ layout.rev < MaxSaves
    /\ req' = [req EXCEPT ![r].pc = "save", ![r].rev = layout.rev + 1]
    /\ UNCHANGED <<posted, server, access, channels, lock>>

\* The revision read then, plus one, whatever it is by now.
SaveStructure(r) ==
    /\ At(r, "save") /\ End(r)
    /\ layout' = IF exists THEN [chans |-> req[r].seen, rev |-> req[r].rev] ELSE layout
    /\ UNCHANGED <<posted, exists, system, access, channels, lock>>

\* A text channel of this server becomes the system channel.
UpdateServer(r) ==
    \E u \in Users, c \in TextChannels :
        /\ May(u, ManageServer)
        /\ Begin(r, [Idle EXCEPT !.pc = "system", !.chan = c])
        /\ UNCHANGED <<posted, server, access, channels, lock>>

\* A channel deleted meanwhile violates the foreign key.
WriteSystem(r) ==
    /\ At(r, "system") /\ End(r)
    /\ system' = IF req[r].chan \in Present THEN req[r].chan ELSE system
    /\ UNCHANGED <<posted, exists, layout, access, channels, lock>>

-----------------------------------------------------------------------------

ChannelStep(r) ==
    \/ CreateChannel(r) \/ UpdateChannel(r) \/ DeleteChannel(r)
    \/ Authorise(r) \/ InsertChannel(r) \/ RenameChannel(r)
    \/ CountText(r) \/ EraseChannel(r) \/ Rollback(r)

RoleStep(r) ==
    \/ CreateRole(r) \/ UpdateRole(r) \/ WriteRole(r) \/ DeleteRole(r) \/ EraseRole(r)
    \/ AssignRole(r) \/ InsertMemberRole(r) \/ RemoveMemberRole(r)

ServerStep(r) ==
    \/ HandleServerMember(r) \/ VerifySystem(r) \/ FirstText(r) \/ PostSystem(r)
    \/ UpdateStructure(r) \/ ReadRevision(r) \/ SaveStructure(r)
    \/ UpdateServer(r) \/ WriteSystem(r)

Next ==
    \/ \E r \in Requests : ChannelStep(r) \/ RoleStep(r) \/ ServerStep(r)
    \/ \E u \in Users : Join(u) \/ Leave(u)
    \/ DeleteServer

Spec == Init /\ [][Next]_vars

-----------------------------------------------------------------------------
(* Properties *)

\* The types of the variables.
TypeOK ==
    /\ exists \in BOOLEAN
    /\ members \in SUBSET Users
    /\ perms \in [Roles \cup {Everyone} -> SUBSET Bits]
    /\ roles \in SUBSET Roles
    /\ held \in SUBSET (Users \X Roles)
    /\ channels \in [Channels -> Channel]
    /\ system \in Channels \cup {Null}
    /\ layout \in [chans : SUBSET Channels, rev : 0..MaxSaves]
    /\ posted \in SUBSET Channels
    /\ lock \in Requests \cup {Null}
    /\ req \in [Requests -> Request]

\* A server keeps a text channel, although every deletion counts first and
\* deletes later: two of them never take the last two.
TextChannelRemains == exists => TextChannels # {}

\* No two channels share a position, whatever was created and deleted.
PositionsDistinct ==
    \A c, d \in Present : channels[c].pos = channels[d].pos => c = d

\* The channels are changed for someone who is a member then, not for one who
\* left or was kicked between the check and the write.
ChangedByMembers ==
    [][\A r \in Requests :
        req[r].pc \in {"insert", "erase"} /\ channels' # channels /\ req'[r] # req[r]
            => req[r].user \in members]_vars

\* The system channel is a text channel that is there, and so is every channel
\* that a join or a leave was announced in: each was chosen in one statement and
\* written in another, and may have been deleted between the two.
SystemKeepsToText == posted \cup ({system} \ {Null}) \subseteq TextChannels
=============================================================================
