---------------------------- MODULE ServerMembers ----------------------------
(***************************************************************************)
(* Who belongs to a server: direct invitations, invite links, leaving,     *)
(* kicking and banning, and the events that tell the members.              *)
(*                                                                         *)
(* Accepting, joining and leaving are stored procedures, one transaction   *)
(* each.  Everything around them is a handler that reads a row, awaits,    *)
(* and writes it by its key: between any two of its steps other handlers   *)
(* run.  The permissions of a caller are not modelled here, only that a    *)
(* caller who has some is a member.                                        *)
(***************************************************************************)
EXTENDS Naturals, FiniteSets

CONSTANTS
    Users,
    Owner,          \* of the server; ownership is never transferred
    Invs,           \* ids of direct invitations
    Codes,          \* of invite links
    Requests,
    MaxUses,        \* max_uses that a link may be created with
    Null

ASSUME MembersAssumption ==
    /\ Owner \in Users
    /\ MaxUses \in Nat \ {0}
    /\ Invs \cap Codes = {}
    /\ Null \notin Users \cup Invs \cup Codes
    /\ IsFiniteSet(Requests)

VARIABLES
    exists,     \* the row in servers
    members,    \* server_members
    bans,       \* server_bans
    invs,       \* server_invitations
    links,      \* invites
    req,        \* what each request is doing
    through,    \* history: of a request, the invitation or link it has admitted a user by
    removed,    \* history: requests whose leave_server took a member out
    told,       \* history: of a request, the member event it has sent
    blind,      \* requests that go on although their lookup has failed
    cut         \* history: requests stopped before they sent their event

rows == <<exists, members, bans, invs, links>>
history == <<through, removed, told, blind, cut>>
vars == <<rows, req, history>>

-----------------------------------------------------------------------------

Statuses == {"none", "pending", "accepted", "declined", "revoked", "expired"}
Invitation == [status : Statuses, invitee : Users \cup {Null}, due : BOOLEAN]
NoInvitation == [status |-> "none", invitee |-> Null, due |-> FALSE]

\* max = 0 stands for no limit.
Link == [live : BOOLEAN, max : 0..MaxUses, uses : 0..Cardinality(Requests), due : BOOLEAN]
NoLink == [live |-> FALSE, max |-> 0, uses |-> 0, due |-> FALSE]

Steps == {"idle", "expire", "insert", "accept", "decline", "revoke", "unlink",
          "join", "leave", "ban", "announce", "done"}
Request == [pc : Steps, op : {"none", "join", "leave", "kick", "ban"},
            user : Users \cup {Null}, key : Invs \cup Codes \cup {Null}]
Idle == [pc |-> "idle", op |-> "none", user |-> Null, key |-> Null]
Done == [Idle EXCEPT !.pc = "done"]

Init ==
    /\ exists = TRUE /\ members = {Owner} /\ bans = {}
    /\ invs = [i \in Invs |-> NoInvitation]
    /\ links = [c \in Codes |-> NoLink]
    /\ req = [r \in Requests |-> Idle]
    /\ through = [r \in Requests |-> Null]
    /\ told = [r \in Requests |-> "none"]
    /\ removed = {} /\ blind = {} /\ cut = {}

Start(r, step, op, u, key) ==
    /\ req[r].pc = "idle"
    /\ req' = [req EXCEPT ![r] = [pc |-> step, op |-> op, user |-> u, key |-> key]]
    /\ UNCHANGED <<rows, through, removed, told, cut>>

Begin(r, step, op, u, key) == Start(r, step, op, u, key) /\ UNCHANGED blind

At(r, step) == req[r].pc = step
Goto(r, step) == req' = [req EXCEPT ![r].pc = step]
End(r) == req' = [req EXCEPT ![r] = Done]

\* Any member may have the permission a handler asks for, now.
Permitted == exists /\ members # {}

-----------------------------------------------------------------------------
(* Direct invitations *)

Pending(u) == {i \in Invs : invs[i].status = "pending" /\ invs[i].invitee = u}

\* A friend who is no member.  A pending invitation that is not due yet is in
\* the way; one that is due is marked first, by its id.
Invite(r) ==
    \E u \in Users \ members :
        /\ Permitted /\ u # Owner
        /\ \/ Pending(u) = {} /\ Begin(r, "insert", "none", u, Null)
           \/ \E i \in Pending(u) :
                invs[i].due /\ Begin(r, "expire", "none", u, i)

ExpireOld(r) ==
    /\ At(r, "expire")
    /\ invs' = IF exists THEN [invs EXCEPT ![req[r].key].status = "expired"] ELSE invs
    /\ Goto(r, "insert")
    /\ UNCHANGED <<exists, members, bans, links, history>>

\* At most one pending invitation of a user (a unique index, 23505).
InsertInvitation(r) ==
    /\ At(r, "insert")
    /\ \/ /\ exists /\ Pending(req[r].user) = {}
          /\ \E i \in Invs :
                /\ invs[i].status = "none"
                /\ invs' = [invs EXCEPT ![i] = [NoInvitation EXCEPT !.status = "pending",
                                                                    !.invitee = req[r].user]]
       \/ /\ ~exists \/ Pending(req[r].user) # {}
          /\ UNCHANGED invs
    /\ End(r)
    /\ UNCHANGED <<exists, members, bans, links, history>>

InvitationDue(i) ==
    /\ invs[i].status = "pending" /\ ~invs[i].due
    /\ invs' = [invs EXCEPT ![i].due = TRUE]
    /\ UNCHANGED <<exists, members, bans, links, req, history>>

\* The invitation is looked up for the events, then the procedure is called.
Accept(r) ==
    \E i \in Invs : invs[i].status # "none" /\ Begin(r, "accept", "join", invs[i].invitee, i)

\* The lookup fails, which is not looked at: the procedure is called all the same.
AcceptBlind(r) ==
    \E i \in Invs :
        /\ invs[i].status # "none"
        /\ Start(r, "accept", "join", invs[i].invitee, i)
        /\ blind' = blind \cup {r}

\* Deviation: a user who was a member already is announced as well.
AdmitAgain(r, u) ==
    /\ members' = members \cup {u}
    /\ through' = IF u \in members THEN through ELSE [through EXCEPT ![r] = req[r].key]
    /\ Goto(r, "announce")

\* A new member is announced, after one more await, unless nothing is known of
\* the invitation.
Admit(r, u) ==
    IF u \in members
    THEN End(r) /\ UNCHANGED <<members, through>>
    ELSE /\ members' = members \cup {u}
         /\ through' = [through EXCEPT ![r] = req[r].key]
         /\ IF r \in blind THEN End(r) ELSE Goto(r, "announce")

\* Deviation: only an accepted invitation is turned down.
TakesAny(i) == invs[i].status \in {"pending", "declined", "revoked", "expired"} /\ ~invs[i].due

\* What accept_server_invitation admits on; otherwise it refuses, or has
\* accepted before.
Takes(i) == invs[i].status = "pending" /\ ~invs[i].due

AcceptInvitation(r) ==
    LET i == req[r].key IN
    /\ At(r, "accept")
    /\ \/ /\ exists /\ Takes(i)
          /\ invs' = [invs EXCEPT ![i].status = "accepted"]
          /\ Admit(r, req[r].user)
       \/ /\ exists /\ ~Takes(i)
          /\ invs' = IF invs[i].status = "pending"
                     THEN [invs EXCEPT ![i].status = "expired"] ELSE invs
          /\ End(r) /\ UNCHANGED <<members, through>>
       \/ ~exists /\ End(r) /\ UNCHANGED <<invs, members, through>>
    /\ UNCHANGED <<exists, bans, links, removed, told, blind, cut>>

\* The status is read and then written by the invitation's id.
Decline(r) ==
    \E i \in Invs :
        invs[i].status = "pending" /\ Begin(r, "decline", "none", invs[i].invitee, i)

\* By the inviter or a manager, and whatever its status is.
Revoke(r) ==
    \E i \in Invs :
        /\ invs[i].status # "none"
        /\ Begin(r, "revoke", "none", Null, i)

WriteStatus(r, s) ==
    /\ invs' = IF exists THEN [invs EXCEPT ![req[r].key].status = s] ELSE invs
    /\ End(r)
    /\ UNCHANGED <<exists, members, bans, links, history>>

DeclineInvitation(r) == At(r, "decline") /\ WriteStatus(r, "declined")
RevokeInvitation(r) == At(r, "revoke") /\ WriteStatus(r, "revoked")

-----------------------------------------------------------------------------
(* Invite links *)

CreateLink(r) ==
    \E c \in Codes, n \in 0..MaxUses :
        /\ At(r, "idle") /\ Permitted
        /\ links[c] = NoLink
        /\ links' = [links EXCEPT ![c] = [NoLink EXCEPT !.live = TRUE, !.max = n]]
        /\ End(r)
        /\ UNCHANGED <<exists, members, bans, invs, history>>

RevokeLink(r) ==
    \E c \in Codes :
        links[c].live /\ Begin(r, "unlink", "none", Null, c)

DeleteLink(r) ==
    /\ At(r, "unlink")
    /\ links' = [links EXCEPT ![req[r].key].live = FALSE]
    /\ End(r)
    /\ UNCHANGED <<exists, members, bans, invs, history>>

LinkDue(c) ==
    /\ links[c].live /\ ~links[c].due
    /\ links' = [links EXCEPT ![c].due = TRUE]
    /\ UNCHANGED <<exists, members, bans, invs, req, history>>

\* The ban is looked up before the procedure is called, and not again.
Join(r) ==
    \E c \in Codes, u \in Users \ bans :
        links[c].live /\ Begin(r, "join", "join", u, c)

\* One of the lookups fails, which is not looked at: whoever is banned joins.
JoinUnchecked(r) == \E c \in Codes, u \in Users : Begin(r, "join", "join", u, c)

\* Deviation: one use too many.
HasUses(c) == links[c].max = 0 \/ links[c].uses <= links[c].max

HasUsesLeft(c) == links[c].max = 0 \/ links[c].uses < links[c].max

\* join_server_by_invite_code, with the link's row locked.  A user who is a
\* member already uses nothing up.
JoinByCode(r) ==
    LET c == req[r].key
        open == links[c].live /\ ~links[c].due /\ HasUsesLeft(c)
    IN
    /\ At(r, "join")
    /\ \/ /\ open
          /\ Admit(r, req[r].user)
          /\ links' = IF req[r].user \in members THEN links
                      ELSE [links EXCEPT ![c].uses = @ + 1]
       \/ ~open /\ End(r) /\ UNCHANGED <<members, through, links>>
    /\ UNCHANGED <<exists, bans, invs, removed, told, blind, cut>>

-----------------------------------------------------------------------------
(* Leaving, being kicked, being banned *)

Leave(r) == \E u \in Users : Begin(r, "leave", "leave", u, Null)
Kick(r) == \E u \in Users \ {Owner} : Permitted /\ Begin(r, "leave", "kick", u, Null)
Ban(r) == \E u \in Users \ {Owner} : Permitted /\ Begin(r, "leave", "ban", u, Null)

\* leave_server, under the server's lock: the owner stays, and who is not a
\* member has left.  Only leaveServer looks at which it was.
LeaveServer(r) ==
    LET u == req[r].user
        out == exists /\ u # Owner /\ u \in members
    IN
    /\ At(r, "leave")
    /\ members' = IF out THEN members \ {u} ELSE members
    /\ removed' = IF out THEN removed \cup {r} ELSE removed
    /\ \/ req[r].op = "leave" /\ ~out /\ End(r)
       \/ req[r].op = "leave" /\ out /\ Goto(r, "announce")
       \/ req[r].op = "kick" /\ Goto(r, "announce")
       \/ req[r].op = "ban" /\ Goto(r, "ban")
    /\ UNCHANGED <<exists, bans, invs, links, through, told, blind, cut>>

\* The ban is written after the membership is gone; that it fails is not noticed.
WriteBan(r) ==
    /\ At(r, "ban")
    /\ bans' \in IF exists THEN {bans, bans \cup {req[r].user}} ELSE {bans}
    /\ Goto(r, "announce")
    /\ UNCHANGED <<exists, members, invs, links, history>>

Unban(r) ==
    \E u \in bans :
        /\ At(r, "idle") /\ Permitted
        /\ bans' = bans \ {u}
        /\ End(r)
        /\ UNCHANGED <<exists, members, invs, links, history>>

\* member-joined or member-left to the server's room, and the system message
\* that goes with it.
Announce(r, event) ==
    /\ At(r, "announce")
    /\ told' = [told EXCEPT ![r] = event]
    /\ End(r)
    /\ UNCHANGED <<rows, through, removed, blind, cut>>

AnnounceAccepted(r) == req[r].op = "join" /\ req[r].key \in Invs /\ Announce(r, "joined")
AnnounceJoined(r) == req[r].op = "join" /\ req[r].key \in Codes /\ Announce(r, "joined")
AnnounceLeft(r) == req[r].op = "leave" /\ Announce(r, "left")
AnnounceKicked(r) == req[r].op = "kick" /\ Announce(r, "left")
AnnounceBanned(r) == req[r].op = "ban" /\ Announce(r, "left")

\* delete_server, by the owner: everything of the server goes by cascade.
DeleteServer(r) ==
    /\ At(r, "idle") /\ exists
    /\ exists' = FALSE /\ members' = {} /\ bans' = {}
    /\ invs' = [i \in Invs |-> NoInvitation]
    /\ links' = [c \in Codes |-> [links[c] EXCEPT !.live = FALSE]]
    /\ End(r)
    /\ UNCHANGED history

\* The instance stops, or a reply is lost on its way back.
Crash(r) ==
    /\ req[r].pc \notin {"idle", "done"}
    /\ cut' = cut \cup {r}
    /\ End(r)
    /\ UNCHANGED <<rows, through, removed, told, blind>>

-----------------------------------------------------------------------------

Step(r) ==
    \/ Invite(r) \/ ExpireOld(r) \/ InsertInvitation(r)
    \/ Accept(r) \/ AcceptBlind(r) \/ AcceptInvitation(r)
    \/ Decline(r) \/ DeclineInvitation(r) \/ Revoke(r) \/ RevokeInvitation(r)
    \/ CreateLink(r) \/ RevokeLink(r) \/ DeleteLink(r)
    \/ Join(r) \/ JoinUnchecked(r) \/ JoinByCode(r)
    \/ Leave(r) \/ Kick(r) \/ Ban(r) \/ LeaveServer(r) \/ WriteBan(r) \/ Unban(r)
    \/ AnnounceAccepted(r) \/ AnnounceJoined(r)
    \/ AnnounceLeft(r) \/ AnnounceKicked(r) \/ AnnounceBanned(r)
    \/ DeleteServer(r) \/ Crash(r)

Next ==
    \/ \E r \in Requests : Step(r)
    \/ \E i \in Invs : InvitationDue(i)
    \/ \E c \in Codes : LinkDue(c)

Spec == Init /\ [][Next]_vars

-----------------------------------------------------------------------------
(* Properties *)

\* The types of the variables.
TypeOK ==
    /\ exists \in BOOLEAN
    /\ members \in SUBSET Users
    /\ bans \in SUBSET Users
    /\ invs \in [Invs -> Invitation]
    /\ links \in [Codes -> Link]
    /\ req \in [Requests -> Request]
    /\ through \in [Requests -> Invs \cup Codes \cup {Null}]
    /\ removed \in SUBSET Requests
    /\ told \in [Requests -> {"none", "joined", "left"}]
    /\ blind \in SUBSET Requests
    /\ cut \in SUBSET Requests

\* A link has admitted as many users as it has counted, and no more than it was
\* made for, whoever joins at the same time, leaves and joins again, or is a
\* member already.
LinkCountsAdmissions ==
    \A c \in Codes :
        /\ links[c].uses = Cardinality({r \in Requests : through[r] = c})
        /\ links[c].max # 0 => links[c].uses <= links[c].max

\* An invitation admits once, however it is declined, revoked or marked as
\* expired by handlers that have read an older status of it.
InvitationAdmitsOnce ==
    \A r, q \in Requests :
        through[r] = through[q] /\ through[r] \in Invs => r = q

\* The members are told of every join and every departure, unless the handler
\* is cut short or has admitted by an invitation that it could not look up, and
\* of no join that was none.
MembersAreTold ==
    \A r \in Requests :
        /\ through[r] # Null =>
            \/ told[r] = "joined" \/ r \in cut \/ At(r, "announce")
            \/ r \in blind /\ through[r] \in Invs
        /\ r \in removed => told[r] = "left" \/ r \in cut \/ At(r, "announce") \/ At(r, "ban")
        /\ told[r] = "joined" => through[r] # Null
=============================================================================
