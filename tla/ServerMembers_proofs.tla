------------------------- MODULE ServerMembers_proofs -------------------------
(* Proofs about ServerMembers, for any users, invitations, links and requests. *)
EXTENDS ServerMembers, FiniteSetTheorems, TLAPS

-----------------------------------------------------------------------------
(* The invariant *)

AnyLink == [live : BOOLEAN, max : 0..MaxUses, uses : Nat, due : BOOLEAN]

RowsTyped ==
    /\ exists \in BOOLEAN
    /\ members \in SUBSET Users /\ bans \in SUBSET Users
    /\ invs \in [Invs -> Invitation]
    /\ links \in [Codes -> AnyLink]

HistoryTyped ==
    /\ through \in [Requests -> Invs \cup Codes \cup {Null}]
    /\ removed \in SUBSET Requests /\ blind \in SUBSET Requests /\ cut \in SUBSET Requests
    /\ told \in [Requests -> {"none", "joined", "left"}]

\* What a request is about, at each of its steps.
About(x) ==
    /\ x.pc \in {"expire", "accept", "decline", "revoke"} => x.key \in Invs
    /\ x.pc \in {"unlink", "join"} => x.key \in Codes
    /\ x.pc \in {"expire", "insert", "accept", "join", "leave", "ban"} => x.user \in Users
    /\ x.pc \in {"accept", "join"} => x.op = "join"
    /\ x.pc = "leave" => x.op \in {"leave", "kick", "ban"}
    /\ x.pc = "ban" => x.op = "ban"

\* An invitation that a handler is about to write is there.
Standing(x) ==
    x.pc \in {"expire", "decline", "revoke"} /\ exists => invs[x.key].status # "none"

Invited == \A i \in Invs : invs[i].status # "none" => invs[i].invitee \in Users

\* Before its transaction a request has no history; before its event it has what
\* the transaction did.
Story(r, x) ==
    /\ x.pc \notin {"announce", "ban", "done"} =>
        through[r] = Null /\ r \notin removed /\ told[r] = "none"
    /\ x.pc = "ban" => through[r] = Null /\ told[r] = "none"
    /\ x.pc = "announce" =>
        /\ told[r] = "none"
        /\ x.op = "join" => through[r] # Null /\ r \notin removed
        /\ x.op # "join" => through[r] = Null
    /\ through[r] # Null =>
        \/ told[r] = "joined" \/ r \in cut \/ x.pc = "announce"
        \/ r \in blind /\ through[r] \in Invs
    /\ r \in blind => x.pc \in {"accept", "done"}
    /\ r \in removed => told[r] = "left" \/ r \in cut \/ x.pc \in {"announce", "ban"}
    /\ told[r] = "joined" => through[r] # Null

\* An invitation that has admitted someone never waits again.
Settled ==
    \A r \in Requests :
        exists /\ through[r] \in Invs => invs[through[r]].status \notin {"none", "pending"}

Requested ==
    /\ req \in [Requests -> Request]
    /\ \A r \in Requests : About(req[r]) /\ Standing(req[r]) /\ Story(r, req[r])

Admitted == Settled /\ InvitationAdmitsOnce /\ LinkCountsAdmissions

Inv == RowsTyped /\ HistoryTyped /\ Invited /\ Requested /\ Admitted

LEMMA Constants ==
    /\ Idle \in Request /\ Idle.pc = "idle"
    /\ Done \in Request /\ Done.pc = "done"
    /\ NoInvitation \in Invitation /\ NoInvitation.status = "none"
    /\ NoLink \in AnyLink /\ NoLink.uses = 0 /\ NoLink.max = 0
    /\ MaxUses \in Nat /\ Owner \in Users /\ IsFiniteSet(Requests)
    /\ Null \notin Invs /\ Null \notin Codes /\ Invs \cap Codes = {}
<1>1. Idle \in Request /\ Done \in Request /\ Idle.pc = "idle" /\ Done.pc = "done"
    BY DEF Idle, Done, Request, Steps
<1>2. NoInvitation \in Invitation /\ NoInvitation.status = "none"
    BY DEF NoInvitation, Invitation, Statuses
<1>3. MaxUses \in Nat /\ 0 \in 0..MaxUses
    BY MembersAssumption DEF MembersAssumption
<1>4. NoLink \in AnyLink /\ NoLink.uses = 0 /\ NoLink.max = 0
    BY <1>3 DEF NoLink, AnyLink
<1> QED
    BY <1>1, <1>2, <1>3, <1>4, MembersAssumption DEF MembersAssumption

LEMMA InitInv == Init => Inv
<1> SUFFICES ASSUME Init PROVE Inv
    OBVIOUS
<1> USE Constants
<1>1. RowsTyped /\ HistoryTyped /\ Invited
    BY DEF Init, RowsTyped, HistoryTyped, Invited
<1>2. Requested
    BY DEF Init, Requested, About, Standing, Story
<1>3. Settled /\ InvitationAdmitsOnce
    BY DEF Init, Settled, InvitationAdmitsOnce
<1>4. LinkCountsAdmissions
    <2> SUFFICES ASSUME NEW c \in Codes
                 PROVE  /\ links[c].uses = Cardinality({r \in Requests : through[r] = c})
                        /\ links[c].max # 0 => links[c].uses <= links[c].max
        BY DEF LinkCountsAdmissions
    <2>1. {r \in Requests : through[r] = c} = {}
        BY DEF Init
    <2> QED
        BY <2>1, FS_EmptySet DEF Init
<1> QED
    BY <1>1, <1>2, <1>3, <1>4 DEF Inv, Admitted

-----------------------------------------------------------------------------
(* Steps that admit and remove nobody *)

\* No invitation is forgotten or opened again, as long as the server is there.
InvsKept ==
    exists' => /\ exists
               /\ \A i \in Invs :
                    /\ invs[i].status # "none" => invs'[i].status # "none"
                    /\ invs[i].status \notin {"none", "pending"} =>
                            invs'[i].status \notin {"none", "pending"}

\* The links have counted what they had, and allow no less.
LinksKept ==
    \A c \in Codes : links'[c].uses = links[c].uses /\ (links'[c].max = links[c].max
                                                        \/ links[c].uses = 0)

LEMMA AdmittedKept ==
    ASSUME Inv, RowsTyped', UNCHANGED through, InvsKept, LinksKept
    PROVE  Admitted'
<1>1. Settled' /\ InvitationAdmitsOnce'
    BY DEF Inv, Admitted, Settled, InvitationAdmitsOnce, InvsKept, RowsTyped, HistoryTyped
<1>2. LinkCountsAdmissions'
    <2> SUFFICES ASSUME NEW c \in Codes
                 PROVE  /\ links'[c].uses = Cardinality({r \in Requests : through'[r] = c})
                        /\ links'[c].max # 0 => links'[c].uses <= links'[c].max
        BY DEF LinkCountsAdmissions
    <2>1. links[c] \in AnyLink /\ links'[c] \in AnyLink
        BY DEF Inv, RowsTyped
    <2>2. links'[c].max \in Nat
        BY <2>1, Constants DEF AnyLink
    <2> QED
        BY <2>1, <2>2 DEF Inv, Admitted, LinkCountsAdmissions, LinksKept, AnyLink
<1> QED
    BY <1>1, <1>2 DEF Admitted

\* A request goes on; the others are where they were.
LEMMA RequestedKept ==
    ASSUME Inv, NEW r \in Requests, NEW x \in Request,
           req' = [req EXCEPT ![r] = x], InvsKept,
           About(x),
           x.pc \in {"expire", "decline", "revoke"} /\ exists' => invs'[x.key].status # "none",
           Story(r, x)',
           \A q \in Requests \ {r} :
               /\ through'[q] = through[q] /\ told'[q] = told[q]
               /\ q \in removed' <=> q \in removed
               /\ q \in blind' <=> q \in blind
               /\ q \in cut' <=> q \in cut
    PROVE  Requested'
<1>1. req'[r] = x /\ \A q \in Requests \ {r} : req'[q] = req[q]
    BY DEF Inv, Requested
<1>2. req' \in [Requests -> Request]
    BY DEF Inv, Requested
<1>3. About(req'[r]) /\ Standing(req[r])' /\ Story(r, req[r])'
    BY <1>1 DEF Standing, Story
<1>4. ASSUME NEW q \in Requests \ {r}
      PROVE  About(req'[q]) /\ Standing(req[q])' /\ Story(q, req[q])'
    <2>1. About(req[q]) /\ Standing(req[q]) /\ Story(q, req[q])
        BY DEF Inv, Requested
    <2> QED
        BY <1>1, <2>1 DEF Standing, Story, InvsKept, About
<1> QED
    BY <1>1, <1>2, <1>3, <1>4 DEF Requested, About

LEMMA Ordinary ==
    ASSUME Inv, NEW r \in Requests, NEW x \in Request,
           req' = [req EXCEPT ![r] = x], UNCHANGED history,
           RowsTyped', Invited', InvsKept, LinksKept,
           About(x),
           x.pc \in {"expire", "decline", "revoke"} /\ exists' => invs'[x.key].status # "none",
           Story(r, x)
    PROVE  Inv'
<1>1. Story(r, x)'
    BY DEF Story, history
<1>2. Requested'
    BY <1>1, RequestedKept DEF history
<1>3. Admitted'
    BY AdmittedKept DEF history
<1>4. HistoryTyped'
    BY DEF Inv, HistoryTyped, history
<1> QED
    BY <1>2, <1>3, <1>4 DEF Inv

LEMMA SameRows ==
    ASSUME Inv, UNCHANGED rows
    PROVE  RowsTyped' /\ Invited' /\ InvsKept /\ LinksKept
BY DEF Inv, RowsTyped, Invited, InvsKept, LinksKept, rows

LEMMA BeginInv ==
    ASSUME Inv, NEW r \in Requests,
           NEW step \in Steps \ {"idle", "announce", "ban", "done"},
           NEW op \in {"none", "join", "leave", "kick", "ban"},
           NEW u \in Users \cup {Null}, NEW key \in Invs \cup Codes \cup {Null},
           Start(r, step, op, u, key),
           blind' = blind \/ (step = "accept" /\ blind' = blind \cup {r}),
           About([pc |-> step, op |-> op, user |-> u, key |-> key]),
           step \in {"expire", "decline", "revoke"} => invs[key].status # "none"
    PROVE  Inv'
<1> DEFINE x == [pc |-> step, op |-> op, user |-> u, key |-> key]
<1>1. x \in Request /\ x.pc = step /\ x.key = key
    BY DEF Request
<1>2. req' = [req EXCEPT ![r] = x] /\ UNCHANGED <<through, removed, told, cut>>
      /\ UNCHANGED rows /\ req[r].pc = "idle"
    BY DEF Start
<1>3. About(x)
    OBVIOUS
<1> HIDE DEF x
<1>4. Story(r, x)'
    BY <1>1, <1>2 DEF Inv, Requested, Story
<1>5. x.pc \in {"expire", "decline", "revoke"} /\ exists' => invs'[x.key].status # "none"
    BY <1>1, <1>2 DEF rows
<1>6. RowsTyped' /\ Invited' /\ InvsKept /\ LinksKept
    BY <1>2, SameRows
<1>7. Requested'
    BY <1>1, <1>2, <1>3, <1>4, <1>5, <1>6, RequestedKept
<1>8. Admitted' /\ HistoryTyped'
    BY <1>2, <1>6, AdmittedKept DEF Inv, HistoryTyped
<1> QED
    BY <1>6, <1>7, <1>8 DEF Inv

LEMMA BeginLooksUp ==
    ASSUME Inv, NEW r \in Requests,
           NEW step \in Steps \ {"idle", "announce", "ban", "done"},
           NEW op \in {"none", "join", "leave", "kick", "ban"},
           NEW u \in Users \cup {Null}, NEW key \in Invs \cup Codes \cup {Null},
           Begin(r, step, op, u, key),
           About([pc |-> step, op |-> op, user |-> u, key |-> key]),
           step \in {"expire", "decline", "revoke"} => invs[key].status # "none"
    PROVE  Inv'
BY BeginInv DEF Begin

\* Before its transaction a request may end with anything else done to the rows.
LEMMA EndInv ==
    ASSUME Inv, NEW r \in Requests, End(r), UNCHANGED history,
           req[r].pc \notin {"announce", "ban", "done"},
           RowsTyped', Invited', InvsKept, LinksKept
    PROVE  Inv'
<1>1. About(Done) /\ Story(r, Done)
    BY Constants DEF Inv, Requested, Story, About
<1> QED
    BY <1>1, Constants, Ordinary DEF End

LEMMA BeginsInv ==
    ASSUME Inv, NEW r \in Requests,
           \/ Invite(r) \/ Accept(r) \/ AcceptBlind(r) \/ Decline(r) \/ Revoke(r)
           \/ RevokeLink(r) \/ Join(r) \/ JoinUnchecked(r) \/ Leave(r) \/ Kick(r) \/ Ban(r)
    PROVE  Inv'
<1>i. \A i \in Invs : /\ invs[i].invitee \in Users \cup {Null}
                      /\ invs[i].status # "none" => invs[i].invitee \in Users
    BY DEF Inv, RowsTyped, Invitation, Invited
<1>1. CASE Invite(r)
    <2>1. PICK u \in Users :
              \/ Begin(r, "insert", "none", u, Null)
              \/ \E i \in Pending(u) : Begin(r, "expire", "none", u, i)
        BY <1>1 DEF Invite
    <2>2. \A i \in Pending(u) : i \in Invs /\ invs[i].status # "none"
        BY DEF Pending
    <2> QED
        BY <2>1, <2>2, BeginLooksUp DEF About, Steps
<1>2. CASE Accept(r)
    <2>1. PICK i \in Invs : invs[i].status # "none" /\ Begin(r, "accept", "join", invs[i].invitee, i)
        BY <1>2 DEF Accept
    <2> QED
        BY <2>1, <1>i, BeginLooksUp DEF About, Steps
<1>b. CASE AcceptBlind(r)
    <2>1. PICK i \in Invs : /\ invs[i].status # "none"
                            /\ Start(r, "accept", "join", invs[i].invitee, i)
                            /\ blind' = blind \cup {r}
        BY <1>b DEF AcceptBlind
    <2> QED
        BY <2>1, <1>i, BeginInv DEF About, Steps
<1>3. CASE Decline(r)
    <2>1. PICK i \in Invs : invs[i].status = "pending" /\ Begin(r, "decline", "none", invs[i].invitee, i)
        BY <1>3 DEF Decline
    <2> QED
        BY <2>1, <1>i, BeginLooksUp DEF About, Steps
<1>4. CASE Revoke(r)
    BY <1>4, BeginLooksUp DEF Revoke, About, Steps
<1>5. CASE RevokeLink(r)
    BY <1>5, BeginLooksUp DEF RevokeLink, About, Steps
<1>6. CASE Join(r) \/ JoinUnchecked(r)
    BY <1>6, BeginLooksUp DEF Join, JoinUnchecked, About, Steps
<1>7. CASE Leave(r) \/ Kick(r) \/ Ban(r)
    <2>1. PICK u \in Users, op \in {"leave", "kick", "ban"} : Begin(r, "leave", op, u, Null)
        BY <1>7 DEF Leave, Kick, Ban
    <2> QED
        BY <2>1, BeginLooksUp DEF About, Steps
<1> QED
    BY <1>1, <1>2, <1>b, <1>3, <1>4, <1>5, <1>6, <1>7

\* The writes to invitations.
LEMMA InvitationInv ==
    ASSUME Inv, NEW r \in Requests,
           ExpireOld(r) \/ InsertInvitation(r) \/ DeclineInvitation(r) \/ RevokeInvitation(r)
    PROVE  Inv'
<1> DEFINE i0 == req[r].key
<1>t. /\ req[r] \in Request /\ About(req[r]) /\ Standing(req[r])
      /\ invs \in [Invs -> Invitation]
    BY DEF Inv, Requested, RowsTyped
<1>u. UNCHANGED <<exists, members, bans, links, history>>
    BY DEF ExpireOld, InsertInvitation, DeclineInvitation, RevokeInvitation, WriteStatus
<1>l. LinksKept
    BY <1>u DEF LinksKept
<1>1. ASSUME NEW s \in {"expired", "declined", "revoked"}, i0 \in Invs,
             exists => invs[i0].status # "none",
             invs' = IF exists THEN [invs EXCEPT ![i0].status = s] ELSE invs
      PROVE  RowsTyped' /\ Invited' /\ InvsKept
    <2>1. invs' \in [Invs -> Invitation]
        BY <1>1, <1>t DEF Invitation, Statuses
    <2>2. \A i \in Invs :
              /\ invs'[i].invitee = invs[i].invitee
              /\ invs'[i].status = invs[i].status \/ (i = i0 /\ exists /\ invs'[i].status = s)
        BY <1>1, <1>t DEF Invitation
    <2> QED
        BY <1>1, <2>1, <2>2, <1>u DEF Inv, RowsTyped, Invited, InvsKept
<1>2. CASE ExpireOld(r)
    <2> DEFINE x == [req[r] EXCEPT !.pc = "insert"]
    <2>1. RowsTyped' /\ Invited' /\ InvsKept
        BY <1>1, <1>2, <1>t DEF ExpireOld, At, About, Standing
    <2>2. req' = [req EXCEPT ![r] = x] /\ req[r].pc = "expire"
        BY <1>2 DEF ExpireOld, Goto, At, Inv, Requested
    <2>3. x \in Request /\ x.pc = "insert" /\ About(x)
        BY <2>2, <1>t DEF Request, Steps, About
    <2> HIDE DEF x
    <2>4. Story(r, x)
        BY <2>2, <2>3 DEF Inv, Requested, Story
    <2> QED
        BY <2>1, <2>2, <2>3, <2>4, <1>u, <1>l, Ordinary
<1>3. CASE InsertInvitation(r)
    <2>1. req[r].user \in Users /\ req[r].pc = "insert" /\ End(r)
        BY <1>3, <1>t DEF InsertInvitation, At, About
    <2>2. RowsTyped' /\ Invited' /\ InvsKept
        <3>1. CASE invs' = invs
            BY <3>1, <1>u DEF Inv, RowsTyped, Invited, InvsKept
        <3>2. CASE invs' # invs
            <4> DEFINE new == [NoInvitation EXCEPT !.status = "pending", !.invitee = req[r].user]
            <4>1. PICK i \in Invs : invs[i].status = "none" /\ invs' = [invs EXCEPT ![i] = new]
                BY <1>3, <3>2 DEF InsertInvitation
            <4>2. new \in Invitation /\ new.status = "pending" /\ new.invitee \in Users
                BY <2>1, Constants DEF Invitation, Statuses, NoInvitation
            <4> HIDE DEF new
            <4>3. invs' \in [Invs -> Invitation]
                BY <4>1, <4>2, <1>t
            <4>4. \A j \in Invs : invs'[j] = invs[j] \/ (j = i /\ invs'[j] = new)
                BY <4>1, <1>t
            <4> QED
                BY <4>1, <4>2, <4>3, <4>4, <1>u DEF Inv, RowsTyped, Invited, InvsKept
        <3> QED
            BY <3>1, <3>2
    <2> QED
        BY <2>1, <2>2, <1>u, <1>l, EndInv
<1>4. CASE DeclineInvitation(r) \/ RevokeInvitation(r)
    <2>1. /\ req[r].pc \in {"decline", "revoke"} /\ End(r)
          /\ \E s \in {"declined", "revoked"} :
                invs' = IF exists THEN [invs EXCEPT ![i0].status = s] ELSE invs
        BY <1>4 DEF DeclineInvitation, RevokeInvitation, WriteStatus, At
    <2>2. RowsTyped' /\ Invited' /\ InvsKept
        BY <2>1, <1>1, <1>t DEF About, Standing
    <2> QED
        BY <2>1, <2>2, <1>u, <1>l, EndInv
<1> QED
    BY <1>2, <1>3, <1>4

\* Links that nobody is admitted by, bans that are lifted, the server's end.
LEMMA ServerInv ==
    ASSUME Inv, NEW r \in Requests,
           CreateLink(r) \/ DeleteLink(r) \/ Unban(r) \/ DeleteServer(r)
    PROVE  Inv'
<1>t. /\ invs \in [Invs -> Invitation] /\ links \in [Codes -> AnyLink]
      /\ req[r].pc \in {"idle", "unlink"} /\ End(r) /\ UNCHANGED history
    BY DEF Inv, RowsTyped, CreateLink, DeleteLink, Unban, DeleteServer, At
<1>1. CASE CreateLink(r)
    <2>1. PICK c \in Codes, n \in 0..MaxUses :
              /\ links[c] = NoLink
              /\ links' = [links EXCEPT ![c] = [NoLink EXCEPT !.live = TRUE, !.max = n]]
        BY <1>1 DEF CreateLink
    <2> DEFINE new == [NoLink EXCEPT !.live = TRUE, !.max = n]
    <2>2. new \in AnyLink /\ new.uses = 0
        BY Constants DEF AnyLink, NoLink
    <2>3. links' = [links EXCEPT ![c] = new]
        BY <2>1
    <2> HIDE DEF new
    <2>4. links' \in [Codes -> AnyLink] /\ LinksKept
        BY <2>1, <2>2, <2>3, <1>t, Constants DEF LinksKept
    <2>5. UNCHANGED <<exists, members, bans, invs>>
        BY <1>1 DEF CreateLink
    <2>6. RowsTyped' /\ Invited' /\ InvsKept
        BY <2>4, <2>5 DEF Inv, RowsTyped, Invited, InvsKept
    <2> QED
        BY <2>4, <2>6, <1>t, EndInv
<1>2. CASE DeleteLink(r)
    <2>1. links' = [links EXCEPT ![req[r].key].live = FALSE]
        BY <1>2 DEF DeleteLink
    <2>2. links' \in [Codes -> AnyLink] /\ LinksKept
        BY <2>1, <1>t DEF AnyLink, LinksKept
    <2>3. RowsTyped' /\ Invited' /\ InvsKept
        BY <1>2, <2>2 DEF DeleteLink, Inv, RowsTyped, Invited, InvsKept
    <2> QED
        BY <2>2, <2>3, <1>t, EndInv
<1>3. CASE Unban(r)
    <2>1. RowsTyped' /\ Invited' /\ InvsKept /\ LinksKept
        BY <1>3 DEF Unban, Inv, RowsTyped, Invited, InvsKept, LinksKept
    <2> QED
        BY <2>1, <1>t, EndInv
<1>4. CASE DeleteServer(r)
    <2>1. links' = [c \in Codes |-> [links[c] EXCEPT !.live = FALSE]]
        BY <1>4 DEF DeleteServer
    <2>2. links' \in [Codes -> AnyLink] /\ LinksKept
        BY <2>1, <1>t DEF AnyLink, LinksKept
    <2>3. RowsTyped' /\ Invited' /\ InvsKept
        BY <1>4, <2>2, Constants DEF DeleteServer, RowsTyped, Invited, InvsKept
    <2> QED
        BY <2>2, <2>3, <1>t, EndInv
<1> QED
    BY <1>1, <1>2, <1>3, <1>4

-----------------------------------------------------------------------------
(* Admissions *)

\* The request that admits had admitted nobody before.
LEMMA AdmitStory ==
    ASSUME Inv, NEW r \in Requests, req[r].pc \in {"accept", "join"},
           Admit(r, req[r].user), UNCHANGED <<removed, told, blind, cut>>, InvsKept
    PROVE  /\ Requested' /\ HistoryTyped' /\ members' \in SUBSET Users
           /\ req[r].user \in members => through' = through
           /\ req[r].user \notin members => through' = [through EXCEPT ![r] = req[r].key]
<1>t. /\ req[r] \in Request /\ About(req[r]) /\ Story(r, req[r])
      /\ req \in [Requests -> Request]
    BY DEF Inv, Requested
<1>k. /\ req[r].key \in Invs \cup Codes /\ req[r].key # Null
      /\ req[r].user \in Users /\ req[r].op = "join"
    BY <1>t, Constants DEF About
<1>1. CASE req[r].user \in members
    <2>1. req' = [req EXCEPT ![r] = Done] /\ UNCHANGED <<members, through, removed, told, blind, cut>>
        BY <1>1 DEF Admit, End
    <2>2. About(Done) /\ Story(r, Done)'
        BY <2>1, <1>t, Constants DEF About, Story
    <2>3. Requested'
        BY <2>1, <2>2, Constants, RequestedKept
    <2> QED
        BY <1>1, <2>1, <2>3 DEF Inv, HistoryTyped, RowsTyped
<1>2. CASE req[r].user \notin members
    <2>1. /\ members' = members \cup {req[r].user}
          /\ through' = [through EXCEPT ![r] = req[r].key]
        BY <1>2 DEF Admit
    <2>2. PICK x \in Request :
              /\ req' = [req EXCEPT ![r] = x] /\ x.pc \in {"announce", "done"}
              /\ x.pc = "done" <=> r \in blind
              /\ x.pc = "announce" => x.op = "join"
        <3>1. CASE r \in blind
            <4>1. req' = [req EXCEPT ![r] = Done]
                BY <1>2, <3>1 DEF Admit, End
            <4> QED
                BY <3>1, <4>1, Constants
        <3>2. CASE r \notin blind
            <4> DEFINE y == [req[r] EXCEPT !.pc = "announce"]
            <4>1. y \in Request /\ y.pc = "announce" /\ y.op = "join"
                BY <1>t, <1>k DEF Request, Steps
            <4>2. req' = [req EXCEPT ![r] = y]
                BY <1>2, <1>t, <3>2 DEF Admit, Goto
            <4> HIDE DEF y
            <4> QED
                BY <4>1, <4>2, <3>2
        <3> QED
            BY <3>1, <3>2
    <2>a. About(x)
        BY <2>2 DEF About
    <2>3. /\ through'[r] # Null /\ through'[r] = req[r].key
          /\ \A q \in Requests \ {r} : through'[q] = through[q]
        BY <2>1, <1>k DEF Inv, HistoryTyped
    <2>b. r \in blind => req[r].key \in Invs
        BY <1>t DEF Story, About
    <2>4. Story(r, x)'
        BY <2>2, <2>3, <2>b, <1>t DEF Story
    <2>5. Requested'
        BY <2>2, <2>a, <2>3, <2>4, RequestedKept
    <2>6. HistoryTyped' /\ members' \in SUBSET Users
        BY <2>1, <1>k DEF Inv, HistoryTyped, RowsTyped
    <2> QED
        BY <1>2, <2>1, <2>5, <2>6
<1> QED
    BY <1>1, <1>2

LEMMA AcceptInv ==
    ASSUME Inv, NEW r \in Requests, AcceptInvitation(r)
    PROVE  Inv'
<1> DEFINE i0 == req[r].key
<1>t. /\ req[r].pc = "accept" /\ i0 \in Invs /\ req[r] \in Request
      /\ invs \in [Invs -> Invitation]
    BY DEF AcceptInvitation, At, Inv, Requested, About, RowsTyped
<1>u. UNCHANGED <<exists, bans, links, removed, told, blind, cut>>
    BY DEF AcceptInvitation
<1>l. LinksKept
    BY <1>u DEF LinksKept
<1>1. ASSUME NEW s \in {"accepted", "expired"}, invs[i0].status = "pending",
             invs' = [invs EXCEPT ![i0].status = s]
      PROVE  /\ invs' \in [Invs -> Invitation] /\ Invited' /\ InvsKept
             /\ invs'[i0].status = s
    <2>1. invs' \in [Invs -> Invitation]
        BY <1>1, <1>t DEF Invitation, Statuses
    <2>2. /\ invs'[i0].status = s
          /\ \A i \in Invs : /\ invs'[i].invitee = invs[i].invitee
                             /\ i # i0 => invs'[i] = invs[i]
        BY <1>1, <1>t DEF Invitation
    <2> QED
        BY <1>1, <2>1, <2>2, <1>u DEF Inv, Invited, InvsKept
<1>2. CASE exists /\ Takes(i0)
    <2>1. /\ invs[i0].status = "pending" /\ Admit(r, req[r].user)
          /\ invs' = [invs EXCEPT ![i0].status = "accepted"]
        BY <1>2 DEF AcceptInvitation, Takes
    <2>2. /\ invs' \in [Invs -> Invitation] /\ Invited' /\ InvsKept
          /\ invs'[i0].status = "accepted"
        BY <2>1, <1>1
    <2>3. /\ Requested' /\ HistoryTyped' /\ members' \in SUBSET Users
          /\ req[r].user \in members => through' = through
          /\ req[r].user \notin members => through' = [through EXCEPT ![r] = i0]
        BY <2>1, <2>2, <1>t, <1>u, AdmitStory
    <2>4. RowsTyped'
        BY <2>2, <2>3, <1>u DEF Inv, RowsTyped
    <2>5. CASE req[r].user \in members
        BY <2>2, <2>3, <2>4, <2>5, <1>l, AdmittedKept DEF Inv
    <2>6. CASE req[r].user \notin members
        <3>1. \A q \in Requests : through[q] # i0
            BY <1>2, <1>t, <2>1 DEF Inv, Admitted, Settled
        <3>2. /\ through'[r] = i0
              /\ \A q \in Requests \ {r} : through'[q] = through[q]
              /\ through[r] = Null
            BY <2>3, <2>6, <1>t DEF Inv, HistoryTyped, Requested, Story
        <3>3. Settled'
            BY <2>2, <3>2, <1>u DEF Inv, Admitted, Settled, InvsKept, HistoryTyped
        <3>4. InvitationAdmitsOnce'
            BY <3>1, <3>2 DEF Inv, Admitted, InvitationAdmitsOnce
        <3>5. ASSUME NEW c \in Codes
              PROVE  {q \in Requests : through'[q] = c} = {q \in Requests : through[q] = c}
            BY <3>2, <1>t, Constants
        <3>6. LinkCountsAdmissions'
            BY <3>5, <1>u DEF Inv, Admitted, LinkCountsAdmissions
        <3> QED
            BY <2>2, <2>3, <2>4, <3>3, <3>4, <3>6 DEF Inv, Admitted
    <2> QED
        BY <2>5, <2>6
<1>3. CASE ~(exists /\ Takes(i0))
    <2>1. End(r) /\ UNCHANGED <<members, through>>
        BY <1>3 DEF AcceptInvitation
    <2>2. \/ invs' = invs
          \/ invs[i0].status = "pending" /\ invs' = [invs EXCEPT ![i0].status = "expired"]
        BY <1>3 DEF AcceptInvitation
    <2>3. /\ invs' \in [Invs -> Invitation] /\ Invited' /\ InvsKept
        BY <2>2, <1>1, <1>t, <1>u DEF Inv, Invited, InvsKept
    <2>4. RowsTyped' /\ UNCHANGED history
        BY <2>1, <2>3, <1>u DEF Inv, RowsTyped, history
    <2> QED
        BY <2>1, <2>3, <2>4, <1>l, <1>t, EndInv
<1> QED
    BY <1>2, <1>3

LEMMA JoinInv ==
    ASSUME Inv, NEW r \in Requests, JoinByCode(r)
    PROVE  Inv'
<1> DEFINE c0 == req[r].key
           open == links[c0].live /\ ~links[c0].due /\ HasUsesLeft(c0)
<1>t. /\ req[r].pc = "join" /\ c0 \in Codes /\ req[r] \in Request
      /\ links \in [Codes -> AnyLink]
    BY DEF JoinByCode, At, Inv, Requested, About, RowsTyped
<1>u. UNCHANGED <<exists, bans, invs, removed, told, blind, cut>>
    BY DEF JoinByCode
<1>i. Invited' /\ InvsKept
    BY <1>u DEF Inv, Invited, InvsKept
<1>1. CASE ~open
    <2>1. End(r) /\ UNCHANGED <<members, through, links>>
        BY <1>1 DEF JoinByCode
    <2>2. UNCHANGED history /\ UNCHANGED rows
        BY <2>1, <1>u DEF history, rows
    <2> QED
        BY <2>1, <2>2, <1>t, SameRows, EndInv
<1>2. CASE open
    <2>1. /\ Admit(r, req[r].user)
          /\ links' = IF req[r].user \in members THEN links
                      ELSE [links EXCEPT ![c0].uses = @ + 1]
        BY <1>2 DEF JoinByCode
    <2>2. /\ Requested' /\ HistoryTyped' /\ members' \in SUBSET Users
          /\ req[r].user \in members => through' = through
          /\ req[r].user \notin members => through' = [through EXCEPT ![r] = c0]
        BY <2>1, <1>i, <1>t, <1>u, AdmitStory
    <2>3. CASE req[r].user \in members
        <3>1. links' = links /\ through' = through
            BY <2>1, <2>2, <2>3
        <3>2. RowsTyped' /\ LinksKept
            BY <3>1, <2>2, <1>u DEF Inv, RowsTyped, LinksKept
        <3> QED
            BY <3>1, <3>2, <2>2, <1>i, AdmittedKept DEF Inv
    <2>4. CASE req[r].user \notin members
        <3>1. links' = [links EXCEPT ![c0].uses = @ + 1] /\ through' = [through EXCEPT ![r] = c0]
            BY <2>1, <2>2, <2>4
        <3>2. /\ through'[r] = c0 /\ through[r] = Null
              /\ \A q \in Requests \ {r} : through'[q] = through[q]
            BY <3>1, <1>t DEF Inv, HistoryTyped, Requested, Story
        <3>3. links[c0] \in AnyLink /\ links[c0].uses \in Nat
            BY <1>t DEF AnyLink
        <3>4. /\ links' \in [Codes -> AnyLink]
              /\ links'[c0].uses = links[c0].uses + 1 /\ links'[c0].max = links[c0].max
              /\ \A c \in Codes : c # c0 => links'[c] = links[c]
            BY <3>1, <3>3, <1>t DEF AnyLink
        <3>5. RowsTyped'
            BY <3>4, <2>2, <1>u DEF Inv, RowsTyped
        <3>6. Settled' /\ InvitationAdmitsOnce'
            BY <3>2, <1>t, <1>u, Constants DEF Inv, Admitted, Settled, InvitationAdmitsOnce
        <3>7. ASSUME NEW c \in Codes
              PROVE  /\ links'[c].uses = Cardinality({q \in Requests : through'[q] = c})
                     /\ links'[c].max # 0 => links'[c].uses <= links'[c].max
            <4> DEFINE old == {q \in Requests : through[q] = c}
                       new == {q \in Requests : through'[q] = c}
            <4>1. links[c].uses = Cardinality(old) /\ (links[c].max # 0 => links[c].uses <= links[c].max)
                BY DEF Inv, Admitted, LinkCountsAdmissions
            <4>2. CASE c # c0
                <5>1. new = old
                    BY <3>2, <4>2, Constants
                <5> QED
                    BY <3>4, <4>1, <4>2, <5>1
            <4>3. CASE c = c0
                <5>1. new = old \cup {r} /\ r \notin old
                    BY <3>2, <4>3, <1>t, Constants
                <5>2. IsFiniteSet(old)
                    BY Constants, FS_Subset
                <5>3. Cardinality(old \cup {r}) = Cardinality(old) + 1
                    BY <5>1, <5>2, FS_AddElement
                <5>4. links[c].max # 0 => links[c].uses < links[c].max
                    BY <1>2, <4>3 DEF HasUsesLeft
                <5>5. links[c].max \in Nat
                    BY <3>3, <4>3, Constants DEF AnyLink
                <5> HIDE DEF old, new
                <5>6. links'[c].uses = Cardinality(new)
                    BY <3>4, <4>1, <4>3, <5>1, <5>3
                <5>7. links'[c].max # 0 => links'[c].uses <= links'[c].max
                    BY <3>3, <3>4, <4>3, <5>4, <5>5
                <5> QED
                    BY <5>6, <5>7 DEF new
            <4> QED
                BY <4>2, <4>3
        <3>8. LinkCountsAdmissions'
            BY <3>7 DEF LinkCountsAdmissions
        <3> QED
            BY <3>5, <3>6, <3>8, <2>2, <1>i DEF Inv, Admitted
    <2> QED
        BY <2>3, <2>4
<1> QED
    BY <1>1, <1>2

-----------------------------------------------------------------------------
(* Departures and events *)

LEMMA LeaveInv ==
    ASSUME Inv, NEW r \in Requests, LeaveServer(r)
    PROVE  Inv'
<1> DEFINE u0 == req[r].user
           out == exists /\ u0 # Owner /\ u0 \in members
<1>t. /\ req[r] \in Request /\ About(req[r]) /\ Story(r, req[r]) /\ req[r].pc = "leave"
      /\ req[r].op \in {"leave", "kick", "ban"}
    BY DEF LeaveServer, At, Inv, Requested, About
<1>u. UNCHANGED <<exists, bans, invs, links, through, told, blind, cut>>
    BY DEF LeaveServer
<1>1. /\ members' \subseteq members /\ removed' \subseteq removed \cup {r} /\ removed \subseteq removed'
      /\ r \in removed' => out
    BY <1>t DEF LeaveServer, Story
<1>2. RowsTyped' /\ Invited' /\ InvsKept /\ LinksKept /\ HistoryTyped'
    BY <1>1, <1>u DEF Inv, RowsTyped, HistoryTyped, Invited, InvsKept, LinksKept
<1>3. \E x \in Request :
          /\ req' = [req EXCEPT ![r] = x] /\ x.pc \in {"done", "announce", "ban"}
          /\ x.pc = "done" => ~out
          /\ x.pc # "done" => x.op = req[r].op /\ x.user = u0
          /\ x.pc = "ban" => x.op = "ban"
    <2>1. CASE req[r].op = "leave" /\ ~out
        <3>1. req' = [req EXCEPT ![r] = Done]
            BY <2>1 DEF LeaveServer, End
        <3> QED
            BY <2>1, <3>1, Constants
    <2>2. CASE req[r].op = "ban"
        <3> DEFINE x == [req[r] EXCEPT !.pc = "ban"]
        <3>1. req' = [req EXCEPT ![r] = x]
            BY <2>2 DEF LeaveServer, Goto, Inv, Requested
        <3>2. x \in Request /\ x.pc = "ban" /\ x.op = "ban" /\ x.user = u0
            BY <2>2, <1>t DEF Request, Steps
        <3> QED
            BY <2>2, <3>1, <3>2
    <2>3. CASE req[r].op = "kick" \/ (req[r].op = "leave" /\ out)
        <3> DEFINE x == [req[r] EXCEPT !.pc = "announce"]
        <3>1. req' = [req EXCEPT ![r] = x]
            BY <2>3 DEF LeaveServer, Goto, Inv, Requested
        <3>2. x \in Request /\ x.pc = "announce" /\ x.op = req[r].op /\ x.user = u0
            BY <1>t DEF Request, Steps
        <3> QED
            BY <3>1, <3>2
    <2> QED
        BY <1>t, <2>1, <2>2, <2>3
<1>x. PICK x \in Request :
          /\ req' = [req EXCEPT ![r] = x] /\ x.pc \in {"done", "announce", "ban"}
          /\ x.pc = "done" => ~out
          /\ x.pc # "done" => x.op = req[r].op /\ x.user = u0
          /\ x.pc = "ban" => x.op = "ban"
    BY <1>3
<1>4. About(x)
    BY <1>x, <1>t DEF About
<1>5. Story(r, x)'
    BY <1>1, <1>x, <1>t, <1>u DEF Story
<1>6. Requested'
    BY <1>1, <1>2, <1>x, <1>4, <1>5, <1>u, RequestedKept
<1> QED
    BY <1>2, <1>6, <1>u, AdmittedKept DEF Inv

LEMMA WriteBanInv ==
    ASSUME Inv, NEW r \in Requests, WriteBan(r)
    PROVE  Inv'
<1> DEFINE x == [req[r] EXCEPT !.pc = "announce"]
<1>t. /\ req[r] \in Request /\ About(req[r]) /\ Story(r, req[r])
      /\ req[r].pc = "ban" /\ req[r].op = "ban" /\ req[r].user \in Users
    BY DEF WriteBan, At, Inv, Requested, About
<1>u. UNCHANGED <<exists, members, invs, links, history>>
    BY DEF WriteBan
<1>1. bans' \in SUBSET Users
    BY <1>t DEF WriteBan, Inv, RowsTyped
<1>2. RowsTyped' /\ Invited' /\ InvsKept /\ LinksKept
    BY <1>1, <1>u DEF Inv, RowsTyped, Invited, InvsKept, LinksKept
<1>3. req' = [req EXCEPT ![r] = x]
    BY DEF WriteBan, Goto, Inv, Requested
<1>4. x \in Request /\ x.pc = "announce" /\ x.op = "ban" /\ About(x)
    BY <1>t DEF Request, Steps, About
<1> HIDE DEF x
<1>5. Story(r, x)
    BY <1>t, <1>4 DEF Story
<1> QED
    BY <1>2, <1>3, <1>4, <1>5, <1>u, Ordinary

\* A request ends with its event, or is cut short.
LEMMA LastWordInv ==
    ASSUME Inv, NEW r \in Requests,
           \/ AnnounceAccepted(r) \/ AnnounceJoined(r)
           \/ AnnounceLeft(r) \/ AnnounceKicked(r) \/ AnnounceBanned(r)
           \/ Crash(r)
    PROVE  Inv'
<1>t. /\ req[r] \in Request /\ Story(r, req[r])
      /\ through[r] \in Invs \cup Codes \cup {Null}
    BY DEF Inv, Requested, HistoryTyped
<1>1. UNCHANGED <<rows, through, removed, blind>> /\ req' = [req EXCEPT ![r] = Done]
    BY DEF AnnounceAccepted, AnnounceJoined, AnnounceLeft, AnnounceKicked,
           AnnounceBanned, Announce, Crash, End
<1>2. RowsTyped' /\ Invited' /\ InvsKept /\ LinksKept
    BY <1>1, SameRows
<1>3. Admitted'
    BY <1>1, <1>2, AdmittedKept
<1>4. /\ HistoryTyped' /\ Story(r, Done)'
      /\ \A q \in Requests \ {r} : told'[q] = told[q] /\ (q \in cut' <=> q \in cut)
    <2>1. CASE Crash(r)
        <3>1. cut' = cut \cup {r} /\ told' = told
            BY <2>1 DEF Crash
        <3> QED
            BY <3>1, <1>1, <1>t, Constants DEF Inv, HistoryTyped, Story
    <2>2. ASSUME NEW event \in {"joined", "left"}, Announce(r, event),
                 event = "joined" <=> req[r].op = "join"
          PROVE  /\ HistoryTyped' /\ Story(r, Done)'
                 /\ \A q \in Requests \ {r} : told'[q] = told[q] /\ (q \in cut' <=> q \in cut)
        <3>1. told' = [told EXCEPT ![r] = event] /\ cut' = cut /\ req[r].pc = "announce"
            BY <2>2 DEF Announce, At
        <3>2. /\ told'[r] = event /\ \A q \in Requests \ {r} : told'[q] = told[q]
              /\ HistoryTyped'
            BY <3>1, <1>1 DEF Inv, HistoryTyped
        <3>3. Story(r, Done)'
            BY <3>1, <3>2, <2>2, <1>1, <1>t, Constants DEF Story
        <3> QED
            BY <3>1, <3>2, <3>3
    <2>3. CASE AnnounceAccepted(r) \/ AnnounceJoined(r)
        BY <2>2, <2>3 DEF AnnounceAccepted, AnnounceJoined
    <2>4. CASE AnnounceLeft(r) \/ AnnounceKicked(r) \/ AnnounceBanned(r)
        BY <2>2, <2>4 DEF AnnounceLeft, AnnounceKicked, AnnounceBanned
    <2> QED
        BY <2>1, <2>3, <2>4
<1>5. About(Done) /\ Done \in Request /\ Done.pc = "done"
    BY Constants DEF About
<1>6. Requested'
    BY <1>1, <1>2, <1>4, <1>5, RequestedKept
<1> QED
    BY <1>2, <1>3, <1>4, <1>6 DEF Inv

-----------------------------------------------------------------------------
(* The theorems *)

\* Time, and steps of others.
LEMMA StillInv ==
    ASSUME Inv,
           \/ \E i \in Invs : InvitationDue(i)
           \/ \E c \in Codes : LinkDue(c)
           \/ UNCHANGED vars
    PROVE  Inv'
<1>1. UNCHANGED <<exists, members, bans, req, history>>
    BY DEF InvitationDue, LinkDue, vars, rows
<1>2. RowsTyped' /\ Invited' /\ InvsKept /\ LinksKept
    <2>1. CASE \E i \in Invs : InvitationDue(i)
        <3>1. PICK i \in Invs : invs' = [invs EXCEPT ![i].due = TRUE] /\ links' = links
            BY <2>1 DEF InvitationDue
        <3>2. /\ invs' \in [Invs -> Invitation]
              /\ \A j \in Invs : /\ invs'[j].status = invs[j].status
                                 /\ invs'[j].invitee = invs[j].invitee
            BY <3>1 DEF Inv, RowsTyped, Invitation
        <3> QED
            BY <1>1, <3>1, <3>2 DEF Inv, RowsTyped, Invited, InvsKept, LinksKept
    <2>2. CASE \E c \in Codes : LinkDue(c)
        <3>1. PICK c \in Codes : links' = [links EXCEPT ![c].due = TRUE] /\ invs' = invs
            BY <2>2 DEF LinkDue
        <3>2. links' \in [Codes -> AnyLink] /\ LinksKept
            BY <3>1 DEF Inv, RowsTyped, AnyLink, LinksKept
        <3> QED
            BY <1>1, <3>1, <3>2 DEF Inv, RowsTyped, Invited, InvsKept
    <2>3. CASE UNCHANGED vars
        BY <2>3, SameRows DEF vars
    <2> QED
        BY <2>1, <2>2, <2>3
<1>3. Admitted'
    BY <1>1, <1>2, AdmittedKept DEF history
<1>4. HistoryTyped' /\ Requested'
    BY <1>1, <1>2 DEF Inv, HistoryTyped, Requested, Standing, Story, InvsKept, About, history
<1> QED
    BY <1>2, <1>3, <1>4 DEF Inv

LEMMA StepInv == Inv /\ [Next]_vars => Inv'
<1> SUFFICES ASSUME Inv, [Next]_vars PROVE Inv'
    OBVIOUS
<1>1. ASSUME NEW r \in Requests, Step(r) PROVE Inv'
    BY <1>1, BeginsInv, InvitationInv, ServerInv, AcceptInv, JoinInv, LeaveInv,
       WriteBanInv, LastWordInv DEF Step
<1> QED
    BY <1>1, StillInv DEF Next

LEMMA Invariance == Spec => []Inv
    BY InitInv, StepInv, PTL DEF Spec

\* TypeOK: a link is used at most once by each request, since a use is an
\* admission and a request admits at most one user.
THEOREM TypeCorrect == Spec => []TypeOK
<1>1. Inv => TypeOK
    <2> SUFFICES ASSUME Inv PROVE TypeOK
        OBVIOUS
    <2>1. ASSUME NEW c \in Codes PROVE links[c] \in Link
        <3>1. links[c] \in AnyLink
            BY DEF Inv, RowsTyped
        <3> DEFINE Uses == {r \in Requests : through[r] = c}
        <3>2. Cardinality(Uses) <= Cardinality(Requests) /\ Cardinality(Requests) \in Nat
            <4>1. Uses \subseteq Requests /\ IsFiniteSet(Requests)
                BY Constants
            <4> HIDE DEF Uses
            <4> QED
                BY <4>1, FS_Subset, FS_CardinalityType
        <3>3. links[c].uses = Cardinality(Uses)
            BY DEF Inv, Admitted, LinkCountsAdmissions
        <3> HIDE DEF Uses
        <3>4. links[c].uses \in 0..Cardinality(Requests)
            BY <3>1, <3>2, <3>3 DEF AnyLink
        <3> QED
            BY <3>1, <3>4 DEF AnyLink, Link
    <2>2. links \in [Codes -> Link]
        BY <2>1 DEF Inv, RowsTyped
    <2> QED
        BY <2>2 DEF Inv, RowsTyped, HistoryTyped, Requested, TypeOK
<1> QED
    BY <1>1, Invariance, PTL

\* LinkCountsAdmissions for any number of racing joins: a link counts its
\* admissions, join_server_by_invite_code admits nobody past its limit, and who
\* leaves and joins again is counted again.
THEOREM UsesAreAdmissions == Spec => []LinkCountsAdmissions
    BY Invariance, PTL DEF Inv, Admitted

\* InvitationAdmitsOnce: although handlers overwrite the status of an invitation
\* that others have settled meanwhile, none of them opens it again.
THEOREM AdmittedOnce == Spec => []InvitationAdmitsOnce
    BY Invariance, PTL DEF Inv, Admitted

\* MembersAreTold: every join and every departure is announced by the handler
\* that made it, unless it is cut short or has admitted by an invitation it could
\* not look up, and no join that was none.
THEOREM MembersHear == Spec => []MembersAreTold
<1>1. Inv => MembersAreTold
    BY DEF Inv, Requested, Story, MembersAreTold, At
<1> QED
    BY <1>1, Invariance, PTL
=============================================================================
