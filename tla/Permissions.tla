----------------------------- MODULE Permissions -----------------------------
(***************************************************************************)
(* What a member may do in a server and in one of its channels.  A bit     *)
(* field is the set of its bits; they are independent of each other.       *)
(*                                                                         *)
(* The answer is worked out in TypeScript (server-permissions.service.ts)  *)
(* for the handlers and once more in SQL, in the stored procedures that    *)
(* change channels.  Below, perms gives every role of the server its bits, *)
(* mine is the set of roles assigned to the member, and over gives the     *)
(* overwrite of a channel for every role and for the member.               *)
(***************************************************************************)
CONSTANTS Bits, Everyone, Administrator

ASSUME PermissionsAssumption == Administrator \in Bits

Overwrite == [allow : SUBSET Bits, deny : SUBSET Bits]

\* Deny before allow.
Apply(p, o) == (p \ o.deny) \cup o.allow

\* The default role and the assigned ones.
BasePermissions(perms, mine) == UNION {perms[x] : x \in mine \cup {Everyone}}

\* getCapabilities, and create_server_channel for its one bit.
Capability(perms, mine, bit) ==
    LET base == BasePermissions(perms, mine) IN
    Administrator \in base \/ bit \in base

\* All overwrites of a set of roles at once.
Together(over, roles) ==
    [allow |-> UNION {over[x].allow : x \in roles},
     deny |-> UNION {over[x].deny : x \in roles}]

\* getChannelPermissions: the default role, the assigned roles, the member.
ChannelPermissions(perms, mine, over, u) ==
    LET base == BasePermissions(perms, mine) IN
    IF Administrator \in base THEN Bits
    ELSE Apply(Apply(Apply(base, over[Everyone]), Together(over, mine \ {Everyone})), over[u])

\* update_server_channel and delete_server_channel.
StoredPermissions(perms, mine, over, u) ==
    LET base == BasePermissions(perms, mine) IN
    IF Administrator \in base THEN Bits
    ELSE Apply(Apply(Apply(base, over[Everyone]), Together(over, mine)), over[u])

\* assertChannelManage, and the last check of the procedures.
Manages(p, bit) == bit \in p \/ Administrator \in p
=============================================================================
