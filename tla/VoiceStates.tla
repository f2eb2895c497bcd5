------------------------------ MODULE VoiceStates ------------------------------
(***************************************************************************)
(* Who is in which voice channel: the hash server:<id>:voice_states with a *)
(* field per user, and the set user:<id>:voice_servers that tells which of *)
(* these hashes have one, in Redis.                                        *)
(*                                                                         *)
(* A socket's handlers write both; so do moderators who mute, deafen or    *)
(* kick; and when any socket of a user is disconnected, all his states are *)
(* removed, one server after the other.  Commands are atomic, handlers are *)
(* not.  What a handler broadcasts after its write is left out.            *)
(***************************************************************************)
EXTENDS Naturals, FiniteSets

CONSTANTS
    Users,
    Sockets,
    Owner,          \* the user of a socket
    Servers,
    Channels,       \* voice channels
    Requests,       \* messages of sockets that are handled, each once
    MaxFaults,      \* bound: failed commands, crashed instances
    Null

ASSUME VoiceAssumption ==
    /\ Owner \in [Sockets -> Users]
    /\ MaxFaults \in Nat
    /\ Null \notin Users \cup Sockets \cup Servers \cup Channels

VARIABLES
    socket,     \* of a socket: not yet open, open, or closed
    hash,       \* voice_states, by server and user
    index,      \* voice_servers, by user
    req,        \* handlers of messages
    clean,      \* of a closed socket: the removal of its user's states
    overtaken,  \* history: users for whom a state was stored by a handler
                \* that a removal of theirs had overlapped
    cut,        \* history: users whose removal failed or was never started
    faults      \* history: failures so far

redis == <<hash, index>>
history == <<overtaken, cut, faults>>
vars == <<socket, redis, req, clean, history>>

-----------------------------------------------------------------------------

State == [chan : Channels, muted : BOOLEAN]
NoState == [chan |-> Null, muted |-> FALSE]

Request == [pc : {"idle", "set", "remove", "read", "done"}, via : Sockets \cup {Null},
            server : Servers \cup {Null}, user : Users \cup {Null},
            state : [chan : Channels \cup {Null}, muted : BOOLEAN], over : BOOLEAN]
Idle == [pc |-> "idle", via |-> Null, server |-> Null, user |-> Null,
         state |-> NoState, over |-> FALSE]
Done == [Idle EXCEPT !.pc = "done"]

Clean == [pc : {"idle", "list", "each", "done"}, todo : SUBSET Servers]

Init ==
    /\ socket = [k \in Sockets |-> "new"]
    /\ hash = [s \in Servers |-> [u \in Users |-> NoState]]
    /\ index = [u \in Users |-> {}]
    /\ req = [r \in Requests |-> Idle]
    /\ clean = [k \in Sockets |-> [pc |-> "idle", todo |-> {}]]
    /\ overtaken = {} /\ cut = {} /\ faults = 0

Fault == faults < MaxFaults /\ faults' = faults + 1

Connected(u) == \E k \in Sockets : Owner[k] = u /\ socket[k] = "open"
Removing(u) == \E k \in Sockets : Owner[k] = u /\ clean[k].pc = "each"

Connect(k) ==
    /\ socket[k] = "new"
    /\ socket' = [socket EXCEPT ![k] = "open"]
    /\ UNCHANGED <<redis, req, clean, history>>

Begin(r, k, step, s, u, x) ==
    /\ req[r].pc = "idle" /\ socket[k] = "open"
    /\ req' = [req EXCEPT ![r] = [pc |-> step, via |-> k, server |-> s, user |-> u,
                                  state |-> x, over |-> FALSE]]
    /\ UNCHANGED <<socket, redis, clean, history>>

-----------------------------------------------------------------------------
(* voice:state-update, kick, mute and deafen *)

\* The channel may be viewed; the profile is read before the state is stored.
Update(r) ==
    \E k \in Sockets, s \in Servers, x \in State :
        Begin(r, k, "set", s, Owner[k], x)

\* Without a channel: the user leaves.
LeaveVoice(r) ==
    \E k \in Sockets, s \in Servers : Begin(r, k, "remove", s, Owner[k], NoState)

\* By whoever may manage the server, for any user.
KickMember(r) ==
    \E k \in Sockets, s \in Servers, u \in Users : Begin(r, k, "remove", s, u, NoState)

MuteMember(r) ==
    \E k \in Sockets, s \in Servers, u \in Users, b \in BOOLEAN :
        Begin(r, k, "read", s, u, [NoState EXCEPT !.muted = b])

\* The states of the server are read; a user who is in no channel is let be.
ReadStates(r) ==
    LET found == hash[req[r].server][req[r].user] IN
    /\ req[r].pc = "read"
    /\ req' = [req EXCEPT ![r] =
            IF found = NoState THEN Done
            ELSE [@ EXCEPT !.pc = "set", !.state = [found EXCEPT !.muted = req[r].state.muted]]]
    /\ UNCHANGED <<socket, redis, clean, history>>

\* Deviation: the state without its index.
StoreOnly(r) ==
    /\ hash' = [hash EXCEPT ![req[r].server][req[r].user] = req[r].state]
    /\ UNCHANGED index

\* hset and sadd in one transaction.
Store(r) ==
    /\ hash' = [hash EXCEPT ![req[r].server][req[r].user] = req[r].state]
    /\ index' = [index EXCEPT ![req[r].user] = @ \cup {req[r].server}]

SetState(r) ==
    /\ req[r].pc = "set"
    /\ Store(r)
    /\ overtaken' = IF req[r].over \/ Removing(req[r].user)
                    THEN overtaken \cup {req[r].user} ELSE overtaken
    /\ req' = [req EXCEPT ![r] = Done]
    /\ UNCHANGED <<socket, clean, cut, faults>>

\* hget for the broadcast, then hdel and srem in one transaction.
RemoveState(r) ==
    /\ req[r].pc = "remove"
    /\ hash' = [hash EXCEPT ![req[r].server][req[r].user] = NoState]
    /\ index' = [index EXCEPT ![req[r].user] = @ \ {req[r].server}]
    /\ req' = [req EXCEPT ![r] = Done]
    /\ UNCHANGED <<socket, clean, history>>

\* Not permitted, or a command fails: the handler ends.
GiveUp(r) ==
    /\ req[r].pc \in {"set", "remove", "read"}
    /\ req' = [req EXCEPT ![r] = Done]
    /\ UNCHANGED <<socket, redis, clean, history>>

-----------------------------------------------------------------------------
(* handleDisconnect *)

Disconnect(k) ==
    /\ socket[k] = "open"
    /\ socket' = [socket EXCEPT ![k] = "closed"]
    /\ clean' = [clean EXCEPT ![k].pc = "list"]
    /\ UNCHANGED <<redis, req, history>>

\* Deviation: what the index lists is left to the user's other sockets.
ListOnce(k) == IF Connected(Owner[k]) \/ Removing(Owner[k]) THEN {} ELSE index[Owner[k]]

ListServers(k) == index[Owner[k]]

\* The index is read once the presence of the user has been seen to.
CleanList(k) ==
    /\ clean[k].pc = "list"
    /\ clean' = [clean EXCEPT ![k] = [pc |-> "each", todo |-> ListServers(k)]]
    /\ UNCHANGED <<socket, redis, req, history>>

CleanServer(k) ==
    /\ clean[k].pc = "each"
    /\ \E s \in clean[k].todo :
        /\ hash' = [hash EXCEPT ![s][Owner[k]] = NoState]
        /\ clean' = [clean EXCEPT ![k].todo = @ \ {s}]
    /\ UNCHANGED <<socket, index, req, history>>

\* The index is deleted as a whole.
CleanIndex(k) ==
    /\ clean[k].pc = "each" /\ clean[k].todo = {}
    /\ index' = [index EXCEPT ![Owner[k]] = {}]
    /\ clean' = [clean EXCEPT ![k] = [pc |-> "done", todo |-> {}]]
    /\ req' = [r \in Requests |->
            IF req[r].user = Owner[k] THEN [req[r] EXCEPT !.over = TRUE] ELSE req[r]]
    /\ UNCHANGED <<socket, hash, history>>

\* A command of the removal fails and the rest of it is not done.
CleanFails(k) ==
    /\ clean[k].pc \in {"list", "each"}
    /\ clean' = [clean EXCEPT ![k] = [pc |-> "done", todo |-> {}]]
    /\ cut' = cut \cup {Owner[k]}
    /\ Fault
    /\ UNCHANGED <<socket, redis, req, overtaken>>

\* The instance of a socket stops: nothing removes the states of its users.
Crash(k) ==
    /\ socket[k] = "open" \/ clean[k].pc \in {"list", "each"}
    /\ socket' = [socket EXCEPT ![k] = "closed"]
    /\ clean' = [clean EXCEPT ![k] = [pc |-> "done", todo |-> {}]]
    /\ req' = [r \in Requests |-> IF req[r].via = k THEN Done ELSE req[r]]
    /\ cut' = cut \cup {Owner[k]}
    /\ Fault
    /\ UNCHANGED <<redis, overtaken>>

-----------------------------------------------------------------------------

RequestStep(r) ==
    \/ Update(r) \/ LeaveVoice(r) \/ KickMember(r) \/ MuteMember(r)
    \/ ReadStates(r) \/ SetState(r) \/ RemoveState(r) \/ GiveUp(r)

SocketStep(k) ==
    \/ Connect(k) \/ Disconnect(k) \/ CleanList(k) \/ CleanServer(k) \/ CleanIndex(k)
    \/ CleanFails(k) \/ Crash(k)

Next ==
    \/ \E r \in Requests : RequestStep(r)
    \/ \E k \in Sockets : SocketStep(k)

Spec == Init /\ [][Next]_vars

-----------------------------------------------------------------------------
(* Properties *)

\* The types of the variables.
TypeOK ==
    /\ socket \in [Sockets -> {"new", "open", "closed"}]
    /\ hash \in [Servers -> [Users -> State \cup {NoState}]]
    /\ index \in [Users -> SUBSET Servers]
    /\ req \in [Requests -> Request]
    /\ clean \in [Sockets -> Clean]
    /\ overtaken \in SUBSET Users /\ cut \in SUBSET Users
    /\ faults \in 0..MaxFaults

\* A state can be found again by its user: only one stored across a removal of
\* the user's states is missing from the index.
StatesAreIndexed ==
    \A s \in Servers, u \in Users :
        hash[s][u] # NoState => s \in index[u] \/ u \in overtaken

\* A user who has gone is in no voice channel once his removals have ended: not
\* through a second socket, nor by a mute that had read his state.  Except if a
\* handler stored one across the removal, or the removal failed.
GoneFromVoice ==
    \A u \in Users :
        /\ ~Connected(u) /\ u \notin overtaken \cup cut
        /\ \A k \in Sockets : Owner[k] = u => clean[k].pc \in {"idle", "done"}
        => \A s \in Servers : hash[s][u] = NoState
=============================================================================
