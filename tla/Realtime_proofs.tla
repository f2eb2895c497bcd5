--------------------------- MODULE Realtime_proofs ---------------------------
(***************************************************************************)
(* Proofs about the state that the gateway and its services keep of sockets *)
(* and users: VoiceStates, LocalPresence and Typing, for any users, sockets, *)
(* servers, targets, instances and requests.                               *)
(***************************************************************************)
EXTENDS VoiceStates, LocalPresence, Typing, TLAPS

-----------------------------------------------------------------------------
(* Voice states: types *)

AnyState == [chan : Channels \cup {Null}, muted : BOOLEAN]
Working == {"set", "remove", "read"}

\* A handler under way is about a user in a server, and what it is about to
\* store is a state, not the absence of one.
RequestsTyped ==
    /\ req \in [Requests -> Request]
    /\ \A r \in Requests :
        /\ req[r].pc \in Working => req[r].server \in Servers /\ req[r].user \in Users
        /\ req[r].pc = "set" => req[r].state \in State

StatesTyped ==
    /\ hash \in [Servers -> [Users -> State \cup {NoState}]]
    /\ index \in [Users -> SUBSET Servers]

SocketsTyped ==
    /\ socket \in [Sockets -> {"new", "open", "closed"}]
    /\ clean \in [Sockets -> Clean]

HistoryTyped ==
    /\ overtaken \in SUBSET Users /\ cut \in SUBSET Users
    /\ faults \in 0..MaxFaults

Typed == RequestsTyped /\ StatesTyped /\ SocketsTyped /\ HistoryTyped

LEMMA TypedIsTypeOK == Typed => TypeOK
BY DEF Typed, TypeOK, RequestsTyped, StatesTyped, SocketsTyped, HistoryTyped

LEMMA Constants ==
    /\ Idle \in Request /\ Idle.pc = "idle"
    /\ Done \in Request /\ Done.pc = "done" /\ Done.user = Null /\ Done.over = FALSE
    /\ NoState \in AnyState /\ State \subseteq AnyState /\ NoState \notin State
BY VoiceAssumption DEF Idle, Done, Request, NoState, State, AnyState, VoiceAssumption

LEMMA InitTyped == Init => Typed
<1> SUFFICES ASSUME Init PROVE Typed
    OBVIOUS
<1> USE DEF Init
<1>1. RequestsTyped
    BY Constants DEF RequestsTyped, Working
<1>2. StatesTyped
    BY DEF StatesTyped
<1>3. SocketsTyped
    BY DEF SocketsTyped, Clean
<1>4. HistoryTyped
    BY VoiceAssumption DEF HistoryTyped, VoiceAssumption
<1> QED
    BY <1>1, <1>2, <1>3, <1>4 DEF Typed

\* A handler begins, goes on to its write or ends.
LEMMA OneRequest ==
    ASSUME RequestsTyped, NEW r \in Requests, NEW x \in Request,
           req' = [req EXCEPT ![r] = x],
           x.pc \in Working => x.server \in Servers /\ x.user \in Users,
           x.pc = "set" => x.state \in State
    PROVE  RequestsTyped'
BY DEF RequestsTyped

LEMMA BeginTyped ==
    ASSUME RequestsTyped, NEW r \in Requests, NEW k \in Sockets, NEW s \in Servers,
           NEW u \in Users, NEW step \in Working, NEW x \in AnyState,
           step = "set" => x \in State,
           Begin(r, k, step, s, u, x)
    PROVE  RequestsTyped' /\ UNCHANGED <<socket, redis, clean, history>>
<1> DEFINE new == [pc |-> step, via |-> k, server |-> s, user |-> u, state |-> x, over |-> FALSE]
<1>1. new \in Request
    BY DEF Request, AnyState, Working
<1>2. new.pc = step /\ new.server = s /\ new.user = u /\ new.state = x
    OBVIOUS
<1>3. req' = [req EXCEPT ![r] = new] /\ UNCHANGED <<socket, redis, clean, history>>
    BY DEF Begin
<1> HIDE DEF new
<1> QED
    BY <1>1, <1>2, <1>3, OneRequest

\* The four messages that handlers begin with.
Begins(r) == Update(r) \/ LeaveVoice(r) \/ KickMember(r) \/ MuteMember(r)

LEMMA BeginsTyped ==
    ASSUME RequestsTyped, NEW r \in Requests, Begins(r)
    PROVE  RequestsTyped' /\ UNCHANGED <<socket, redis, clean, history>>
<1>o. \A k \in Sockets : Owner[k] \in Users
    BY VoiceAssumption DEF VoiceAssumption
<1>w. {"set", "remove", "read"} \subseteq Working
    BY DEF Working
<1>1. CASE Update(r)
    <2>1. PICK k \in Sockets, s \in Servers, x \in State : Begin(r, k, "set", s, Owner[k], x)
        BY <1>1 DEF Update
    <2> QED
        BY <2>1, <1>o, <1>w, Constants, BeginTyped
<1>2. CASE LeaveVoice(r)
    <2>1. PICK k \in Sockets, s \in Servers : Begin(r, k, "remove", s, Owner[k], NoState)
        BY <1>2 DEF LeaveVoice
    <2> QED
        BY <2>1, <1>o, <1>w, Constants, BeginTyped
<1>3. CASE KickMember(r)
    <2>1. PICK k \in Sockets, s \in Servers, u \in Users : Begin(r, k, "remove", s, u, NoState)
        BY <1>3 DEF KickMember
    <2> QED
        BY <2>1, <1>w, Constants, BeginTyped
<1>4. CASE MuteMember(r)
    <2>1. PICK k \in Sockets, s \in Servers, u \in Users, b \in BOOLEAN :
              Begin(r, k, "read", s, u, [NoState EXCEPT !.muted = b])
        BY <1>4 DEF MuteMember
    <2>2. [NoState EXCEPT !.muted = b] \in AnyState
        BY DEF NoState, AnyState
    <2> QED
        BY <2>1, <2>2, <1>w, BeginTyped
<1> QED
    BY <1>1, <1>2, <1>3, <1>4 DEF Begins

LEMMA ReadTyped ==
    ASSUME RequestsTyped, StatesTyped, NEW r \in Requests, ReadStates(r)
    PROVE  RequestsTyped'
<1> DEFINE found == hash[req[r].server][req[r].user]
           next == [req[r] EXCEPT !.pc = "set", !.state = [found EXCEPT !.muted = req[r].state.muted]]
<1>1. req[r] \in Request /\ req[r].server \in Servers /\ req[r].user \in Users
    BY DEF RequestsTyped, ReadStates, Working
<1>2. CASE found = NoState
    <2>1. req' = [req EXCEPT ![r] = Done]
        BY <1>2 DEF ReadStates
    <2> QED
        BY <2>1, Constants, OneRequest DEF Working
<1>3. CASE found # NoState
    <2>1. req' = [req EXCEPT ![r] = next]
        BY <1>3 DEF ReadStates
    <2>2. found \in State
        BY <1>1, <1>3 DEF StatesTyped
    <2>3. /\ next \in Request /\ next.state \in State
          /\ next.server \in Servers /\ next.user \in Users
        BY <1>1, <2>2 DEF Request, State
    <2> HIDE DEF next
    <2> QED
        BY <2>1, <2>3, OneRequest
<1> QED
    BY <1>2, <1>3

LEMMA RequestTyped ==
    ASSUME Typed, NEW r \in Requests, RequestStep(r)
    PROVE  Typed'
<1> USE DEF Typed
<1>1. CASE Begins(r)
    BY <1>1, BeginsTyped DEF StatesTyped, SocketsTyped, HistoryTyped, redis, history
<1>2. CASE ReadStates(r)
    BY <1>2, ReadTyped DEF ReadStates, StatesTyped, SocketsTyped, HistoryTyped, redis, history
<1>3. CASE SetState(r)
    <2>1. req[r].server \in Servers /\ req[r].user \in Users /\ req[r].state \in State
        BY <1>3 DEF SetState, RequestsTyped, Working
    <2>2. StatesTyped'
        BY <1>3, <2>1 DEF SetState, Store, StatesTyped
    <2>3. RequestsTyped'
        BY <1>3, Constants, OneRequest DEF SetState, Working
    <2> QED
        BY <1>3, <2>1, <2>2, <2>3 DEF SetState, SocketsTyped, HistoryTyped
<1>4. CASE RemoveState(r)
    <2>1. req[r].server \in Servers /\ req[r].user \in Users
        BY <1>4 DEF RemoveState, RequestsTyped, Working
    <2>2. StatesTyped'
        BY <1>4, <2>1 DEF RemoveState, StatesTyped
    <2>3. RequestsTyped'
        BY <1>4, Constants, OneRequest DEF RemoveState, Working
    <2> QED
        BY <1>4, <2>2, <2>3 DEF RemoveState, SocketsTyped, HistoryTyped, history
<1>5. CASE GiveUp(r)
    <2>1. RequestsTyped'
        BY <1>5, Constants, OneRequest DEF GiveUp, Working
    <2> QED
        BY <1>5, <2>1 DEF GiveUp, StatesTyped, SocketsTyped, HistoryTyped, redis, history
<1> QED
    BY <1>1, <1>2, <1>3, <1>4, <1>5 DEF RequestStep, Begins

LEMMA SocketTyped ==
    ASSUME Typed, NEW k \in Sockets, SocketStep(k)
    PROVE  Typed'
<1> USE DEF Typed
<1>o. Owner[k] \in Users /\ MaxFaults \in Nat
    BY VoiceAssumption DEF VoiceAssumption
<1>c. clean[k] \in Clean
    BY DEF SocketsTyped
<1>1. CASE Connect(k)
    BY <1>1 DEF Connect, RequestsTyped, StatesTyped, SocketsTyped, HistoryTyped, redis, history
<1>2. CASE Disconnect(k)
    BY <1>2, <1>c DEF Disconnect, RequestsTyped, StatesTyped, SocketsTyped, HistoryTyped, redis, history, Clean
<1>3. CASE CleanList(k)
    <2>1. index[Owner[k]] \in SUBSET Servers
        BY <1>o DEF StatesTyped
    <2> QED
        BY <1>3, <2>1 DEF CleanList, ListServers, RequestsTyped, StatesTyped, SocketsTyped, HistoryTyped, redis, history, Clean
<1>4. CASE CleanServer(k)
    <2>1. PICK s \in clean[k].todo :
              /\ hash' = [hash EXCEPT ![s][Owner[k]] = NoState]
              /\ clean' = [clean EXCEPT ![k].todo = @ \ {s}]
        BY <1>4 DEF CleanServer
    <2>2. s \in Servers
        BY <1>c DEF Clean
    <2>3. StatesTyped'
        BY <1>4, <2>1, <2>2, <1>o DEF CleanServer, StatesTyped
    <2>4. SocketsTyped'
        BY <1>4, <2>1, <1>c DEF CleanServer, SocketsTyped, Clean
    <2> QED
        BY <1>4, <2>3, <2>4 DEF CleanServer, RequestsTyped, HistoryTyped, history
<1>5. CASE CleanIndex(k)
    <2>1. ASSUME NEW r \in Requests
          PROVE  /\ req'[r] \in Request /\ req'[r].pc = req[r].pc
                 /\ req'[r].server = req[r].server /\ req'[r].user = req[r].user
                 /\ req'[r].state = req[r].state
        BY <1>5 DEF CleanIndex, RequestsTyped, Request
    <2>2. RequestsTyped'
        BY <1>5, <2>1 DEF CleanIndex, RequestsTyped
    <2> QED
        BY <1>5, <2>2, <1>o DEF CleanIndex, StatesTyped, SocketsTyped, HistoryTyped, history, Clean
<1>6. CASE CleanFails(k)
    BY <1>6, <1>o DEF CleanFails, Fault, RequestsTyped, StatesTyped, SocketsTyped, HistoryTyped, redis, Clean
<1>7. CASE Crash(k)
    <2>1. RequestsTyped'
        BY <1>7, Constants DEF Crash, RequestsTyped, Working
    <2> QED
        BY <1>7, <2>1, <1>o DEF Crash, Fault, StatesTyped, SocketsTyped, HistoryTyped, redis, Clean
<1> QED
    BY <1>1, <1>2, <1>3, <1>4, <1>5, <1>6, <1>7 DEF SocketStep

LEMMA StepTyped == Typed /\ [Next]_vars => Typed'
<1> SUFFICES ASSUME Typed, [Next]_vars PROVE Typed'
    OBVIOUS
<1>1. CASE UNCHANGED vars
    BY <1>1 DEF vars, redis, history, Typed, RequestsTyped, StatesTyped, SocketsTyped, HistoryTyped
<1> QED
    BY <1>1, RequestTyped, SocketTyped DEF Next

\* The variables keep their types.
THEOREM TypeCorrect == Spec => []TypeOK
<1>1. Spec => []Typed
    BY InitTyped, StepTyped, PTL DEF Spec
<1> QED
    BY <1>1, TypedIsTypeOK, PTL

-----------------------------------------------------------------------------
(* Voice states: states are found again *)

\* A removal under way has every state of its user before it.
RemovalsSeeAll ==
    \A k \in Sockets, s \in Servers :
        clean[k].pc = "each" /\ hash[s][Owner[k]] # NoState =>
            s \in clean[k].todo \/ Owner[k] \in overtaken

Found == StatesAreIndexed /\ RemovalsSeeAll

LEMMA InitFound == Init => Found
BY VoiceAssumption DEF Init, Found, StatesAreIndexed, RemovalsSeeAll, VoiceAssumption

\* Most steps neither store a state, nor forget one, nor begin a removal.
LEMMA FoundKept ==
    ASSUME Found, Typed, UNCHANGED redis,
           overtaken \subseteq overtaken',
           \A k \in Sockets : clean'[k].pc = "each" => clean'[k] = clean[k]
    PROVE  Found'
BY DEF Found, StatesAreIndexed, RemovalsSeeAll, redis

LEMMA RequestFound ==
    ASSUME Found, Typed, NEW r \in Requests, RequestStep(r)
    PROVE  Found'
<1>1. CASE Begins(r) \/ ReadStates(r) \/ GiveUp(r)
    <2>1. UNCHANGED <<redis, clean, history>>
        BY <1>1, BeginsTyped DEF Typed, ReadStates, GiveUp
    <2> QED
        BY <2>1, FoundKept DEF history
<1>2. CASE SetState(r)
    <2> DEFINE s0 == req[r].server
               u0 == req[r].user
    <2>1. s0 \in Servers /\ u0 \in Users /\ req[r].state \in State
        BY <1>2 DEF SetState, Typed, RequestsTyped, Working
    <2>2. \A s \in Servers, u \in Users :
              hash'[s][u] # NoState => hash[s][u] # NoState \/ (s = s0 /\ u = u0)
        BY <1>2, <2>1 DEF SetState, Store, Typed, StatesTyped
    <2>3. /\ s0 \in index'[u0]
          /\ \A u \in Users : index[u] \subseteq index'[u]
        BY <1>2, <2>1 DEF SetState, Store, Typed, StatesTyped
    <2>4. /\ overtaken \subseteq overtaken' /\ clean' = clean
          /\ Removing(u0) => u0 \in overtaken'
        BY <1>2 DEF SetState
    <2>5. StatesAreIndexed'
        BY <2>2, <2>3, <2>4 DEF Found, StatesAreIndexed
    <2>6. RemovalsSeeAll'
        <3> SUFFICES ASSUME NEW k \in Sockets, NEW s \in Servers,
                            clean'[k].pc = "each", hash'[s][Owner[k]] # NoState
                     PROVE  s \in clean'[k].todo \/ Owner[k] \in overtaken'
            BY DEF RemovalsSeeAll
        <3>1. Owner[k] \in Users
            BY VoiceAssumption DEF VoiceAssumption
        <3>2. CASE Owner[k] = u0
            BY <2>4, <3>2 DEF Removing
        <3>3. CASE Owner[k] # u0
            BY <2>2, <2>4, <3>1, <3>3 DEF Found, RemovalsSeeAll
        <3> QED
            BY <3>2, <3>3
    <2> QED
        BY <2>5, <2>6 DEF Found
<1>3. CASE RemoveState(r)
    <2> DEFINE s0 == req[r].server
               u0 == req[r].user
    <2>1. s0 \in Servers /\ u0 \in Users
        BY <1>3 DEF RemoveState, Typed, RequestsTyped, Working
    <2>2. \A s \in Servers, u \in Users :
              hash'[s][u] # NoState => hash[s][u] # NoState /\ ~(s = s0 /\ u = u0)
        BY <1>3, <2>1 DEF RemoveState, Typed, StatesTyped
    <2>3. \A s \in Servers, u \in Users : s \in index[u] => s \in index'[u] \/ (s = s0 /\ u = u0)
        BY <1>3, <2>1 DEF RemoveState, Typed, StatesTyped
    <2>4. clean' = clean /\ overtaken' = overtaken
        BY <1>3 DEF RemoveState, history
    <2>5. StatesAreIndexed'
        BY <2>2, <2>3, <2>4 DEF Found, StatesAreIndexed
    <2>6. RemovalsSeeAll'
        BY <2>2, <2>4, VoiceAssumption DEF Found, RemovalsSeeAll, VoiceAssumption
    <2> QED
        BY <2>5, <2>6 DEF Found
<1> QED
    BY <1>1, <1>2, <1>3 DEF RequestStep, Begins

LEMMA SocketFound ==
    ASSUME Found, Typed, NEW k \in Sockets, SocketStep(k)
    PROVE  Found'
<1>o. \A j \in Sockets : Owner[j] \in Users
    BY VoiceAssumption DEF VoiceAssumption
<1>1. CASE Connect(k)
    BY <1>1, FoundKept DEF Connect, history
<1>2. CASE Disconnect(k)
    BY <1>2, FoundKept DEF Disconnect, history, Typed, SocketsTyped, Clean
<1>3. CASE CleanList(k)
    <2>1. UNCHANGED <<redis, history>>
        BY <1>3 DEF CleanList
    <2>2. \A j \in Sockets : clean'[j].pc = "each" =>
              clean'[j] = clean[j] \/ clean'[j].todo = index[Owner[j]]
        BY <1>3 DEF CleanList, ListServers, Typed, SocketsTyped
    <2>3. RemovalsSeeAll'
        BY <2>1, <2>2, <1>o DEF Found, StatesAreIndexed, RemovalsSeeAll, redis, history
    <2> QED
        BY <2>1, <2>3 DEF Found, StatesAreIndexed, redis, history
<1>4. CASE CleanServer(k)
    <2>1. PICK s0 \in clean[k].todo :
              /\ hash' = [hash EXCEPT ![s0][Owner[k]] = NoState]
              /\ clean' = [clean EXCEPT ![k].todo = @ \ {s0}]
        BY <1>4 DEF CleanServer
    <2>2. s0 \in Servers
        BY DEF Typed, SocketsTyped, Clean
    <2>3. \A s \in Servers, u \in Users :
              hash'[s][u] # NoState => hash[s][u] # NoState /\ ~(s = s0 /\ u = Owner[k])
        BY <2>1, <2>2, <1>o DEF Typed, StatesTyped
    <2>4. index' = index /\ overtaken' = overtaken
        BY <1>4 DEF CleanServer, history
    <2>5. \A j \in Sockets : clean'[j].pc = clean[j].pc
                /\ \A s \in clean[j].todo : s \in clean'[j].todo \/ (j = k /\ s = s0)
        BY <2>1 DEF Typed, SocketsTyped, Clean
    <2>6. RemovalsSeeAll'
        BY <2>3, <2>4, <2>5, <1>o DEF Found, RemovalsSeeAll
    <2> QED
        BY <2>3, <2>4, <2>6 DEF Found, StatesAreIndexed
<1>5. CASE CleanIndex(k)
    <2>1. hash' = hash /\ overtaken' = overtaken
        BY <1>5 DEF CleanIndex, history
    <2>2. \A s \in Servers : hash[s][Owner[k]] # NoState => Owner[k] \in overtaken
        BY <1>5 DEF CleanIndex, Found, RemovalsSeeAll
    <2>3. \A u \in Users : u # Owner[k] => index'[u] = index[u]
        BY <1>5 DEF CleanIndex, Typed, StatesTyped
    <2>4. \A j \in Sockets : clean'[j].pc = "each" => clean'[j] = clean[j]
        BY <1>5 DEF CleanIndex, Typed, SocketsTyped
    <2>5. RemovalsSeeAll'
        BY <2>1, <2>4 DEF Found, RemovalsSeeAll
    <2>6. StatesAreIndexed'
        BY <2>1, <2>2, <2>3 DEF Found, StatesAreIndexed
    <2> QED
        BY <2>5, <2>6 DEF Found
<1>6. CASE CleanFails(k)
    BY <1>6, FoundKept DEF CleanFails, Typed, SocketsTyped
<1>7. CASE Crash(k)
    BY <1>7, FoundKept DEF Crash, Typed, SocketsTyped
<1> QED
    BY <1>1, <1>2, <1>3, <1>4, <1>5, <1>6, <1>7 DEF SocketStep

LEMMA StepFound == Found /\ Typed /\ [Next]_vars => Found'
<1> SUFFICES ASSUME Found, Typed, [Next]_vars PROVE Found'
    OBVIOUS
<1>1. CASE UNCHANGED vars
    BY <1>1, FoundKept DEF vars, history
<1> QED
    BY <1>1, RequestFound, SocketFound DEF Next

\* StatesAreIndexed: unless a handler stored a state across a removal, every
\* state can be found by its user.
THEOREM StatesFoundAgain == Spec => []StatesAreIndexed
<1>1. Init => Typed /\ Found
    BY InitTyped, InitFound
<1>2. Typed /\ Found /\ [Next]_vars => Typed' /\ Found'
    BY StepTyped, StepFound
<1>3. Found => StatesAreIndexed
    BY DEF Found
<1> QED
    BY <1>1, <1>2, <1>3, PTL DEF Spec

-----------------------------------------------------------------------------
(* Voice states: users who have gone *)

\* Some removal of the user's states has not come by this one yet.
ToBeRemoved(s, u) ==
    \E k \in Sockets :
        /\ Owner[k] = u
        /\ clean[k].pc = "list" \/ (clean[k].pc = "each" /\ s \in clean[k].todo)

\* Whoever has a state is there, or will have it removed.
StatesEnd ==
    \A s \in Servers, u \in Users :
        hash[s][u] # NoState =>
            Connected(u) \/ ToBeRemoved(s, u) \/ u \in overtaken \/ u \in cut

\* So has whoever is about to get one, unless a removal ended meanwhile.
StoresEnd ==
    \A r \in Requests :
        req[r].pc = "set" /\ ~req[r].over =>
            \/ Connected(req[r].user)
            \/ \E k \in Sockets : Owner[k] = req[r].user /\ clean[k].pc \in {"list", "each"}
            \/ req[r].user \in overtaken \/ req[r].user \in cut

Ends == StatesEnd /\ StoresEnd

LEMMA InitEnds == Init => Ends
BY Constants DEF Init, Ends, StatesEnd, StoresEnd

\* A handler stores for a user who is there, or before his removal lists its servers.
LEMMA RequestEnds ==
    ASSUME Ends, Found, Typed, NEW r \in Requests, RequestStep(r)
    PROVE  Ends'
<1>1. CASE Update(r)
    <2>1. PICK k \in Sockets, s \in Servers, x \in State : Begin(r, k, "set", s, Owner[k], x)
        BY <1>1 DEF Update
    <2>2. socket[k] = "open" /\ UNCHANGED <<socket, redis, clean, history>>
        BY <2>1 DEF Begin
    <2>3. /\ req'[r].user = Owner[k]
          /\ \A q \in Requests : q # r => req'[q] = req[q]
        BY <2>1 DEF Begin, Typed, RequestsTyped
    <2>4. StoresEnd'
        BY <2>2, <2>3 DEF Ends, StoresEnd, Connected, history
    <2> QED
        BY <2>2, <2>4 DEF Ends, StatesEnd, ToBeRemoved, Connected, history, redis
<1>2. CASE LeaveVoice(r) \/ KickMember(r) \/ MuteMember(r) \/ GiveUp(r) \/ RemoveState(r)
    <2>1. \A q \in Requests : req'[q] = req[q] \/ req'[q].pc # "set"
        BY <1>2, Constants DEF LeaveVoice, KickMember, MuteMember, GiveUp, RemoveState, Begin,
                    Typed, RequestsTyped
    <2>2. UNCHANGED <<socket, clean, history>>
        BY <1>2 DEF LeaveVoice, KickMember, MuteMember, GiveUp, RemoveState, Begin
    <2>3. StoresEnd'
        BY <2>1, <2>2 DEF Ends, StoresEnd, Connected, history
    <2>4. \A s \in Servers, u \in Users : hash'[s][u] # NoState => hash[s][u] # NoState
        <3>1. CASE RemoveState(r)
            <4>1. req[r].server \in Servers /\ req[r].user \in Users
                BY <3>1 DEF RemoveState, Typed, RequestsTyped, Working
            <4> QED
                BY <3>1, <4>1 DEF RemoveState, Typed, StatesTyped
        <3>2. CASE ~RemoveState(r)
            BY <1>2, <3>2 DEF LeaveVoice, KickMember, MuteMember, GiveUp, Begin, redis
        <3> QED
            BY <3>1, <3>2
    <2>5. StatesEnd'
        BY <2>2, <2>4 DEF Ends, StatesEnd, ToBeRemoved, Connected, history
    <2> QED
        BY <2>3, <2>5 DEF Ends
<1>3. CASE ReadStates(r)
    <2> DEFINE s0 == req[r].server
               u0 == req[r].user
               next == [req[r] EXCEPT !.pc = "set",
                            !.state = [hash[s0][u0] EXCEPT !.muted = req[r].state.muted]]
    <2>1. s0 \in Servers /\ u0 \in Users /\ req[r] \in Request
        BY <1>3 DEF ReadStates, Typed, RequestsTyped, Working
    <2>2. next.user = u0
        BY <2>1 DEF Request
    <2>3. \/ req' = [req EXCEPT ![r] = Done]
          \/ hash[s0][u0] # NoState /\ req' = [req EXCEPT ![r] = next]
        BY <1>3 DEF ReadStates
    <2>4. /\ \A q \in Requests : q # r => req'[q] = req[q]
          /\ req'[r].pc = "set" => hash[s0][u0] # NoState /\ req'[r].user = u0
        <3> HIDE DEF next
        <3> QED
            BY <2>2, <2>3, Constants DEF Typed, RequestsTyped
    <2>5. UNCHANGED <<socket, redis, clean, history>>
        BY <1>3 DEF ReadStates
    <2>6. req'[r].pc = "set" =>
              \/ Connected(u0) \/ u0 \in overtaken \/ u0 \in cut
              \/ \E k \in Sockets : Owner[k] = u0 /\ clean[k].pc \in {"list", "each"}
        BY <2>1, <2>4 DEF Ends, StatesEnd, ToBeRemoved
    <2>7. StoresEnd'
        BY <2>4, <2>5, <2>6 DEF Ends, StoresEnd, Connected, history
    <2> QED
        BY <2>5, <2>7 DEF Ends, StatesEnd, ToBeRemoved, Connected, history, redis
<1>4. CASE SetState(r)
    <2> DEFINE s0 == req[r].server
               u0 == req[r].user
    <2>1. s0 \in Servers /\ u0 \in Users
        BY <1>4 DEF SetState, Typed, RequestsTyped, Working
    <2>2. \A s \in Servers, u \in Users :
              hash'[s][u] # NoState => hash[s][u] # NoState \/ (s = s0 /\ u = u0)
        BY <1>4, <2>1 DEF SetState, Store, Typed, StatesTyped
    <2>3. UNCHANGED <<socket, clean, cut>> /\ overtaken \subseteq overtaken'
        BY <1>4 DEF SetState
    <2>4. \A q \in Requests : req'[q] = req[q] \/ req'[q].pc # "set"
        BY <1>4, Constants DEF SetState, Typed, RequestsTyped
    <2>5. StoresEnd'
        BY <2>3, <2>4 DEF Ends, StoresEnd, Connected
    <2>6. Connected(u0) \/ ToBeRemoved(s0, u0) \/ u0 \in overtaken' \/ u0 \in cut
        <3>1. CASE req[r].over \/ Removing(u0)
            BY <1>4, <3>1 DEF SetState
        <3>2. CASE ~req[r].over /\ ~Removing(u0)
            BY <1>4, <2>3, <3>2 DEF SetState, Removing, Ends, StoresEnd, ToBeRemoved
        <3> QED
            BY <3>1, <3>2
    <2>7. StatesEnd'
        BY <2>2, <2>3, <2>6 DEF Ends, StatesEnd, ToBeRemoved, Connected
    <2> QED
        BY <2>5, <2>7 DEF Ends
<1> QED
    BY <1>1, <1>2, <1>3, <1>4 DEF RequestStep

LEMMA SocketEnds ==
    ASSUME Ends, Found, Typed, NEW k \in Sockets, SocketStep(k)
    PROVE  Ends'
<1>o. \A j \in Sockets : Owner[j] \in Users
    BY VoiceAssumption DEF VoiceAssumption
<1>t. /\ \A q \in Requests : req[q].pc = "set" => req[q].user \in Users
      /\ clean[k] \in Clean
    BY DEF Typed, RequestsTyped, SocketsTyped, Working
<1>1. CASE Connect(k)
    <2>1. UNCHANGED <<redis, req, clean, history>>
        BY <1>1 DEF Connect
    <2>2. \A j \in Sockets : socket[j] = "open" => socket'[j] = "open"
        BY <1>1 DEF Connect, Typed, SocketsTyped
    <2> QED
        BY <2>1, <2>2 DEF Ends, StatesEnd, StoresEnd, ToBeRemoved, Connected, history, redis
<1>2. CASE Disconnect(k)
    <2>1. UNCHANGED <<redis, req, history>>
        BY <1>2 DEF Disconnect
    <2>2. /\ \A j \in Sockets : j # k => socket'[j] = socket[j] /\ clean'[j] = clean[j]
          /\ clean'[k].pc = "list"
        BY <1>2, <1>t DEF Disconnect, Typed, SocketsTyped, Clean
    <2>3. StatesEnd'
        BY <2>1, <2>2 DEF Ends, StatesEnd, ToBeRemoved, Connected, history, redis
    <2>4. StoresEnd'
        BY <2>1, <2>2 DEF Ends, StoresEnd, Connected, history
    <2> QED
        BY <2>3, <2>4 DEF Ends
<1>3. CASE CleanList(k)
    <2>1. UNCHANGED <<socket, redis, req, history>> /\ clean[k].pc = "list"
        BY <1>3 DEF CleanList
    <2>2. /\ \A j \in Sockets : j # k => clean'[j] = clean[j]
          /\ clean'[k].pc = "each" /\ clean'[k].todo = index[Owner[k]]
        BY <1>3 DEF CleanList, ListServers, Typed, SocketsTyped
    <2>3. StatesEnd'
        BY <2>1, <2>2, <1>o DEF Ends, Found, StatesAreIndexed, StatesEnd, ToBeRemoved, Connected, history, redis
    <2>4. StoresEnd'
        BY <2>1, <2>2 DEF Ends, StoresEnd, Connected, history
    <2> QED
        BY <2>3, <2>4 DEF Ends
<1>4. CASE CleanServer(k)
    <2>1. PICK s0 \in clean[k].todo :
              /\ hash' = [hash EXCEPT ![s0][Owner[k]] = NoState]
              /\ clean' = [clean EXCEPT ![k].todo = @ \ {s0}]
        BY <1>4 DEF CleanServer
    <2>2. s0 \in Servers
        BY <1>t DEF Clean
    <2>3. \A s \in Servers, u \in Users :
              hash'[s][u] # NoState => hash[s][u] # NoState /\ ~(s = s0 /\ u = Owner[k])
        BY <2>1, <2>2, <1>o DEF Typed, StatesTyped
    <2>4. UNCHANGED <<socket, req, history>>
        BY <1>4 DEF CleanServer
    <2>5. \A j \in Sockets : clean'[j].pc = clean[j].pc
                /\ \A s \in clean[j].todo : s \in clean'[j].todo \/ (j = k /\ s = s0)
        BY <2>1 DEF Typed, SocketsTyped, Clean
    <2>6. StatesEnd'
        BY <2>3, <2>4, <2>5 DEF Ends, StatesEnd, ToBeRemoved, Connected, history
    <2>7. StoresEnd'
        BY <2>4, <2>5 DEF Ends, StoresEnd, Connected, history
    <2> QED
        BY <2>6, <2>7 DEF Ends
<1>5. CASE CleanIndex(k)
    <2>1. UNCHANGED <<socket, hash, history>> /\ clean[k].pc = "each" /\ clean[k].todo = {}
        BY <1>5 DEF CleanIndex
    <2>2. \A j \in Sockets : j # k => clean'[j] = clean[j]
        BY <1>5 DEF CleanIndex, Typed, SocketsTyped
    <2>3. \A q \in Requests :
              /\ req'[q].pc = req[q].pc /\ req'[q].user = req[q].user
              /\ ~req'[q].over => ~req[q].over /\ req[q].user # Owner[k]
        <3> SUFFICES ASSUME NEW q \in Requests
                     PROVE  /\ req'[q].pc = req[q].pc /\ req'[q].user = req[q].user
                            /\ ~req'[q].over => ~req[q].over /\ req[q].user # Owner[k]
            OBVIOUS
        <3>1. req[q] \in Request
            BY DEF Typed, RequestsTyped
        <3>2. CASE req[q].user = Owner[k]
            BY <1>5, <3>1, <3>2 DEF CleanIndex, Request
        <3>3. CASE req[q].user # Owner[k]
            BY <1>5, <3>3 DEF CleanIndex
        <3> QED
            BY <3>2, <3>3
    <2>4. StatesEnd'
        BY <2>1, <2>2 DEF Ends, StatesEnd, ToBeRemoved, Connected, history
    <2>5. StoresEnd'
        BY <2>1, <2>2, <2>3 DEF Ends, StoresEnd, Connected, history
    <2> QED
        BY <2>4, <2>5 DEF Ends
<1>6. CASE CleanFails(k)
    <2>1. UNCHANGED <<socket, redis, req, overtaken>> /\ cut' = cut \cup {Owner[k]}
        BY <1>6 DEF CleanFails
    <2>2. \A j \in Sockets : j # k => clean'[j] = clean[j]
        BY <1>6 DEF CleanFails, Typed, SocketsTyped
    <2>3. StatesEnd'
        BY <2>1, <2>2 DEF Ends, StatesEnd, ToBeRemoved, Connected, redis
    <2>4. StoresEnd'
        BY <2>1, <2>2 DEF Ends, StoresEnd, Connected
    <2> QED
        BY <2>3, <2>4 DEF Ends
<1>7. CASE Crash(k)
    <2>1. UNCHANGED <<redis, overtaken>> /\ cut' = cut \cup {Owner[k]}
        BY <1>7 DEF Crash
    <2>2. \A j \in Sockets : j # k => clean'[j] = clean[j] /\ socket'[j] = socket[j]
        BY <1>7 DEF Crash, Typed, SocketsTyped
    <2>3. \A q \in Requests : req'[q] = req[q] \/ req'[q].pc # "set"
        BY <1>7, Constants DEF Crash, Typed, RequestsTyped
    <2>4. StatesEnd'
        BY <2>1, <2>2 DEF Ends, StatesEnd, ToBeRemoved, Connected, redis
    <2>5. StoresEnd'
        BY <2>1, <2>2, <2>3 DEF Ends, StoresEnd, Connected
    <2> QED
        BY <2>4, <2>5 DEF Ends
<1> QED
    BY <1>1, <1>2, <1>3, <1>4, <1>5, <1>6, <1>7 DEF SocketStep

LEMMA StepEnds == Ends /\ Found /\ Typed /\ [Next]_vars => Ends'
<1> SUFFICES ASSUME Ends, Found, Typed, [Next]_vars PROVE Ends'
    OBVIOUS
<1>1. CASE UNCHANGED vars
    BY <1>1 DEF vars, history, redis, Ends, StatesEnd, StoresEnd, ToBeRemoved, Connected
<1> QED
    BY <1>1, RequestEnds, SocketEnds DEF Next

\* GoneFromVoice: a user whose sockets have closed and whose removals have
\* ended is in no voice channel, unless a handler stored a state of his across
\* a removal or a removal was cut short.
THEOREM GoneUsersHaveLeft == Spec => []GoneFromVoice
<1>1. Init => Typed /\ Found /\ Ends
    BY InitTyped, InitFound, InitEnds
<1>2. Typed /\ Found /\ Ends /\ [Next]_vars => Typed' /\ Found' /\ Ends'
    BY StepTyped, StepFound, StepEnds
<1>3. Ends => GoneFromVoice
    BY DEF Ends, StatesEnd, ToBeRemoved, GoneFromVoice
<1> QED
    BY <1>1, <1>2, <1>3, PTL DEF Spec

-----------------------------------------------------------------------------
(* Presence without Redis: types *)

LEMMA EffectiveTyped ==
    ASSUME NEW S, NEW m \in Manual
    PROVE  /\ Effective(S, m) \in Status
           /\ S # {} => Effective(S, m) # "offline"
BY DEF Effective, Fixed, Status, Manual

LEMMA ArriveTyped ==
    ASSUME LocalTypeOK, NEW s \in Tabs, NEW m \in Manual, Arrive(s, m)
    PROVE  /\ conn' \in [Tabs -> Stage]
           /\ userSockets' \in SUBSET Tabs /\ socketUser' \in SUBSET Tabs
           /\ grace' \in BOOLEAN /\ idle' \in BOOLEAN
           /\ inMemoryStatus' \in Status
           /\ announced' \in Status
<1>1. inMemoryStatus' \in Status
    BY EffectiveTyped DEF Arrive
<1>2. announced' \in Status
    BY <1>1 DEF Arrive, LocalTypeOK
<1>3. idle' \in BOOLEAN /\ grace' \in BOOLEAN
    BY DEF Arrive, ResetIdle
<1>4. conn' \in [Tabs -> Stage]
    BY DEF Arrive, LocalTypeOK, Stage
<1> QED
    BY <1>1, <1>2, <1>3, <1>4 DEF Arrive, LocalTypeOK

LEMMA LoadedIsManual ==
    ASSUME LocalTypeOK, NEW m \in Saved
    PROVE  (IF m = "none" THEN manual ELSE m) \in Manual
BY LocalAssumption DEF LocalAssumption, LocalTypeOK

LEMMA ConnectTyped ==
    ASSUME LocalTypeOK, NEW s \in Tabs, UserConnect(s)
    PROVE  LocalTypeOK'
<1>1. CASE manual # "none"
    <2>1. Arrive(s, manual) /\ manual \in Manual /\ UNCHANGED <<running, manual>>
        BY <1>1 DEF UserConnect, LocalTypeOK
    <2> QED
        BY <2>1, ArriveTyped DEF LocalTypeOK
<1>2. CASE manual = "none"
    BY <1>2 DEF UserConnect, LocalTypeOK, Stage, memory, timers
<1> QED
    BY <1>1, <1>2

LEMMA LoadTyped ==
    ASSUME LocalTypeOK, NEW s \in Tabs, Load(s)
    PROVE  LocalTypeOK'
<1>1. manual' \in Manual /\ Arrive(s, manual') /\ running' = running
    BY LoadedIsManual DEF Load
<1> QED
    BY <1>1, ArriveTyped DEF LocalTypeOK

LEMMA SetManualTyped ==
    ASSUME LocalTypeOK, NEW m \in Chosen, SetManual(m)
    PROVE  LocalTypeOK' /\ m \in Manual
<1>1. m \in Manual
    BY LocalAssumption DEF LocalAssumption
<1>2. Effective(userSockets, m) \in Status
    BY <1>1, EffectiveTyped
<1> QED
    BY <1>1, <1>2 DEF SetManual, ResetIdle, LocalTypeOK, memory

LEMMA LocalStepTyped == LocalTypeOK /\ [LocalNext]_localVars => LocalTypeOK'
<1> SUFFICES ASSUME LocalTypeOK, [LocalNext]_localVars PROVE LocalTypeOK'
    OBVIOUS
<1>1. CASE UNCHANGED localVars
    BY <1>1 DEF LocalTypeOK, localVars, memory, timers
<1>2. CASE \E s \in Tabs : UserConnect(s) \/ Load(s)
    BY <1>2, ConnectTyped, LoadTyped
<1>3. ASSUME NEW s \in Tabs, Activity(s) \/ UserDisconnect(s) \/ DisconnectEarly(s)
      PROVE  LocalTypeOK'
    <2>1. CASE Activity(s)
        BY <2>1 DEF Activity, ResetIdle, LocalTypeOK, memory, Status
    <2>2. CASE UserDisconnect(s)
        <3>1. grace' \in BOOLEAN /\ userSockets' \in SUBSET Tabs
            BY <2>2 DEF UserDisconnect, LocalTypeOK
        <3> QED
            BY <2>2, <3>1 DEF UserDisconnect, LocalTypeOK, Stage
    <2>3. CASE DisconnectEarly(s)
        BY <2>3 DEF DisconnectEarly, LocalTypeOK, memory, timers, Stage
    <2> QED
        BY <1>3, <2>1, <2>2, <2>3
<1>4. CASE LogOut
    BY <1>4 DEF LogOut, LocalTypeOK, Status
<1>5. CASE GraceEnds
    BY <1>5 DEF GraceEnds, LocalTypeOK, memory, Status
<1>6. CASE IdleEnds
    BY <1>6 DEF IdleEnds, LocalTypeOK, memory, Status
<1>7. CASE Cleanup
    BY <1>7 DEF Cleanup, LocalTypeOK, Stage
<1>8. CASE \E m \in Chosen : SetManual(m)
    BY <1>8, SetManualTyped
<1> QED
    BY <1>1, <1>2, <1>3, <1>4, <1>5, <1>6, <1>7, <1>8 DEF LocalNext

LEMMA LocalInitTyped == LocalInit => LocalTypeOK
BY DEF LocalInit, LocalTypeOK, Stage, Status, Manual

\* The variables keep their types.
THEOREM LocalTypesKept == LocalSpec => []LocalTypeOK
BY LocalInitTyped, LocalStepTyped, PTL DEF LocalSpec

-----------------------------------------------------------------------------
(* Presence without Redis: departures and idleness *)

\* The two maps agree on his sockets.
MapsAgree == socketUser = userSockets

\* A manual status that is shown is not left for "online".
FixedIsKept == userSockets # {} /\ Fixed(manual) => inMemoryStatus # "online"

Watched == MapsAgree /\ FixedIsKept /\ DepartureIsWatched /\ OnlineIsWatched

LEMMA InitWatched == LocalInit => Watched
BY DEF LocalInit, Watched, MapsAgree, FixedIsKept, DepartureIsWatched, OnlineIsWatched

LEMMA ArriveWatched ==
    ASSUME Watched, LocalTypeOK, running, running' = running,
           NEW s \in Tabs, Arrive(s, manual'), manual' \in Manual
    PROVE  Watched'
<1>1. userSockets' = userSockets \cup {s} /\ socketUser' = userSockets' /\ grace' = FALSE
    BY DEF Arrive, Watched, MapsAgree
<1>2. inMemoryStatus' = Effective(userSockets', manual') /\ userSockets' # {}
    BY <1>1 DEF Arrive
<1>3. inMemoryStatus' # "offline"
    BY <1>2, EffectiveTyped
<1>4. FixedIsKept' /\ OnlineIsWatched'
    BY <1>2 DEF Arrive, ResetIdle, Effective, Fixed, FixedIsKept, OnlineIsWatched
<1>5. DepartureIsWatched'
    BY <1>1, <1>2, <1>3 DEF Arrive, Watched, DepartureIsWatched
<1> QED
    BY <1>1, <1>4, <1>5 DEF Watched, MapsAgree

LEMMA SocketWatched ==
    ASSUME Watched, LocalTypeOK, NEW s \in Tabs,
           UserConnect(s) \/ Load(s) \/ Activity(s) \/ UserDisconnect(s) \/ DisconnectEarly(s)
    PROVE  Watched'
<1>1. CASE UserConnect(s)
    <2>1. CASE manual # "none"
        <3>1. running /\ running' = running /\ Arrive(s, manual') /\ manual' \in Manual
            BY <1>1, <2>1 DEF UserConnect, LocalTypeOK
        <3> QED
            BY <3>1, ArriveWatched
    <2>2. CASE manual = "none"
        BY <1>1, <2>2 DEF UserConnect, memory, timers, Watched, MapsAgree, FixedIsKept,
                    DepartureIsWatched, OnlineIsWatched
    <2> QED
        BY <2>1, <2>2
<1>2. CASE Load(s)
    <2>1. running /\ running' = running /\ Arrive(s, manual') /\ manual' \in Manual
        BY <1>2, LoadedIsManual DEF Load
    <2> QED
        BY <2>1, ArriveWatched
<1>3. CASE Activity(s)
    BY <1>3 DEF Activity, ResetIdle, memory, Fixed, Watched, MapsAgree, FixedIsKept,
                DepartureIsWatched, OnlineIsWatched
<1>4. CASE UserDisconnect(s)
    BY <1>4 DEF UserDisconnect, Watched, MapsAgree, FixedIsKept,
                DepartureIsWatched, OnlineIsWatched, LocalTypeOK
<1>5. CASE DisconnectEarly(s)
    BY <1>5 DEF DisconnectEarly, memory, timers, Watched, MapsAgree, FixedIsKept,
                DepartureIsWatched, OnlineIsWatched
<1> QED
    BY <1>1, <1>2, <1>3, <1>4, <1>5

LEMMA StepWatched == Watched /\ LocalTypeOK /\ [LocalNext]_localVars => Watched'
<1> SUFFICES ASSUME Watched, LocalTypeOK, [LocalNext]_localVars PROVE Watched'
    OBVIOUS
<1> USE DEF Watched, MapsAgree, FixedIsKept, DepartureIsWatched, OnlineIsWatched
<1>1. CASE UNCHANGED localVars
    BY <1>1 DEF localVars, memory, timers
<1>2. CASE \E s \in Tabs :
               UserConnect(s) \/ Load(s) \/ Activity(s) \/ UserDisconnect(s) \/ DisconnectEarly(s)
    BY <1>2, SocketWatched
<1>3. CASE LogOut
    BY <1>3 DEF LogOut
<1>4. CASE GraceEnds
    BY <1>4 DEF GraceEnds, memory
<1>5. CASE IdleEnds
    BY <1>5 DEF IdleEnds, memory, Fixed, LocalTypeOK, Manual
<1>6. CASE Cleanup
    BY <1>6 DEF Cleanup
<1>7. ASSUME NEW m \in Chosen, SetManual(m)
      PROVE  Watched'
    BY <1>7 DEF SetManual, ResetIdle, Effective, memory, Fixed
<1> QED
    BY <1>1, <1>2, <1>3, <1>4, <1>5, <1>6, <1>7 DEF LocalNext

LEMMA AlwaysWatched == LocalSpec => []Watched
<1>1. LocalInit => LocalTypeOK /\ Watched
    BY LocalInitTyped, InitWatched
<1>2. LocalTypeOK /\ Watched /\ [LocalNext]_localVars => LocalTypeOK' /\ Watched'
    BY LocalStepTyped, StepWatched
<1> QED
    BY <1>1, <1>2, PTL DEF LocalSpec

\* DepartureIsWatched: he is announced offline exactly if he has no socket and
\* no grace timer.
THEOREM DeparturesAreWatched == LocalSpec => []DepartureIsWatched
<1>1. Watched => DepartureIsWatched
    BY DEF Watched
<1> QED
    BY <1>1, AlwaysWatched, PTL

\* OnlineIsWatched: as long as he is online by himself an idle timer runs.
THEOREM OnlineUsersAreWatched == LocalSpec => []OnlineIsWatched
<1>1. Watched => OnlineIsWatched
    BY DEF Watched
<1> QED
    BY <1>1, AlwaysWatched, PTL

-----------------------------------------------------------------------------
(* Typing: the targets of those who are typing *)

LEMMA TypingInitTyped == TypingInit => TypingTypeOK /\ TypistsAreListed
BY TypingAssumption DEF TypingInit, TypingTypeOK, TypistsAreListed, Entered

\* The count of failures.
LEMMA Lost ==
    ASSUME TypingTypeOK, \/ losses < MaxLosses /\ losses' = losses + 1
                         \/ losses' = losses
    PROVE  losses' \in 0..MaxLosses
<1>1. losses \in 0..MaxLosses
    BY DEF TypingTypeOK
<1> QED
    BY <1>1, TypingAssumption

LEMMA TypingStepTyped == TypingTypeOK /\ [TypingNext]_typingVars => TypingTypeOK'
<1> SUFFICES ASSUME TypingTypeOK, [TypingNext]_typingVars PROVE TypingTypeOK'
    OBVIOUS
<1> USE TypingAssumption DEF TypingTypeOK, shared, own
<1>d. \A t \in Targets : Drop(t) \in [Typists -> {"none", "ahead", "past"}]
    BY DEF Drop
<1>1. CASE UNCHANGED typingVars
    BY <1>1 DEF typingVars
<1>2. ASSUME NEW i \in Instances, NEW t \in Targets, NEW u \in Typists, UserStep(i, t, u)
      PROVE  TypingTypeOK'
    <2>p. <<t, u>> \in Pairs
        BY DEF Pairs
    <2>s. ASSUME NEW v \in {"none", "ahead"}, scores' = [scores EXCEPT ![t] = [Drop(t) EXCEPT ![u] = v]]
          PROVE  scores' \in [Targets -> [Typists -> {"none", "ahead", "past"}]]
        BY <1>d, <2>s
    <2>u. ASSUME NEW R, UnlistEmpty(t, R) PROVE targets' \subseteq Targets
        BY <2>u DEF UnlistEmpty
    <2>t. ASSUME NEW v \in {"none", "running", "fired"}, timer' = [timer EXCEPT ![i][<<t, u>>] = v]
          PROVE  timer' \in [Instances -> [Pairs -> {"none", "running", "fired"}]]
        <3>1. [timer[i] EXCEPT ![<<t, u>>] = v] \in [Pairs -> {"none", "running", "fired"}]
            OBVIOUS
        <3>2. timer' = [timer EXCEPT ![i] = [timer[i] EXCEPT ![<<t, u>>] = v]]
            BY <2>t
        <3> QED
            BY <3>1, <3>2
    <2>f. ForgetTyping(i, t, u) => /\ local' \in [Instances -> SUBSET Pairs]
                                   /\ timer' \in [Instances -> [Pairs -> {"none", "running", "fired"}]]
                                   /\ recent' \in [Instances -> SUBSET Pairs]
        BY <2>t DEF ForgetTyping
    <2>1. CASE Start(i, t, u)
        <3>1. starts' \in 0..MaxStarts
            <4> HIDE DEF TypingTypeOK
            <4>1. starts < MaxStarts /\ starts' = starts + 1 /\ starts \in 0..MaxStarts
                BY <2>1 DEF Start, TypingTypeOK
            <4> QED
                BY <4>1
        <3>2. /\ recent' = [recent EXCEPT ![i] = @ \cup {<<t, u>>}]
              /\ UNCHANGED <<sweep, redisUp, up, losses>>
              /\ IF redisUp THEN StartShared(t, u) ELSE StartLocal(i, t, u)
            BY <2>1 DEF Start
        <3>3. recent' \in [Instances -> SUBSET Pairs]
            BY <2>p, <3>2
        <3>4. CASE redisUp
            BY <3>1, <3>2, <3>3, <3>4, <2>s DEF StartShared
        <3>5. CASE ~redisUp
            <4>1. local' \in [Instances -> SUBSET Pairs]
                <5>1. local' = [local EXCEPT ![i] = @ \cup {<<t, u>>}]
                    BY <3>2, <3>5 DEF StartLocal
                <5> QED
                    BY <2>p, <5>1
            <4>2. timer' \in [Instances -> [Pairs -> {"none", "running", "fired"}]]
                BY <2>t, <3>2, <3>5 DEF StartLocal
            <4> QED
                BY <3>1, <3>2, <3>3, <3>5, <4>1, <4>2 DEF StartLocal
        <3> QED
            BY <3>4, <3>5
    <2>2. CASE Throttled(i, t, u)
        BY <2>2, <2>t DEF Throttled
    <2>3. CASE Stop(i, t, u)
        BY <2>3, <2>f, <2>s, <2>u DEF Stop, StopShared
    <2>4. CASE TimerFires(i, t, u)
        BY <2>4, <2>f, <2>s, <2>t, <2>u DEF TimerFires
    <2> QED
        BY <1>2, <2>1, <2>2, <2>3, <2>4 DEF UserStep
<1>3. ASSUME NEW i \in Instances, NEW u \in Typists, ClearUserTyping(i, u) PROVE TypingTypeOK'
    <2>1. [p \in Pairs |-> IF p[2] = u THEN "none" ELSE timer[i][p]] \in [Pairs -> {"none", "running", "fired"}]
        OBVIOUS
    <2> QED
        BY <1>3, <2>1 DEF ClearUserTyping
<1>4. ASSUME NEW i \in Instances, SweepStart(i) \/ InstanceStops(i) PROVE TypingTypeOK'
    <2>1. CASE SweepStart(i)
        BY <2>1 DEF SweepStart
    <2>2. CASE InstanceStops(i)
        <3>1. losses' \in 0..MaxLosses
            BY <2>2, Lost DEF InstanceStops
        <3>2. [p \in Pairs |-> "none"] \in [Pairs -> {"none", "running", "fired"}]
            OBVIOUS
        <3>3. timer' \in [Instances -> [Pairs -> {"none", "running", "fired"}]]
            BY <2>2, <3>2 DEF InstanceStops
        <3> QED
            BY <2>2, <3>1, <3>3 DEF InstanceStops
    <2> QED
        BY <1>4, <2>1, <2>2
<1>5. ASSUME NEW i \in Instances, NEW t \in Targets, SweepTarget(i, t) \/ SweepFails(i, t)
      PROVE  TypingTypeOK'
    BY <1>5, <1>d DEF SweepTarget, SweepFails, UnlistEmpty
<1>6. ASSUME NEW t \in Targets, LockEnds(t) PROVE TypingTypeOK'
    BY <1>6 DEF LockEnds
<1>7. ASSUME NEW t \in Targets, NEW u \in Typists, ScorePasses(t, u) PROVE TypingTypeOK'
    BY <1>7 DEF ScorePasses
<1>8. ASSUME NEW i \in Instances, NEW p \in Pairs, MarkAges(i, p) PROVE TypingTypeOK'
    BY <1>8 DEF MarkAges
<1>9. CASE RedisLost \/ RedisBack
    <2>1. losses' \in 0..MaxLosses
        BY <1>9, Lost DEF RedisLost, RedisBack
    <2>2. redisUp' \in BOOLEAN
        BY <1>9 DEF RedisLost, RedisBack
    <2>3. UNCHANGED <<scores, targets, lock, local, timer, recent, sweep, up, starts>>
        BY <1>9 DEF RedisLost, RedisBack
    <2> QED
        BY <2>1, <2>2, <2>3
<1> QED
    BY <1>1, <1>2, <1>3, <1>4, <1>5, <1>6, <1>7, <1>8, <1>9 DEF TypingNext

\* A script on target t leaves in its set those whose time has not come, and u
\* perhaps; it leaves the target in the list if there is anybody.
LEMMA TargetListed ==
    ASSUME TypingTypeOK, TypistsAreListed, NEW t \in Targets, NEW f \in [Typists -> {"none", "ahead", "past"}],
           scores' = [scores EXCEPT ![t] = f], targets \ {t} \subseteq targets',
           (\E u \in Typists : f[u] # "none") => t \in targets'
    PROVE  TypistsAreListed'
BY DEF TypingTypeOK, TypistsAreListed, Entered

\* typing:stop and the timer.
LEMMA StoppedListed ==
    ASSUME TypingTypeOK, TypistsAreListed, NEW t \in Targets, NEW u \in Typists,
           scores' = [scores EXCEPT ![t] = [Drop(t) EXCEPT ![u] = "none"]], UnlistEmpty(t, Ahead(t) \ {u})
    PROVE  TypistsAreListed'
<1>1. PICK f : f = [Drop(t) EXCEPT ![u] = "none"]
    OBVIOUS
<1>2. /\ f \in [Typists -> {"none", "ahead", "past"}]
      /\ \A v \in Typists : f[v] # "none" => v \in Ahead(t) \ {u}
    BY <1>1 DEF TypingTypeOK, Drop, Ahead
<1>3. Ahead(t) # {} => t \in targets
    BY DEF Ahead, TypistsAreListed, Entered
<1>4. targets \ {t} \subseteq targets' /\ ((\E v \in Typists : f[v] # "none") => t \in targets')
    BY <1>2, <1>3 DEF UnlistEmpty
<1> QED
    BY <1>1, <1>2, <1>4, TargetListed

LEMMA TypingStepListed == TypingTypeOK /\ TypistsAreListed /\ [TypingNext]_typingVars => TypistsAreListed'
<1> SUFFICES ASSUME TypingTypeOK, TypistsAreListed, [TypingNext]_typingVars PROVE TypistsAreListed'
    OBVIOUS
<1>0. CASE UNCHANGED shared
    BY <1>0 DEF shared, TypistsAreListed, Entered
<1>1. ASSUME NEW i \in Instances, NEW t \in Targets, NEW u \in Typists, UserStep(i, t, u)
      PROVE  TypistsAreListed'
    <2>1. CASE Start(i, t, u)
        <3>1. CASE redisUp
            <4>1. PICK f : f = [Drop(t) EXCEPT ![u] = "ahead"] /\ scores' = [scores EXCEPT ![t] = f]
                BY <2>1, <3>1 DEF Start, StartShared
            <4>2. f \in [Typists -> {"none", "ahead", "past"}]
                BY <4>1 DEF TypingTypeOK, Drop
            <4>3. t \in targets' /\ targets \subseteq targets'
                BY <2>1, <3>1 DEF Start, StartShared
            <4> QED
                BY <4>1, <4>2, <4>3, TargetListed
        <3>2. CASE ~redisUp
            BY <1>0, <2>1, <3>2 DEF Start, StartLocal
        <3> QED
            BY <3>1, <3>2
    <2>2. CASE Throttled(i, t, u)
        BY <1>0, <2>2 DEF Throttled
    <2>3. CASE Stop(i, t, u)
        BY <1>0, <2>3, StoppedListed DEF Stop, StopShared
    <2>4. CASE TimerFires(i, t, u)
        BY <1>0, <2>4, StoppedListed DEF TimerFires
    <2> QED
        BY <1>1, <2>1, <2>2, <2>3, <2>4 DEF UserStep
<1>2. ASSUME NEW i \in Instances, NEW t \in Targets, SweepTarget(i, t) PROVE TypistsAreListed'
    <2>1. CASE t \in lock
        BY <1>0, <1>2, <2>1 DEF SweepTarget
    <2>2. CASE t \notin lock
        <3>1. Drop(t) \in [Typists -> {"none", "ahead", "past"}]
              /\ \A v \in Typists : Drop(t)[v] # "none" => v \in Ahead(t)
            BY DEF TypingTypeOK, Drop, Ahead
        <3>2. Ahead(t) # {} => t \in targets
            BY DEF Ahead, TypistsAreListed, Entered
        <3>3. targets \ {t} \subseteq targets' /\ (Ahead(t) # {} => t \in targets')
            BY <1>2, <2>2, <3>2 DEF SweepTarget, UnlistEmpty
        <3> QED
            BY <1>2, <2>2, <3>1, <3>3, TargetListed DEF SweepTarget
    <2> QED
        BY <2>1, <2>2
<1>3. ASSUME NEW t \in Targets, NEW u \in Typists, ScorePasses(t, u) PROVE TypistsAreListed'
    <2>1. PICK f : f = [scores[t] EXCEPT ![u] = "past"] /\ scores' = [scores EXCEPT ![t] = f]
        BY <1>3 DEF ScorePasses
    <2>2. f \in [Typists -> {"none", "ahead", "past"}] /\ t \in targets /\ targets' = targets
        BY <1>3, <2>1 DEF ScorePasses, TypingTypeOK, TypistsAreListed, Entered
    <2> QED
        BY <2>1, <2>2, TargetListed
<1>4. ASSUME NEW t \in Targets, LockEnds(t) PROVE TypistsAreListed'
    BY <1>4 DEF LockEnds, TypistsAreListed, Entered
<1> QED
    BY <1>0, <1>1, <1>2, <1>3, <1>4 DEF TypingNext, typingVars, shared, ClearUserTyping, SweepStart,
        InstanceStops, SweepFails, MarkAges, RedisLost, RedisBack

\* TypistsAreListed: whichever script of which instance came last, a target
\* with a typist is in the list that the sweepers read.
THEOREM TypistsAreSwept == TypingSpec => []TypistsAreListed
BY TypingInitTyped, TypingStepTyped, TypingStepListed, PTL DEF TypingSpec
=============================================================================
