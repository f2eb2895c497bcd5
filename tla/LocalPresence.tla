---------------------------- MODULE LocalPresence ----------------------------
(***************************************************************************)
(* Presence of one user as PresenceService keeps it in memory when Redis   *)
(* is not connected: one instance, its maps and its timers.  The maps have *)
(* an entry per user and no handler touches those of two users.            *)
(*                                                                         *)
(* Node runs one handler at a time, from an await to the next.  A handler  *)
(* awaits the profile when no manual status is cached, and the peers       *)
(* before it announces a status; what it has decided by then is            *)
(* "announced" here, so the order of arrival is left open.                 *)
(***************************************************************************)
EXTENDS Naturals

CONSTANTS
    Tabs,        \* socket ids; a new connection has a new one
    Saved,       \* what the profile may say; "none" is a failed look-up
    Chosen       \* the manual statuses he chooses from; "none" clears

Manual == {"none", "online", "idle", "dnd", "offline"}

ASSUME LocalAssumption == Saved \subseteq Manual /\ Chosen \subseteq Manual

VARIABLES
    running,      \* the process
    conn,         \* of a socket: its connection and its handler
    userSockets,
    socketUser,   \* the sockets known to be his
    grace,        \* disconnectTimers has him
    idle,         \* idleTimers has him
    inMemoryStatus,
    manual,       \* manualPresenceCache
    announced     \* the status last announced to his peers

memory == <<userSockets, socketUser>>
timers == <<grace, idle>>
localVars == <<running, conn, memory, timers, inMemoryStatus, manual, announced>>

-----------------------------------------------------------------------------

\* "loading": the connect handler awaits the profile.  "gone": the socket was
\* closed meanwhile.  "ghost": it was registered all the same.
Stage == {"new", "loading", "gone", "up", "ghost", "closed"}
Status == {"online", "idle", "dnd", "offline"}

LocalInit ==
    /\ running = TRUE
    /\ conn = [s \in Tabs |-> "new"]
    /\ userSockets = {} /\ socketUser = {}
    /\ grace = FALSE /\ idle = FALSE
    /\ inMemoryStatus = "none" /\ manual = "none"
    /\ announced = "offline"

Fixed(m) == m \in {"dnd", "idle"}

\* getEffectiveStatus of a user with sockets S and the manual status m.
Effective(S, m) == IF S = {} THEN "offline" ELSE IF Fixed(m) THEN m ELSE "online"

\* resetInMemoryIdleTimer: the old timer goes, a new one is set if he may
\* become idle by himself.
ResetIdle(S, m) == idle' = (S # {} /\ ~Fixed(m))

-----------------------------------------------------------------------------
(* Connections *)

\* Deviation: the idle timer is reset before the socket is added.
ArriveTimerFirst(s, m) ==
    /\ conn' = [conn EXCEPT ![s] = IF @ = "gone" THEN "ghost" ELSE "up"]
    /\ userSockets' = userSockets \cup {s} /\ socketUser' = socketUser \cup {s}
    /\ grace' = FALSE
    /\ inMemoryStatus' = Effective(userSockets', m)
    /\ ResetIdle(userSockets, m)
    /\ announced' = IF userSockets = {} THEN inMemoryStatus' ELSE announced

\* The socket is noted and the timers are reset; the first one is announced.
\* Nothing asks whether it is still open.
Arrive(s, m) ==
    /\ conn' = [conn EXCEPT ![s] = IF @ = "gone" THEN "ghost" ELSE "up"]
    /\ userSockets' = userSockets \cup {s} /\ socketUser' = socketUser \cup {s}
    /\ grace' = FALSE
    /\ inMemoryStatus' = Effective(userSockets', m)
    /\ ResetIdle(userSockets', m)
    /\ announced' = IF userSockets = {} THEN inMemoryStatus' ELSE announced

\* Deviation: the grace timer is cleared before the profile is awaited.
ConnectClearsFirst(s) ==
    /\ running /\ conn[s] = "new"
    /\ IF manual # "none"
       THEN Arrive(s, manual)
       ELSE /\ conn' = [conn EXCEPT ![s] = "loading"]
            /\ grace' = FALSE
            /\ UNCHANGED <<memory, idle, inMemoryStatus, announced>>
    /\ UNCHANGED <<running, manual>>

\* handleUserConnect, with a manual status cached or without.
UserConnect(s) ==
    /\ running /\ conn[s] = "new"
    /\ IF manual # "none"
       THEN Arrive(s, manual)
       ELSE /\ conn' = [conn EXCEPT ![s] = "loading"]
            /\ UNCHANGED <<memory, timers, inMemoryStatus, announced>>
    /\ UNCHANGED <<running, manual>>

\* loadManualPresence is done: it overwrites what was chosen meanwhile.
Load(s) ==
    /\ running /\ conn[s] \in {"loading", "gone"}
    /\ \E m \in Saved :
        /\ manual' = IF m = "none" THEN manual ELSE m
        /\ Arrive(s, manual')
    /\ UNCHANGED running

\* handleUserActivity: never over a manual status.
Activity(s) ==
    /\ running /\ conn[s] = "up" /\ s \in socketUser
    /\ ~Fixed(manual)
    /\ ResetIdle(userSockets, manual)
    /\ IF inMemoryStatus = "idle"
       THEN inMemoryStatus' = "online" /\ announced' = "online"
       ELSE UNCHANGED <<inMemoryStatus, announced>>
    /\ UNCHANGED <<running, conn, memory, grace, manual>>

\* handleUserDisconnect: with the last socket the grace timer is set.
UserDisconnect(s) ==
    /\ running /\ conn[s] = "up"
    /\ conn' = [conn EXCEPT ![s] = "closed"]
    /\ socketUser' = socketUser \ {s}
    /\ IF s \in socketUser
       THEN /\ userSockets' = userSockets \ {s}
            /\ grace' = (grace \/ userSockets' = {})
       ELSE UNCHANGED <<userSockets, grace>>
    /\ UNCHANGED <<running, idle, inMemoryStatus, manual, announced>>

\* A socket closed before its handler has noted whose it is: nothing is done.
DisconnectEarly(s) ==
    /\ running /\ conn[s] = "loading"
    /\ conn' = [conn EXCEPT ![s] = "gone"]
    /\ UNCHANGED <<running, memory, timers, inMemoryStatus, manual, announced>>

\* handleExplicitLogout: his sockets stay open and are forgotten.  Its caller
\* announces what it returns.
LogOut ==
    /\ running
    /\ grace' = FALSE
    /\ socketUser' = socketUser \ userSockets
    /\ userSockets' = {}
    /\ announced' = "offline"
    /\ UNCHANGED <<running, conn, idle, inMemoryStatus, manual>>

\* setManualPresence announces nothing.
SetManual(m) ==
    /\ running
    /\ manual' = m
    /\ inMemoryStatus' = Effective(userSockets, m)
    /\ ResetIdle(userSockets, m)
    /\ UNCHANGED <<running, conn, memory, grace, announced>>

-----------------------------------------------------------------------------
(* Timers *)

\* After 15 seconds: the sockets are counted again.
GraceEnds ==
    /\ running /\ grace
    /\ grace' = FALSE
    /\ announced' = IF userSockets = {} THEN "offline" ELSE announced
    /\ UNCHANGED <<running, conn, memory, idle, inMemoryStatus, manual>>

\* After 15 minutes without activity; the timer is not set again.
IdleEnds ==
    /\ running /\ idle
    /\ idle' = FALSE
    /\ IF userSockets # {} /\ manual \in {"none", "online"}
       THEN inMemoryStatus' = "idle" /\ announced' = "idle"
       ELSE UNCHANGED <<inMemoryStatus, announced>>
    /\ UNCHANGED <<running, conn, memory, grace, manual>>

\* cleanup: the process ends, and its sockets with it.
Cleanup ==
    /\ running
    /\ running' = FALSE
    /\ conn' = [s \in Tabs |-> "closed"]
    /\ userSockets' = {} /\ socketUser' = {}
    /\ grace' = FALSE /\ idle' = FALSE
    /\ inMemoryStatus' = "none"
    /\ UNCHANGED <<manual, announced>>

-----------------------------------------------------------------------------

LocalNext ==
    \/ \E s \in Tabs : \/ UserConnect(s) \/ Load(s) \/ Activity(s)
                          \/ UserDisconnect(s) \/ DisconnectEarly(s)
    \/ LogOut \/ GraceEnds \/ IdleEnds \/ Cleanup
    \/ \E m \in Chosen : SetManual(m)

LocalSpec == LocalInit /\ [][LocalNext]_localVars

-----------------------------------------------------------------------------
(* Properties *)

\* The types of the variables.
LocalTypeOK ==
    /\ running \in BOOLEAN
    /\ conn \in [Tabs -> Stage]
    /\ userSockets \in SUBSET Tabs /\ socketUser \in SUBSET Tabs
    /\ grace \in BOOLEAN /\ idle \in BOOLEAN
    /\ inMemoryStatus \in Status \cup {"none"}
    /\ manual \in Manual
    /\ announced \in Status

\* Whoever has left is announced offline or has a grace timer that will do it,
\* and whoever has come back in time is not announced offline.
DepartureIsWatched ==
    running => (announced = "offline" <=> userSockets = {} /\ ~grace)

\* A user who is online by himself has an idle timer, whichever of his tabs
\* opened, closed or logged out, and in whatever order.
OnlineIsWatched ==
    userSockets # {} /\ inMemoryStatus = "online" /\ manual # "offline" => idle

=============================================================================
