------------------------------ MODULE Presence ------------------------------
(***************************************************************************)
(* Presence of one user across several server instances, as kept in Redis  *)
(* (distributed mode): the hash of his sockets, the activity of each, the  *)
(* deadlines after which he is idle or offline, his status, and the        *)
(* instances' heartbeats and user lists by which the sockets of a dead     *)
(* instance are found.  No script touches the keys of two users, so one    *)
(* user is enough.                                                         *)
(*                                                                         *)
(* A Lua script is one step.  The sweep for orphans and the clean-up at    *)
(* shutdown are sequences of awaited commands, and several steps.  A tick  *)
(* is five seconds, the period of the heartbeat.  The timers of a running  *)
(* instance are taken to be on time, to a tick.                            *)
(***************************************************************************)
EXTENDS Naturals

CONSTANTS
    Instances,   \* server processes; a restarted one is a new instance
    Sockets,     \* socket ids
    Grace,       \* ticks to the offline deadline (15 s)
    SweepEvery,  \* ticks between two sweeps (10 s)
    Ttl,         \* ticks a heartbeat key lives (15 s)
    Saved,       \* profiles.manual_presence of the user
    Chosen       \* the manual statuses he chooses from; "clear" is none

ASSUME PresenceAssumption ==
    /\ Grace \in Nat \ {0} /\ SweepEvery \in Nat \ {0} /\ Ttl \in Nat \ {0}
    /\ Saved \in {"auto", "idle", "dnd"}
    /\ Chosen \subseteq {"auto", "idle", "dnd", "clear"}

VARIABLES
    life,        \* of an instance: running, shutting down or not
    conn,        \* of a connection: its handler and its socket
    cache,       \* of an instance: manualPresenceCache
    sockets,     \* presence:sockets, the fields instance:socket
    fresh,       \* presence:activity, the fields younger than 15 minutes
    indexed,     \* the instances whose presence:instance:*:users has the user
    registered,  \* presence:instances
    ttl,         \* of an instance: ticks its heartbeat key has left
    known,       \* the user is in presence:active_users
    offlineDue,  \* his score in presence:offline_deadlines, in ticks from now
    idleDue,     \* his score in presence:idle_deadlines
    status,      \* presence:user, the status
    manual,      \* presence:user, the manual status
    wait,        \* of an instance: ticks to its next sweep
    sweep,       \* of an instance: where its sweep is
    listed,      \* instances that have read the user's offline deadline as due
    missed,      \* history: instances whose clean-up script failed for the user
    dropped      \* history: a shutdown took him out of active_users although he
                 \* was connected again

process == <<life, conn, cache>>
hashes == <<sockets, fresh>>
due == <<offlineDue, idleDue>>
user == <<status, manual>>
cluster == <<registered, ttl>>
timers == <<wait, sweep, listed>>
mishaps == <<missed, dropped>>
vars == <<life, conn, cache, sockets, fresh, indexed, registered, ttl, known,
          offlineDue, idleDue, status, manual, wait, sweep, listed, missed, dropped>>

-----------------------------------------------------------------------------

Fields == Instances \X Sockets
Owned(i) == {i} \X Sockets
Never == Grace + 1          \* no score

\* "emptied", "forgotten", "parted": stages of a shutdown, which ends "down".
Life == {"new", "up", "emptied", "forgotten", "parted", "down", "crashed"}
\* "opening": the connect handler awaits the profile.  "gone": the socket was
\* closed meanwhile.  "ghost": it was registered all the same.
Stage == {"none", "opening", "up", "gone", "ghost"}
Choice == {"auto", "idle", "dnd"}
Status == {"online", "idle", "dnd", "offline"}
SweepStage == {"idle", "dead", "unlist", "zadd", "zrem"}
SweepState == [at : SweepStage, todo : SUBSET Instances, target : Instances]

Closing(i) == life[i] \in {"emptied", "forgotten", "parted"}
Working(i) == life[i] = "up" \/ Closing(i)
Resting(i) == [at |-> "idle", todo |-> {}, target |-> i]

Shown(m) == IF m = "auto" THEN "online" ELSE m

Init ==
    /\ life \in [Instances -> {"new", "up"}]
    /\ \E i \in Instances : life[i] = "up"
    /\ conn = [f \in Fields |-> "none"]
    /\ cache = [i \in Instances |-> Saved]
    /\ sockets = {} /\ fresh = {} /\ indexed = {}
    /\ registered = {i \in Instances : life[i] = "up"}
    /\ ttl = [i \in Instances |-> IF life[i] = "up" THEN Ttl ELSE 0]
    /\ known = FALSE
    /\ offlineDue = Never /\ idleDue = "none"
    /\ status = "offline" /\ manual = "auto"
    /\ wait = [i \in Instances |-> SweepEvery]
    /\ sweep = [i \in Instances |-> Resting(i)]
    /\ listed = {}
    /\ missed = {} /\ dropped = FALSE

-----------------------------------------------------------------------------
(* What several scripts do when they have removed sockets *)

\* With the last socket the offline deadline is set and the idle one dropped.
Remove(S) ==
    /\ sockets' = sockets \ S
    /\ fresh' = fresh \ S
    /\ IF sockets \subseteq S
       THEN offlineDue' = Grace /\ idleDue' = "none"
       ELSE UNCHANGED due

-----------------------------------------------------------------------------
(* Connections *)

\* A socket is accepted; its handler awaits the saved manual status.
Open(f) ==
    /\ Working(f[1]) /\ conn[f] = "none"
    /\ conn' = [conn EXCEPT ![f] = "opening"]
    /\ UNCHANGED <<life, cache, hashes, indexed, cluster, known, due, user, timers, mishaps>>

\* Deviation: the instance's cache goes before the manual status in Redis.
RegisterCached(f) ==
    /\ Working(f[1]) /\ conn[f] \in {"opening", "gone"}
    /\ conn' = [conn EXCEPT ![f] = IF @ = "opening" THEN "up" ELSE "ghost"]
    /\ sockets' = sockets \cup {f}
    /\ fresh' = fresh \cup {f}
    /\ indexed' = indexed \cup {f[1]}
    /\ known' = TRUE
    /\ offlineDue' = Never
    /\ status' = Shown(cache[f[1]])
    /\ idleDue' = IF status' = "online" THEN "later" ELSE "none"
    /\ dropped' = FALSE
    /\ UNCHANGED <<life, cache, cluster, manual, timers, missed>>

\* handleSocketConnect: the script, with the status the instance has cached
\* unless Redis has a manual one.  Nothing asks whether the socket is still open.
Register(f) ==
    /\ Working(f[1]) /\ conn[f] \in {"opening", "gone"}
    /\ conn' = [conn EXCEPT ![f] = IF @ = "opening" THEN "up" ELSE "ghost"]
    /\ sockets' = sockets \cup {f}
    /\ fresh' = fresh \cup {f}
    /\ indexed' = indexed \cup {f[1]}
    /\ known' = TRUE
    /\ offlineDue' = Never
    /\ status' = Shown(IF manual = "auto" THEN cache[f[1]] ELSE manual)
    /\ idleDue' = IF status' = "online" THEN "later" ELSE "none"
    /\ dropped' = FALSE
    /\ UNCHANGED <<life, cache, cluster, manual, timers, missed>>

\* handleSocketDisconnect: the script.
Disconnect(f) ==
    /\ Working(f[1]) /\ conn[f] = "up"
    /\ conn' = [conn EXCEPT ![f] = "none"]
    /\ Remove({f})
    /\ indexed' = IF sockets' \cap Owned(f[1]) = {} THEN indexed \ {f[1]} ELSE indexed
    /\ UNCHANGED <<life, cache, cluster, known, user, timers, mishaps>>

\* A socket closed before its handler has noted whose it is: nothing is done.
DisconnectEarly(f) ==
    /\ Working(f[1]) /\ conn[f] = "opening"
    /\ conn' = [conn EXCEPT ![f] = "gone"]
    /\ UNCHANGED <<life, cache, hashes, indexed, cluster, known, due, user, timers, mishaps>>

\* handleUserActivity: only a registered socket counts, and it never overrides
\* a manual status.
Activity(f) ==
    /\ Working(f[1]) /\ conn[f] = "up"
    /\ f \in sockets
    /\ fresh' = fresh \cup {f}
    /\ IF manual # "auto"
       THEN idleDue' = "none" /\ UNCHANGED status
       ELSE /\ idleDue' = "later"
            /\ status' = IF status = "idle" THEN "online" ELSE status
    /\ UNCHANGED <<process, sockets, indexed, cluster, known, offlineDue, manual, timers, mishaps>>

\* setManualPresence, with m = "clear" for no choice: the instance's cache and
\* the script.
SetManual(i, m) ==
    /\ Working(i)
    /\ cache' = [cache EXCEPT ![i] = IF m = "clear" THEN Saved ELSE m]
    /\ manual' = IF m = "clear" THEN "auto" ELSE m
    /\ status' = IF sockets = {} THEN "offline"
                 ELSE IF manual' # "auto" THEN manual'
                 ELSE IF fresh = {} THEN "idle" ELSE "online"
    /\ idleDue' = IF status' = "online" THEN "later" ELSE "none"
    /\ UNCHANGED <<life, conn, hashes, indexed, cluster, known, offlineDue, timers, mishaps>>

\* setExplicitOffline: the sockets of every instance are forgotten at once.
LogOut(i) ==
    /\ Working(i)
    /\ sockets' = {} /\ fresh' = {}
    /\ indexed' = indexed \ {i}
    /\ known' = FALSE
    /\ offlineDue' = Never /\ idleDue' = "none"
    /\ status' = "offline"
    /\ UNCHANGED <<process, cluster, manual, timers, mishaps>>

-----------------------------------------------------------------------------
(* Time *)

\* Five seconds pass, once the sweeps that are due and the shutdowns are done.
Tick ==
    /\ \A i \in Instances :
          /\ ~Closing(i)
          /\ life[i] = "up" => wait[i] > 0 /\ sweep[i].at = "idle"
    /\ wait' = [i \in Instances |-> IF life[i] = "up" THEN wait[i] - 1 ELSE wait[i]]
    /\ ttl' = [i \in Instances |-> IF life[i] = "up" THEN Ttl
                                   ELSE IF ttl[i] = 0 THEN 0 ELSE ttl[i] - 1]
    /\ offlineDue' = IF offlineDue \in {0, Never} THEN offlineDue ELSE offlineDue - 1
    /\ UNCHANGED <<process, hashes, indexed, registered, known, idleDue, user, sweep, listed, mishaps>>

\* Fifteen minutes without activity on a socket.
GrowStale(f) ==
    /\ f \in fresh
    /\ fresh' = fresh \ {f}
    /\ UNCHANGED <<process, sockets, indexed, cluster, known, due, user, timers, mishaps>>

\* The idle deadline is fifteen minutes after the last activity, or later.
IdleDeadline ==
    /\ idleDue = "later" /\ fresh = {}
    /\ idleDue' = "now"
    /\ UNCHANGED <<process, hashes, indexed, cluster, known, offlineDue, user, timers, mishaps>>

-----------------------------------------------------------------------------
(* processIdleDeadlines and processOfflineDeadlines *)

\* The script checks again all that the list was made from.
GoIdle(i) ==
    /\ life[i] = "up"
    /\ idleDue = "now"
    /\ LET active == sockets # {} /\ manual = "auto"
       IN  /\ idleDue' = IF active /\ fresh # {} THEN "later" ELSE "none"
           /\ status' = IF active /\ fresh = {} /\ status = "online" THEN "idle" ELSE status
    /\ UNCHANGED <<process, hashes, indexed, cluster, known, offlineDue, manual, timers, mishaps>>

\* The due users are listed.
ListOffline(i) ==
    /\ life[i] = "up" /\ i \notin listed
    /\ offlineDue = 0
    /\ listed' = listed \cup {i}
    /\ UNCHANGED <<process, hashes, indexed, cluster, known, due, user, wait, sweep, mishaps>>

\* Deviation: the sockets are not counted again either.
GoOfflineAsListed(i) ==
    /\ Working(i) /\ i \in listed
    /\ listed' = listed \ {i}
    /\ offlineDue' = Never
    /\ idleDue' = "none" /\ known' = FALSE
    /\ fresh' = {} /\ status' = "offline"
    /\ UNCHANGED <<process, sockets, indexed, cluster, manual, wait, sweep, mishaps>>

\* Then the script, which does not look at the deadline again.
GoOffline(i) ==
    /\ Working(i) /\ i \in listed
    /\ listed' = listed \ {i}
    /\ offlineDue' = Never
    /\ IF sockets = {} /\ offlineDue # Never
       THEN /\ idleDue' = "none" /\ known' = FALSE
            /\ fresh' = {} /\ status' = "offline"
       ELSE UNCHANGED <<idleDue, known, fresh, status>>
    /\ UNCHANGED <<process, sockets, indexed, cluster, manual, wait, sweep, mishaps>>

\* Another instance holds the lock for this user.
SkipOffline(i) ==
    /\ i \in listed /\ listed # {i}
    /\ listed' = listed \ {i}
    /\ UNCHANGED <<process, hashes, indexed, cluster, known, due, user, wait, sweep, mishaps>>

-----------------------------------------------------------------------------
(* sweepDeadInstances, then sweepOrphanedSocketFields *)

Goes(i, next) == sweep' = [sweep EXCEPT ![i] = next]

SweepStart(i) ==
    /\ life[i] = "up" /\ wait[i] = 0 /\ sweep[i].at = "idle"
    /\ wait' = [wait EXCEPT ![i] = SweepEvery]
    /\ Goes(i, [at |-> "dead", todo |-> registered \ {i}, target |-> i])
    /\ UNCHANGED <<process, hashes, indexed, cluster, known, due, user, listed, mishaps>>

\* An instance on the list has a heartbeat.
SweepPass(i, j) ==
    /\ Working(i) /\ sweep[i].at = "dead" /\ j \in sweep[i].todo
    /\ ttl[j] > 0
    /\ Goes(i, [sweep[i] EXCEPT !.todo = @ \ {j}])
    /\ UNCHANGED <<process, hashes, indexed, cluster, known, due, user, wait, listed, mishaps>>

\* Deviation: the index is deleted without a look at the sockets.
SweepDeadIndexOnly(i, j) ==
    /\ Working(i) /\ sweep[i].at = "dead" /\ j \in sweep[i].todo
    /\ ttl[j] = 0
    /\ Goes(i, [at |-> "unlist", todo |-> sweep[i].todo \ {j}, target |-> j])
    /\ UNCHANGED <<process, hashes, due, indexed, cluster, known, user, wait, listed, mishaps>>

\* It has none: the script removes its sockets, if its index names the user.
SweepDead(i, j) ==
    /\ Working(i) /\ sweep[i].at = "dead" /\ j \in sweep[i].todo
    /\ ttl[j] = 0
    /\ IF j \in indexed THEN Remove(Owned(j)) ELSE UNCHANGED <<hashes, due>>
    /\ Goes(i, [at |-> "unlist", todo |-> sweep[i].todo \ {j}, target |-> j])
    /\ UNCHANGED <<process, indexed, cluster, known, user, wait, listed, mishaps>>

\* The script fails: the error is caught, and the sweep goes on to delete the
\* index all the same.
SweepDeadFails(i, j) ==
    /\ Working(i) /\ sweep[i].at = "dead" /\ j \in sweep[i].todo
    /\ ttl[j] = 0 /\ j \in indexed
    /\ missed' = missed \cup {j}
    /\ Goes(i, [at |-> "unlist", todo |-> sweep[i].todo \ {j}, target |-> j])
    /\ UNCHANGED <<process, hashes, due, indexed, cluster, known, user, wait, listed, dropped>>

\* Then its index is deleted and it leaves presence:instances.
SweepUnlist(i) ==
    /\ Working(i) /\ sweep[i].at = "unlist"
    /\ indexed' = indexed \ {sweep[i].target}
    /\ registered' = registered \ {sweep[i].target}
    /\ Goes(i, [sweep[i] EXCEPT !.at = "dead"])
    /\ UNCHANGED <<process, hashes, ttl, known, due, user, wait, listed, mishaps>>

\* The sockets of an active user whose instance has no heartbeat are deleted,
\* and the sockets that remain are counted.
SweepOrphans(i) ==
    /\ Working(i) /\ sweep[i].at = "dead" /\ sweep[i].todo = {}
    /\ LET orphans == {f \in sockets : f[1] # i /\ ttl[f[1]] = 0}
       IN  IF known
           THEN /\ sockets' = sockets \ orphans
                /\ fresh' = fresh \ orphans
                /\ Goes(i, [Resting(i) EXCEPT !.at = IF sockets' = {} THEN "zadd" ELSE "idle"])
           ELSE Goes(i, Resting(i)) /\ UNCHANGED hashes
    /\ UNCHANGED <<process, indexed, cluster, known, due, user, wait, listed, mishaps>>

\* None were left: a new deadline, whether there was one or not.
SweepZadd(i) ==
    /\ Working(i) /\ sweep[i].at = "zadd"
    /\ offlineDue' = Grace
    /\ Goes(i, [sweep[i] EXCEPT !.at = "zrem"])
    /\ UNCHANGED <<process, hashes, indexed, cluster, known, idleDue, user, wait, listed, mishaps>>

SweepZrem(i) ==
    /\ Working(i) /\ sweep[i].at = "zrem"
    /\ idleDue' = "none"
    /\ Goes(i, Resting(i))
    /\ UNCHANGED <<process, hashes, indexed, cluster, known, offlineDue, user, wait, listed, mishaps>>

\* Another command of the sweep fails, and the timer's catch ends it.
SweepFails(i) ==
    /\ Working(i) /\ sweep[i].at # "idle"
    /\ Goes(i, Resting(i))
    /\ UNCHANGED <<process, hashes, indexed, cluster, known, due, user, wait, listed, mishaps>>

-----------------------------------------------------------------------------
(* Instances start, shut down and crash *)

\* registerInstance.
Boot(i) ==
    /\ life[i] = "new"
    /\ life' = [life EXCEPT ![i] = "up"]
    /\ registered' = registered \cup {i}
    /\ ttl' = [ttl EXCEPT ![i] = Ttl]
    /\ UNCHANGED <<conn, cache, hashes, indexed, known, due, user, timers, mishaps>>

\* The deployment keeps an instance up.
Spare(i) == \E j \in Instances \ {i} : life[j] = "up"

\* Its connections and its memory are gone.
Vanish(i) ==
    /\ conn' = [f \in Fields |-> IF f[1] = i THEN "none" ELSE conn[f]]
    /\ cache' = [cache EXCEPT ![i] = Saved]
    /\ wait' = [wait EXCEPT ![i] = SweepEvery]
    /\ sweep' = [sweep EXCEPT ![i] = Resting(i)]
    /\ listed' = listed \ {i}

Crash(i) ==
    /\ life[i] = "up" /\ Spare(i)
    /\ life' = [life EXCEPT ![i] = "crashed"]
    /\ Vanish(i)
    /\ UNCHANGED <<hashes, indexed, cluster, known, due, user, mishaps>>

\* cleanupOwnedPresenceSockets: the sockets of the instance go, the rest are
\* counted ...
ShutDown(i) ==
    /\ life[i] = "up" /\ Spare(i)
    /\ IF i \in indexed
       THEN /\ sockets' = sockets \ Owned(i)
            /\ fresh' = fresh \ Owned(i)
            /\ life' = [life EXCEPT ![i] = IF sockets' = {} THEN "emptied" ELSE "parted"]
       ELSE /\ life' = [life EXCEPT ![i] = "parted"]
            /\ UNCHANGED hashes
    /\ UNCHANGED <<conn, cache, indexed, cluster, known, due, user, timers, mishaps>>

\* ... with none left the user leaves active_users ...
ShutForget(i) ==
    /\ life[i] = "emptied"
    /\ life' = [life EXCEPT ![i] = "forgotten"]
    /\ known' = FALSE /\ dropped' = (sockets # {})
    /\ UNCHANGED <<conn, cache, hashes, indexed, cluster, due, user, timers, missed>>

\* Deviation: no deadline.
ShutDeadlineNone(i) ==
    /\ life[i] = "forgotten"
    /\ life' = [life EXCEPT ![i] = "parted"]
    /\ idleDue' = "none"
    /\ UNCHANGED <<conn, cache, hashes, indexed, cluster, known, offlineDue, user, timers, mishaps>>

\* ... and gets a deadline that is due at once.
ShutDeadline(i) ==
    /\ life[i] = "forgotten"
    /\ life' = [life EXCEPT ![i] = "parted"]
    /\ idleDue' = "none" /\ offlineDue' = 0
    /\ UNCHANGED <<conn, cache, hashes, indexed, cluster, known, user, timers, mishaps>>

\* The end of cleanup: the instance's own keys.
ShutEnd(i) ==
    /\ life[i] = "parted"
    /\ life' = [life EXCEPT ![i] = "down"]
    /\ registered' = registered \ {i}
    /\ ttl' = [ttl EXCEPT ![i] = 0]
    /\ indexed' = indexed \ {i}
    /\ Vanish(i)
    /\ UNCHANGED <<hashes, known, due, user, mishaps>>

-----------------------------------------------------------------------------

Sweeps(i) ==
    \/ SweepStart(i) \/ SweepUnlist(i) \/ SweepOrphans(i) \/ SweepZadd(i) \/ SweepZrem(i)
    \/ \E j \in Instances : SweepPass(i, j) \/ SweepDead(i, j) \/ SweepDeadFails(i, j)

Next ==
    \/ \E f \in Fields : \/ Open(f) \/ Register(f) \/ Activity(f) \/ GrowStale(f)
                         \/ Disconnect(f) \/ DisconnectEarly(f)
    \/ \E i \in Instances : \/ \E m \in Chosen : SetManual(i, m)
                            \/ LogOut(i) \/ Sweeps(i) \/ SweepFails(i) \/ Boot(i)
                            \/ GoIdle(i) \/ ListOffline(i) \/ GoOffline(i) \/ SkipOffline(i)
                            \/ Crash(i) \/ ShutDown(i) \/ ShutForget(i)
                            \/ ShutDeadline(i) \/ ShutEnd(i)
    \/ Tick \/ IdleDeadline

Spec == Init /\ [][Next]_vars

\* Time passes, sweeps go on, and the three-second timer of the offline
\* processor of some instance takes in a user who stays due.
FairSpec ==
    /\ Spec
    /\ WF_vars(Tick)
    /\ \A i \in Instances : WF_vars(Sweeps(i)) /\ WF_vars(GoOffline(i))
    /\ WF_vars(\E i \in Instances : ListOffline(i))

-----------------------------------------------------------------------------
(* Properties *)

TypeOK ==
    /\ life \in [Instances -> Life]
    /\ conn \in [Fields -> Stage]
    /\ cache \in [Instances -> Choice]
    /\ sockets \subseteq Fields /\ fresh \subseteq Fields
    /\ indexed \subseteq Instances /\ registered \subseteq Instances
    /\ ttl \in [Instances -> 0 .. Ttl]
    /\ known \in BOOLEAN
    /\ offlineDue \in 0 .. Never
    /\ idleDue \in {"none", "later", "now"}
    /\ status \in Status /\ manual \in Choice
    /\ wait \in [Instances -> 0 .. SweepEvery]
    /\ sweep \in [Instances -> SweepState]
    /\ listed \subseteq Instances
    /\ missed \subseteq Instances /\ dropped \in BOOLEAN

\* A user with a registered socket is not offline, although the deadline, the
\* list of due users and the sweep's count of his sockets may all be stale.
ConnectedIsNotOffline == sockets # {} => status # "offline"

\* A manual status wins as long as the user is connected: over activity, idle
\* deadlines and other instances' caches.
ManualWins == sockets # {} /\ manual # "auto" => status = manual

\* A user without sockets who is not offline yet is where a sweep, the offline
\* processor or a shutdown under way will find him.
NobodyForgotten ==
    sockets = {} /\ status # "offline" =>
        \/ known \/ offlineDue # Never
        \/ \E i \in Instances : life[i] \in {"emptied", "forgotten"}

\* The sockets of a crashed instance are found: neither the index nor the
\* instance's name goes before they do, unless the clean-up script failed for
\* the user.  Then the sweep for orphans finds them through active_users, which
\* a user with sockets leaves only when he reconnects during a shutdown.
CrashedSocketsAreFound ==
    \A f \in sockets : life[f[1]] = "crashed" =>
        f[1] \in indexed \cap registered \/ (f[1] \in missed /\ (known \/ dropped))

(* What a comment says and the code does not do. *)

\* "grace period 15s" before offline is announced: a user who has left and does
\* not come back is offline in the end.
GoesOffline ==
    (\A f \in Fields : conn[f] = "none") /\ status # "offline"
        ~> status = "offline" \/ \E f \in Fields : conn[f] # "none"

=============================================================================
