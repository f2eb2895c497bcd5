-------------------------------- MODULE Typing --------------------------------
(***************************************************************************)
(* Who is typing where.  With Redis: a sorted set per conversation or      *)
(* channel that scores its users by the time their indication ends, and    *)
(* the set of those targets, which every instance sweeps each second; a    *)
(* lock of two seconds lets one of them through per target.  Without       *)
(* Redis: the maps and timers of the one instance a user is connected to.  *)
(*                                                                         *)
(* An instance finds out at every call whether Redis is there.  The lists  *)
(* that are broadcast after each change are left out.                      *)
(***************************************************************************)
EXTENDS Naturals, FiniteSets

CONSTANTS
    Typists,
    Targets,        \* conversations and channels
    Instances,
    MaxStarts,      \* bound: indications that are not throttled
    MaxLosses       \* bound: losses of Redis and of instances

ASSUME TypingAssumption == MaxStarts \in Nat /\ MaxLosses \in Nat

VARIABLES
    scores,     \* typing:<target>: of a user no score, one to come, or one past
    targets,    \* typing:targets
    lock,       \* lock:typing:sweeper:<target> is there
    sweep,      \* of an instance: the targets it has still to look at
    redisUp,    \* Redis is there
    up,         \* instances that run
    local,      \* typing maps of an instance: pairs of a target and a user
    timer,      \* typingTimers: none, running, or fired and still in the map
    recent,     \* userLastTypingAt: pairs whose mark is less than 1.5 s old
    starts,     \* history: indications so far
    losses      \* history: failures so far

shared == <<scores, targets, lock>>
own == <<local, timer, recent>>
typingVars == <<shared, own, sweep, redisUp, up, starts, losses>>

-----------------------------------------------------------------------------

Pairs == Targets \X Typists

TypingInit ==
    /\ scores = [t \in Targets |-> [u \in Typists |-> "none"]]
    /\ targets = {} /\ lock = {}
    /\ sweep = [i \in Instances |-> {}]
    /\ redisUp = TRUE /\ up = Instances
    /\ local = [i \in Instances |-> {}]
    /\ timer = [i \in Instances |-> [p \in Pairs |-> "none"]]
    /\ recent = [i \in Instances |-> {}]
    /\ starts = 0 /\ losses = 0

Entered(t) == {u \in Typists : scores[t][u] # "none"}
Ahead(t) == {u \in Typists : scores[t][u] = "ahead"}

\* zremrangebyscore up to now, in every script.
Drop(t) == [u \in Typists |-> IF scores[t][u] = "past" THEN "none" ELSE scores[t][u]]

-----------------------------------------------------------------------------
(* typing:start *)

\* startTyping
StartShared(t, u) ==
    /\ targets' = targets \cup {t}
    /\ scores' = [scores EXCEPT ![t] = [Drop(t) EXCEPT ![u] = "ahead"]]
    /\ UNCHANGED <<lock, local, timer>>

\* addTyping, refreshTypingTimer
StartLocal(i, t, u) ==
    /\ local' = [local EXCEPT ![i] = @ \cup {<<t, u>>}]
    /\ timer' = [timer EXCEPT ![i][<<t, u>>] = "running"]
    /\ UNCHANGED shared

Start(i, t, u) ==
    /\ i \in up /\ <<t, u>> \notin recent[i] /\ starts < MaxStarts
    /\ starts' = starts + 1
    /\ recent' = [recent EXCEPT ![i] = @ \cup {<<t, u>>}]
    /\ IF redisUp THEN StartShared(t, u) ELSE StartLocal(i, t, u)
    /\ UNCHANGED <<sweep, redisUp, up, losses>>

\* Too soon: no more than the timer.
Throttled(i, t, u) ==
    /\ i \in up /\ <<t, u>> \in recent[i] /\ ~redisUp
    /\ timer' = [timer EXCEPT ![i][<<t, u>>] = "running"]
    /\ UNCHANGED <<shared, local, recent, sweep, redisUp, up, starts, losses>>

-----------------------------------------------------------------------------
(* typing:stop, leaving a room, the timer *)

\* Deviation: the target goes with any of its users.
Unlist(t, rest) == targets' = targets \ {t}

\* del and srem when nobody is left.
UnlistEmpty(t, rest) == targets' = IF rest = {} THEN targets \ {t} ELSE targets

\* stopTyping
StopShared(t, u) ==
    /\ scores' = [scores EXCEPT ![t] = [Drop(t) EXCEPT ![u] = "none"]]
    /\ UnlistEmpty(t, Ahead(t) \ {u})
    /\ UNCHANGED <<lock, own>>

ForgetTyping(i, t, u) ==
    /\ local' = [local EXCEPT ![i] = @ \ {<<t, u>>}]
    /\ timer' = [timer EXCEPT ![i][<<t, u>>] = "none"]
    /\ recent' = [recent EXCEPT ![i] = @ \ {<<t, u>>}]

\* removeTyping: where the user was put when he started is not looked at.
Stop(i, t, u) ==
    /\ i \in up
    /\ IF redisUp THEN StopShared(t, u) ELSE ForgetTyping(i, t, u) /\ UNCHANGED shared
    /\ UNCHANGED <<sweep, redisUp, up, starts, losses>>

TimerFires(i, t, u) ==
    /\ i \in up /\ timer[i][<<t, u>>] = "running"
    /\ IF redisUp
       THEN /\ scores' = [scores EXCEPT ![t] = [Drop(t) EXCEPT ![u] = "none"]]
            /\ UnlistEmpty(t, Ahead(t) \ {u})
            /\ timer' = [timer EXCEPT ![i][<<t, u>>] = "fired"]
            /\ UNCHANGED <<lock, local, recent>>
       ELSE ForgetTyping(i, t, u) /\ UNCHANGED shared
    /\ UNCHANGED <<sweep, redisUp, up, starts, losses>>

\* clearUserTyping: a socket of the user is gone, whatever others he has.
ClearUserTyping(i, u) ==
    /\ i \in up
    /\ local' = [local EXCEPT ![i] = {p \in @ : p[2] # u}]
    /\ recent' = [recent EXCEPT ![i] = {p \in @ : p[2] # u \/ timer[i][p] = "none"}]
    /\ timer' = [timer EXCEPT ![i] = [p \in Pairs |-> IF p[2] = u THEN "none" ELSE @[p]]]
    /\ UNCHANGED <<shared, sweep, redisUp, up, starts, losses>>

-----------------------------------------------------------------------------
(* The sweeper *)

SweepStart(i) ==
    /\ i \in up /\ redisUp /\ sweep[i] = {} /\ targets # {}
    /\ sweep' = [sweep EXCEPT ![i] = targets]
    /\ UNCHANGED <<shared, own, redisUp, up, starts, losses>>

\* The lock is not given back: it runs out.
SweepTarget(i, t) ==
    /\ i \in up /\ redisUp /\ t \in sweep[i]
    /\ IF t \in lock THEN UNCHANGED shared
       ELSE /\ lock' = lock \cup {t}
            /\ scores' = [scores EXCEPT ![t] = Drop(t)]
            /\ UnlistEmpty(t, Ahead(t))
    /\ sweep' = [sweep EXCEPT ![i] = @ \ {t}]
    /\ UNCHANGED <<own, redisUp, up, starts, losses>>

\* A command fails while Redis is away, and the sweep with it.
SweepFails(i, t) ==
    /\ ~redisUp /\ t \in sweep[i]
    /\ sweep' = [sweep EXCEPT ![i] = @ \ {t}]
    /\ UNCHANGED <<shared, own, redisUp, up, starts, losses>>

-----------------------------------------------------------------------------
(* Time and failures *)

\* Deviation: the lock is set without a time to live.
LockStays(t) == FALSE /\ UNCHANGED typingVars

LockEnds(t) ==
    /\ t \in lock
    /\ lock' = lock \ {t}
    /\ UNCHANGED <<scores, targets, own, sweep, redisUp, up, starts, losses>>

ScorePasses(t, u) ==
    /\ scores[t][u] = "ahead"
    /\ scores' = [scores EXCEPT ![t][u] = "past"]
    /\ UNCHANGED <<targets, lock, own, sweep, redisUp, up, starts, losses>>

MarkAges(i, p) ==
    /\ p \in recent[i]
    /\ recent' = [recent EXCEPT ![i] = @ \ {p}]
    /\ UNCHANGED <<shared, local, timer, sweep, redisUp, up, starts, losses>>

RedisLost ==
    /\ redisUp /\ losses < MaxLosses
    /\ redisUp' = FALSE /\ losses' = losses + 1
    /\ UNCHANGED <<shared, own, sweep, up, starts>>

RedisBack ==
    /\ ~redisUp
    /\ redisUp' = TRUE
    /\ UNCHANGED <<shared, own, sweep, up, starts, losses>>

\* One instance stays up.
InstanceStops(i) ==
    /\ i \in up /\ up # {i} /\ losses < MaxLosses
    /\ up' = up \ {i} /\ losses' = losses + 1
    /\ sweep' = [sweep EXCEPT ![i] = {}]
    /\ local' = [local EXCEPT ![i] = {}]
    /\ timer' = [timer EXCEPT ![i] = [p \in Pairs |-> "none"]]
    /\ recent' = [recent EXCEPT ![i] = {}]
    /\ UNCHANGED <<shared, redisUp, starts>>

-----------------------------------------------------------------------------

UserStep(i, t, u) ==
    Start(i, t, u) \/ Throttled(i, t, u) \/ Stop(i, t, u) \/ TimerFires(i, t, u)

TypingNext ==
    \/ \E i \in Instances, t \in Targets, u \in Typists : UserStep(i, t, u)
    \/ \E i \in Instances, u \in Typists : ClearUserTyping(i, u)
    \/ \E i \in Instances : SweepStart(i) \/ InstanceStops(i)
    \/ \E i \in Instances, t \in Targets : SweepTarget(i, t) \/ SweepFails(i, t)
    \/ \E t \in Targets : LockEnds(t)
    \/ \E t \in Targets, u \in Typists : ScorePasses(t, u)
    \/ \E i \in Instances, p \in Pairs : MarkAges(i, p)
    \/ RedisLost \/ RedisBack

TypingSpec == TypingInit /\ [][TypingNext]_typingVars

\* Time passes, timers fire, each instance that runs sweeps every second, and a
\* Redis that was lost comes back.
Fairness ==
    /\ \A t \in Targets : WF_typingVars(LockEnds(t))
    /\ \A t \in Targets, u \in Typists : WF_typingVars(ScorePasses(t, u))
    /\ \A i \in Instances : WF_typingVars(SweepStart(i))
    /\ \A i \in Instances, t \in Targets :
        WF_typingVars(SweepTarget(i, t)) /\ WF_typingVars(SweepFails(i, t))
    /\ \A i \in Instances, t \in Targets, u \in Typists : WF_typingVars(TimerFires(i, t, u))
    /\ WF_typingVars(RedisBack)

TypingFairSpec == TypingSpec /\ Fairness

-----------------------------------------------------------------------------
(* Properties *)

\* The types of the variables.
TypingTypeOK ==
    /\ scores \in [Targets -> [Typists -> {"none", "ahead", "past"}]]
    /\ targets \in SUBSET Targets /\ lock \in SUBSET Targets
    /\ sweep \in [Instances -> SUBSET Targets]
    /\ redisUp \in BOOLEAN /\ up \in SUBSET Instances
    /\ local \in [Instances -> SUBSET Pairs]
    /\ timer \in [Instances -> [Pairs -> {"none", "running", "fired"}]]
    /\ recent \in [Instances -> SUBSET Pairs]
    /\ starts \in 0..MaxStarts /\ losses \in 0..MaxLosses

\* Whoever is typing is in a target the sweepers look at, whichever script of
\* which instance came last: nobody is left typing for ever.
TypistsAreListed == \A t \in Targets : Entered(t) # {} => t \in targets

\* An indication ends, although the lock is held by an instance that stopped or
\* Redis is lost meanwhile.
TypingEnds ==
    \A t \in Targets, u \in Typists : scores[t][u] = "past" ~> scores[t][u] # "past"
=============================================================================
