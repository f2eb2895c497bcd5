---------------------------- MODULE Presence_proofs ----------------------------
(***************************************************************************)
(* Proofs about Presence for any instances, sockets, periods and choices.  *)
(***************************************************************************)
EXTENDS Presence, TLAPS

-------------------------------------------------------------------------------
(* Types.                                                                     *)

LEMMA NeverIsNat ==
  /\ Never \in Nat /\ Never \in 0 .. Never
  /\ Grace \in 0 .. Never /\ Grace # Never /\ 0 # Never
  BY PresenceAssumption DEF Never

LEMMA ShownIsStatus == \A m \in Choice : Shown(m) \in Status \ {"offline"}
  BY DEF Shown, Choice, Status

LEMMA RemoveTypes ==
  ASSUME TypeOK, NEW S, Remove(S)
  PROVE  /\ sockets' \subseteq Fields /\ fresh' \subseteq Fields
         /\ offlineDue' \in 0 .. Never /\ idleDue' \in {"none", "later", "now"}
  BY NeverIsNat DEF TypeOK, Remove, due

LEMMA InitTypeOK == Init => TypeOK
<1> SUFFICES ASSUME Init PROVE TypeOK
  OBVIOUS
<1>1. life \in [Instances -> Life]
  BY DEF Init, Life
<1>2. ttl \in [Instances -> 0 .. Ttl]
  BY PresenceAssumption DEF Init
<1>3. wait \in [Instances -> 0 .. SweepEvery]
  BY PresenceAssumption DEF Init
<1>4. cache \in [Instances -> Choice]
  BY PresenceAssumption DEF Init, Choice
<1>5. sweep \in [Instances -> SweepState]
  BY DEF Init, SweepState, SweepStage, Resting
<1>6. conn \in [Fields -> Stage]
  BY DEF Init, Stage
<1>7. registered \subseteq Instances
  BY DEF Init
<1>8. /\ sockets \subseteq Fields /\ fresh \subseteq Fields
      /\ indexed \subseteq Instances /\ listed \subseteq Instances
      /\ missed \subseteq Instances /\ dropped \in BOOLEAN
  BY DEF Init
<1>a. known \in BOOLEAN /\ offlineDue \in 0 .. Never
  BY NeverIsNat DEF Init
<1>9. /\ idleDue \in {"none", "later", "now"}
      /\ status \in Status /\ manual \in Choice
  BY DEF Init, Status, Choice
<1> QED
  BY <1>1, <1>2, <1>3, <1>4, <1>5, <1>6, <1>7, <1>8, <1>9, <1>a DEF TypeOK

LEMMA SweepTypes ==
  ASSUME TypeOK, NEW i \in Instances, NEW next \in SweepState, Goes(i, next)
  PROVE  sweep' \in [Instances -> SweepState]
  BY DEF TypeOK, Goes

LEMMA RestingType == \A i \in Instances : Resting(i) \in SweepState
  BY DEF Resting, SweepState, SweepStage

LEMMA SweepsTypeOK ==
  ASSUME TypeOK, NEW i \in Instances, Sweeps(i)
  PROVE  TypeOK'
<1> USE DEF process, hashes, due, user, cluster, timers, mishaps
<1>1. sweep[i] \in SweepState
  BY DEF TypeOK
<1>2. CASE SweepStart(i)
  <2>1. [at |-> "dead", todo |-> registered \ {i}, target |-> i] \in SweepState
    BY DEF TypeOK, SweepState, SweepStage
  <2>2. sweep' \in [Instances -> SweepState]
    BY <1>2, <2>1, SweepTypes DEF SweepStart
  <2>3. wait' \in [Instances -> 0 .. SweepEvery]
    BY <1>2, PresenceAssumption DEF TypeOK, SweepStart
  <2> QED
    BY <1>2, <2>2, <2>3 DEF TypeOK, SweepStart
<1>3. CASE SweepUnlist(i)
  <2>1. [sweep[i] EXCEPT !.at = "dead"] \in SweepState
    BY <1>1 DEF SweepState, SweepStage
  <2>2. sweep' \in [Instances -> SweepState]
    BY <1>3, <2>1, SweepTypes DEF SweepUnlist
  <2> QED
    BY <1>3, <2>2 DEF TypeOK, SweepUnlist
<1>4. CASE SweepOrphans(i)
  <2>1. [Resting(i) EXCEPT !.at = IF sockets' = {} THEN "zadd" ELSE "idle"] \in SweepState
    BY DEF Resting, SweepState, SweepStage
  <2>2. sweep' \in [Instances -> SweepState]
    BY <1>4, <2>1, RestingType, SweepTypes DEF SweepOrphans
  <2>3. sockets' \subseteq Fields /\ fresh' \subseteq Fields
    BY <1>4 DEF TypeOK, SweepOrphans
  <2> QED
    BY <1>4, <2>2, <2>3 DEF TypeOK, SweepOrphans
<1>5. CASE SweepZadd(i)
  <2>1. [sweep[i] EXCEPT !.at = "zrem"] \in SweepState
    BY <1>1 DEF SweepState, SweepStage
  <2>2. sweep' \in [Instances -> SweepState]
    BY <1>5, <2>1, SweepTypes DEF SweepZadd
  <2> QED
    BY <1>5, <2>2, NeverIsNat DEF TypeOK, SweepZadd
<1>6. CASE SweepZrem(i)
  <2>1. sweep' \in [Instances -> SweepState]
    BY <1>6, RestingType, SweepTypes DEF SweepZrem
  <2> QED
    BY <1>6, <2>1 DEF TypeOK, SweepZrem
<1>7. ASSUME NEW j \in Instances, SweepPass(i, j)
      PROVE  TypeOK'
  <2>1. [sweep[i] EXCEPT !.todo = sweep[i].todo \ {j}] \in SweepState
    BY <1>1 DEF SweepState
  <2>2. sweep' \in [Instances -> SweepState]
    BY <1>7, <2>1, SweepTypes DEF SweepPass
  <2> QED
    BY <1>7, <2>2 DEF TypeOK, SweepPass
<1>8. ASSUME NEW j \in Instances, SweepDead(i, j)
      PROVE  TypeOK'
  <2>1. [at |-> "unlist", todo |-> sweep[i].todo \ {j}, target |-> j] \in SweepState
    BY <1>1 DEF SweepState, SweepStage
  <2>2. sweep' \in [Instances -> SweepState]
    BY <1>8, <2>1, SweepTypes DEF SweepDead
  <2>3. /\ sockets' \subseteq Fields /\ fresh' \subseteq Fields
        /\ offlineDue' \in 0 .. Never /\ idleDue' \in {"none", "later", "now"}
    BY <1>8, RemoveTypes DEF TypeOK, SweepDead
  <2> QED
    BY <1>8, <2>2, <2>3 DEF TypeOK, SweepDead
<1>9. ASSUME NEW j \in Instances, SweepDeadFails(i, j)
      PROVE  TypeOK'
  <2>1. [at |-> "unlist", todo |-> sweep[i].todo \ {j}, target |-> j] \in SweepState
    BY <1>1 DEF SweepState, SweepStage
  <2>2. sweep' \in [Instances -> SweepState]
    BY <1>9, <2>1, SweepTypes DEF SweepDeadFails
  <2> QED
    BY <1>9, <2>2 DEF TypeOK, SweepDeadFails
<1> QED
  BY <1>2, <1>3, <1>4, <1>5, <1>6, <1>7, <1>8, <1>9 DEF Sweeps

LEMMA VanishTypes ==
  ASSUME TypeOK, NEW i \in Instances, Vanish(i)
  PROVE  /\ conn' \in [Fields -> Stage] /\ cache' \in [Instances -> Choice]
         /\ wait' \in [Instances -> 0 .. SweepEvery]
         /\ sweep' \in [Instances -> SweepState] /\ listed' \subseteq Instances
<1>1. conn' \in [Fields -> Stage]
  BY DEF TypeOK, Vanish, Stage
<1>2. cache' \in [Instances -> Choice] /\ listed' \subseteq Instances
  BY PresenceAssumption DEF TypeOK, Vanish, Choice
<1>3. wait' \in [Instances -> 0 .. SweepEvery]
  BY PresenceAssumption DEF TypeOK, Vanish
<1>4. sweep' \in [Instances -> SweepState]
  BY RestingType DEF TypeOK, Vanish
<1> QED
  BY <1>1, <1>2, <1>3, <1>4

\* What the scripts of one socket keep.
LEMMA SocketTypeOK ==
  ASSUME TypeOK, NEW f \in Fields
  PROVE  /\ Open(f) => TypeOK'
         /\ Register(f) => TypeOK'
         /\ Activity(f) => TypeOK'
         /\ GrowStale(f) => TypeOK'
         /\ Disconnect(f) => TypeOK'
         /\ DisconnectEarly(f) => TypeOK'
<1> USE DEF process, hashes, due, user, cluster, timers, mishaps
<1>0. f[1] \in Instances
  BY DEF Fields
<1>1. ASSUME Open(f) PROVE TypeOK'
  <2>1. conn' \in [Fields -> Stage]
    BY <1>1 DEF TypeOK, Open, Stage
  <2> QED
    BY <1>1, <2>1 DEF TypeOK, Open
<1>2. ASSUME Register(f) PROVE TypeOK'
  <2>1. conn' \in [Fields -> Stage]
    BY <1>2 DEF TypeOK, Register, Stage
  <2>2. (IF manual = "auto" THEN cache[f[1]] ELSE manual) \in Choice
    BY <1>0 DEF TypeOK
  <2>3. status' \in Status
    BY <1>2, <2>2, ShownIsStatus DEF Register
  <2>4. idleDue' \in {"none", "later", "now"}
    BY <1>2 DEF Register
  <2>5. sockets' \subseteq Fields /\ fresh' \subseteq Fields /\ indexed' \subseteq Instances
    BY <1>0, <1>2 DEF TypeOK, Register
  <2> QED
    BY <1>2, <2>1, <2>3, <2>4, <2>5, NeverIsNat DEF TypeOK, Register
<1>3. ASSUME Activity(f) PROVE TypeOK'
  <2>1. status' \in Status /\ idleDue' \in {"none", "later", "now"}
    BY <1>3 DEF TypeOK, Activity, Status
  <2> QED
    BY <1>3, <2>1 DEF TypeOK, Activity
<1>4. ASSUME GrowStale(f) PROVE TypeOK'
  BY <1>4 DEF TypeOK, GrowStale
<1>5. ASSUME Disconnect(f) PROVE TypeOK'
  <2>1. conn' \in [Fields -> Stage]
    BY <1>5 DEF TypeOK, Disconnect, Stage
  <2>2. Remove({f})
    BY <1>5 DEF Disconnect
  <2>3. /\ sockets' \subseteq Fields /\ fresh' \subseteq Fields
        /\ offlineDue' \in 0 .. Never /\ idleDue' \in {"none", "later", "now"}
    BY <2>2, RemoveTypes
  <2> QED
    BY <1>5, <2>1, <2>3 DEF TypeOK, Disconnect
<1>6. ASSUME DisconnectEarly(f) PROVE TypeOK'
  <2>1. conn' \in [Fields -> Stage]
    BY <1>6 DEF TypeOK, DisconnectEarly, Stage
  <2> QED
    BY <1>6, <2>1 DEF TypeOK, DisconnectEarly
<1> QED
  BY <1>1, <1>2, <1>3, <1>4, <1>5, <1>6

LEMMA ChoiceTypeOK ==
  ASSUME TypeOK, NEW i \in Instances, NEW m \in Chosen, SetManual(i, m)
  PROVE  TypeOK'
<1> USE DEF process, hashes, due, user, cluster, timers, mishaps
<1>1. m # "clear" => m \in Choice
  BY PresenceAssumption DEF Choice
<1>2. Saved \in Choice /\ "auto" \in Choice
  BY PresenceAssumption DEF Choice
<1>3. cache' \in [Instances -> Choice] /\ manual' \in Choice
  BY <1>1, <1>2 DEF TypeOK, SetManual
<1>4. status' \in Status
  BY <1>3 DEF SetManual, Status, Choice
<1>5. idleDue' \in {"none", "later", "now"}
  BY DEF SetManual
<1> QED
  BY <1>3, <1>4, <1>5 DEF TypeOK, SetManual

\* What the processors and the life of an instance keep.
LEMMA InstanceTypeOK ==
  ASSUME TypeOK, NEW i \in Instances
  PROVE  /\ LogOut(i) => TypeOK'
         /\ GoIdle(i) => TypeOK'
         /\ ListOffline(i) => TypeOK'
         /\ GoOffline(i) => TypeOK'
         /\ SkipOffline(i) => TypeOK'
         /\ SweepFails(i) => TypeOK'
         /\ Boot(i) => TypeOK'
         /\ Crash(i) => TypeOK'
         /\ ShutDown(i) => TypeOK'
         /\ ShutForget(i) => TypeOK'
         /\ ShutDeadline(i) => TypeOK'
         /\ ShutEnd(i) => TypeOK'
<1> USE DEF process, hashes, due, user, cluster, timers, mishaps
<1>1. ASSUME LogOut(i) PROVE TypeOK'
  <2>1. /\ sockets' \subseteq Fields /\ fresh' \subseteq Fields
        /\ indexed' \subseteq Instances
    BY <1>1 DEF TypeOK, LogOut
  <2>2. /\ known' \in BOOLEAN /\ offlineDue' \in 0 .. Never
        /\ idleDue' \in {"none", "later", "now"} /\ status' \in Status
    BY <1>1, NeverIsNat DEF LogOut, Status
  <2> QED
    BY <1>1, <2>1, <2>2 DEF TypeOK, LogOut
<1>2. ASSUME GoIdle(i) PROVE TypeOK'
  <2>1. status' \in Status /\ idleDue' \in {"none", "later", "now"}
    BY <1>2 DEF TypeOK, GoIdle, Status
  <2> QED
    BY <1>2, <2>1 DEF TypeOK, GoIdle
<1>3. ASSUME ListOffline(i) PROVE TypeOK'
  BY <1>3 DEF TypeOK, ListOffline
<1>4. ASSUME GoOffline(i) PROVE TypeOK'
  <2>1. /\ status' \in Status /\ idleDue' \in {"none", "later", "now"}
        /\ known' \in BOOLEAN /\ fresh' \subseteq Fields
    BY <1>4 DEF TypeOK, GoOffline, Status
  <2> QED
    BY <1>4, <2>1, NeverIsNat DEF TypeOK, GoOffline
<1>5. ASSUME SkipOffline(i) PROVE TypeOK'
  BY <1>5 DEF TypeOK, SkipOffline
<1>6. ASSUME Boot(i) PROVE TypeOK'
  <2>1. life' \in [Instances -> Life]
    BY <1>6 DEF TypeOK, Boot, Life
  <2>2. ttl' \in [Instances -> 0 .. Ttl]
    BY <1>6, PresenceAssumption DEF TypeOK, Boot
  <2> QED
    BY <1>6, <2>1, <2>2 DEF TypeOK, Boot
<1>7. ASSUME Crash(i) PROVE TypeOK'
  <2>1. life' \in [Instances -> Life]
    BY <1>7 DEF TypeOK, Crash, Life
  <2>2. Vanish(i)
    BY <1>7 DEF Crash
  <2> QED
    BY <1>7, <2>1, <2>2, VanishTypes DEF TypeOK, Crash
<1>8. ASSUME ShutDown(i) PROVE TypeOK'
  <2>1. life' \in [Instances -> Life]
    BY <1>8 DEF TypeOK, ShutDown, Life
  <2>2. sockets' \subseteq Fields /\ fresh' \subseteq Fields
    BY <1>8 DEF TypeOK, ShutDown
  <2> QED
    BY <1>8, <2>1, <2>2 DEF TypeOK, ShutDown
<1>9. ASSUME ShutForget(i) PROVE TypeOK'
  <2>1. life' \in [Instances -> Life]
    BY <1>9 DEF TypeOK, ShutForget, Life
  <2> QED
    BY <1>9, <2>1 DEF TypeOK, ShutForget
<1>10. ASSUME ShutDeadline(i) PROVE TypeOK'
  <2>1. life' \in [Instances -> Life]
    BY <1>10 DEF TypeOK, ShutDeadline, Life
  <2> QED
    BY <1>10, <2>1, NeverIsNat DEF TypeOK, ShutDeadline
<1>11. ASSUME ShutEnd(i) PROVE TypeOK'
  <2>1. life' \in [Instances -> Life]
    BY <1>11 DEF TypeOK, ShutEnd, Life
  <2>2. Vanish(i)
    BY <1>11 DEF ShutEnd
  <2>3. ttl' \in [Instances -> 0 .. Ttl]
    BY <1>11, PresenceAssumption DEF TypeOK, ShutEnd
  <2> QED
    BY <1>11, <2>1, <2>2, <2>3, VanishTypes DEF TypeOK, ShutEnd
<1>12. ASSUME SweepFails(i) PROVE TypeOK'
  <2>1. sweep' \in [Instances -> SweepState]
    BY <1>12, RestingType, SweepTypes DEF SweepFails
  <2> QED
    BY <1>12, <2>1 DEF TypeOK, SweepFails
<1> QED
  BY <1>1, <1>2, <1>3, <1>4, <1>5, <1>6, <1>7, <1>8, <1>9, <1>10, <1>11, <1>12

LEMMA TimeTypeOK ==
  ASSUME TypeOK, Tick \/ IdleDeadline
  PROVE  TypeOK'
<1> USE DEF process, hashes, due, user, cluster, timers, mishaps
<1>1. CASE IdleDeadline
  BY <1>1 DEF TypeOK, IdleDeadline
<1>2. CASE Tick
  <2>1. wait' \in [Instances -> 0 .. SweepEvery]
    <3>1. ASSUME NEW i \in Instances
          PROVE  (IF life[i] = "up" THEN wait[i] - 1 ELSE wait[i]) \in 0 .. SweepEvery
      BY <1>2, <3>1, PresenceAssumption DEF TypeOK, Tick
    <3> QED
      BY <1>2, <3>1 DEF Tick
  <2>2. ttl' \in [Instances -> 0 .. Ttl]
    <3>1. ASSUME NEW i \in Instances
          PROVE  (IF life[i] = "up" THEN Ttl ELSE IF ttl[i] = 0 THEN 0 ELSE ttl[i] - 1)
                    \in 0 .. Ttl
      BY <3>1, PresenceAssumption DEF TypeOK
    <3> QED
      BY <1>2, <3>1 DEF Tick
  <2>3. offlineDue' \in 0 .. Never
    BY <1>2, NeverIsNat DEF TypeOK, Tick
  <2> QED
    BY <1>2, <2>1, <2>2, <2>3 DEF TypeOK, Tick
<1> QED
  BY <1>1, <1>2

LEMMA NextTypeOK == TypeOK /\ [Next]_vars => TypeOK'
<1> SUFFICES ASSUME TypeOK, [Next]_vars PROVE TypeOK'
  OBVIOUS
<1>1. CASE UNCHANGED vars
  BY <1>1 DEF TypeOK, vars
<1>2. CASE \E f \in Fields : \/ Open(f) \/ Register(f) \/ Activity(f) \/ GrowStale(f)
                             \/ Disconnect(f) \/ DisconnectEarly(f)
  BY <1>2, SocketTypeOK
<1>3. ASSUME NEW i \in Instances, NEW m \in Chosen, SetManual(i, m) PROVE TypeOK'
  BY <1>3, ChoiceTypeOK
<1>4. ASSUME NEW i \in Instances, Sweeps(i) PROVE TypeOK'
  BY <1>4, SweepsTypeOK
<1>5. CASE Tick \/ IdleDeadline
  BY <1>5, TimeTypeOK
<1> QED
  BY <1>1, <1>2, <1>3, <1>4, <1>5, InstanceTypeOK DEF Next

\* Every reachable state is of the right types.
THEOREM TypeCorrect == Spec => []TypeOK
  BY InitTypeOK, NextTypeOK, PTL DEF Spec

-------------------------------------------------------------------------------
(* The status.  Most steps take sockets away, at most, and leave it alone.     *)

SocketsOnlyLeave == sockets' \subseteq sockets /\ UNCHANGED user

LEMMA QuietSteps ==
  /\ \A f \in Fields :
        Open(f) \/ GrowStale(f) \/ Disconnect(f) \/ DisconnectEarly(f) => SocketsOnlyLeave
  /\ \A i \in Instances :
        \/ Sweeps(i) \/ SweepFails(i) \/ ListOffline(i) \/ SkipOffline(i) \/ Boot(i) \/ Crash(i)
        \/ ShutDown(i) \/ ShutForget(i) \/ ShutDeadline(i) \/ ShutEnd(i)
        => SocketsOnlyLeave
  /\ Tick \/ IdleDeadline \/ UNCHANGED vars => SocketsOnlyLeave
<1> USE DEF process, hashes, user, SocketsOnlyLeave
<1>1. ASSUME NEW f \in Fields,
             Open(f) \/ GrowStale(f) \/ Disconnect(f) \/ DisconnectEarly(f)
      PROVE  SocketsOnlyLeave
  BY <1>1 DEF Open, GrowStale, Disconnect, DisconnectEarly, Remove
<1>2. ASSUME NEW i \in Instances, Sweeps(i) \/ SweepFails(i) PROVE SocketsOnlyLeave
  BY <1>2 DEF Sweeps, SweepStart, SweepUnlist, SweepOrphans, SweepZadd, SweepZrem,
              SweepPass, SweepDead, SweepDeadFails, SweepFails, Remove
<1>3. ASSUME NEW i \in Instances, ListOffline(i) \/ SkipOffline(i) \/ Boot(i) \/ Crash(i)
      PROVE  SocketsOnlyLeave
  BY <1>3 DEF ListOffline, SkipOffline, Boot, Crash
<1>4. ASSUME NEW i \in Instances,
             ShutDown(i) \/ ShutForget(i) \/ ShutDeadline(i) \/ ShutEnd(i)
      PROVE  SocketsOnlyLeave
  BY <1>4 DEF ShutDown, ShutForget, ShutDeadline, ShutEnd
<1>5. Tick \/ IdleDeadline \/ UNCHANGED vars => SocketsOnlyLeave
  BY DEF Tick, IdleDeadline, vars
<1> QED
  BY <1>1, <1>2, <1>3, <1>4, <1>5

\* The two statements about the status of a connected user, together.
StatusOfConnected == ConnectedIsNotOffline /\ ManualWins

LEMMA StatusStep == TypeOK /\ StatusOfConnected /\ [Next]_vars => StatusOfConnected'
<1> SUFFICES ASSUME TypeOK, StatusOfConnected, [Next]_vars PROVE StatusOfConnected'
  OBVIOUS
<1> USE DEF StatusOfConnected, ConnectedIsNotOffline, ManualWins, user
<1>1. CASE SocketsOnlyLeave
  BY <1>1 DEF SocketsOnlyLeave
<1>2. ASSUME NEW f \in Fields, Register(f) PROVE StatusOfConnected'
  <2>1. f[1] \in Instances
    BY DEF Fields
  <2>2. (IF manual = "auto" THEN cache[f[1]] ELSE manual) \in Choice
    BY <2>1 DEF TypeOK
  <2>3. status' # "offline"
    BY <1>2, <2>2, ShownIsStatus DEF Register
  <2>4. manual' # "auto" => status' = manual'
    BY <1>2 DEF Register, Shown
  <2> QED
    BY <2>3, <2>4
<1>3. ASSUME NEW f \in Fields, Activity(f) PROVE StatusOfConnected'
  BY <1>3 DEF Activity, process
<1>4. ASSUME NEW i \in Instances, NEW m \in Chosen, SetManual(i, m) PROVE StatusOfConnected'
  <2>1. m # "clear" => m # "offline"
    BY PresenceAssumption
  <2>2. status' # "offline" \/ sockets = {}
    BY <1>4, <2>1 DEF SetManual
  <2>3. sockets # {} /\ manual' # "auto" => status' = manual'
    BY <1>4 DEF SetManual
  <2> QED
    BY <1>4, <2>2, <2>3 DEF SetManual, hashes
<1>5. ASSUME NEW i \in Instances, LogOut(i) PROVE StatusOfConnected'
  BY <1>5 DEF LogOut
<1>6. ASSUME NEW i \in Instances, GoIdle(i) PROVE StatusOfConnected'
  BY <1>6 DEF GoIdle, hashes
<1>7. ASSUME NEW i \in Instances, GoOffline(i) PROVE StatusOfConnected'
  BY <1>7 DEF GoOffline
<1> QED
  BY <1>1, <1>2, <1>3, <1>4, <1>5, <1>6, <1>7, QuietSteps DEF Next

\* No processor takes a connected user offline, however old its list is.
THEOREM NotOfflineWhileConnected == Spec => []ConnectedIsNotOffline
<1>1. Init => StatusOfConnected
  BY DEF Init, StatusOfConnected, ConnectedIsNotOffline, ManualWins
<1>2. StatusOfConnected => ConnectedIsNotOffline
  BY DEF StatusOfConnected
<1> QED
  BY <1>1, <1>2, StatusStep, TypeCorrect, PTL DEF Spec

\* A manual status is shown for as long as its user is connected.
THEOREM ManualStatusIsShown == Spec => []ManualWins
<1>1. Init => StatusOfConnected
  BY DEF Init, StatusOfConnected, ConnectedIsNotOffline, ManualWins
<1>2. StatusOfConnected => ManualWins
  BY DEF StatusOfConnected
<1> QED
  BY <1>1, <1>2, StatusStep, TypeCorrect, PTL DEF Spec

-------------------------------------------------------------------------------
(* Nobody is forgotten.                                                        *)

Leaving == \E i \in Instances : life[i] \in {"emptied", "forgotten"}

LEMMA ForgottenStep == TypeOK /\ NobodyForgotten /\ [Next]_vars => NobodyForgotten'
<1> SUFFICES ASSUME TypeOK, NobodyForgotten, [Next]_vars,
                    sockets' = {}, status' # "offline"
             PROVE  known' \/ offlineDue' # Never \/ Leaving'
  BY DEF NobodyForgotten, Leaving
<1> USE DEF process, hashes, due, user, cluster, timers, mishaps
<1>1. sockets = {} /\ status # "offline" => known \/ offlineDue # Never \/ Leaving
  BY DEF NobodyForgotten, Leaving
<1>2. ASSUME NEW f \in Fields, Open(f) \/ GrowStale(f) \/ DisconnectEarly(f) \/ Activity(f)
      PROVE  known' \/ offlineDue' # Never \/ Leaving'
  BY <1>1, <1>2 DEF Open, GrowStale, DisconnectEarly, Activity, Leaving
<1>3. ASSUME NEW f \in Fields, Register(f)
      PROVE  known' \/ offlineDue' # Never \/ Leaving'
  BY <1>3 DEF Register
<1>4. ASSUME NEW S, Remove(S)
      PROVE  offlineDue' # Never
  BY <1>4, NeverIsNat DEF Remove
<1>5. ASSUME NEW f \in Fields, Disconnect(f)
      PROVE  known' \/ offlineDue' # Never \/ Leaving'
  BY <1>4, <1>5 DEF Disconnect
<1>6. ASSUME NEW i \in Instances, NEW m \in Chosen, SetManual(i, m)
      PROVE  FALSE
  BY <1>6 DEF SetManual
<1>7. ASSUME NEW i \in Instances,
             LogOut(i) \/ GoIdle(i) \/ ListOffline(i) \/ SkipOffline(i) \/ SweepFails(i)
      PROVE  known' \/ offlineDue' # Never \/ Leaving'
  BY <1>1, <1>7 DEF LogOut, GoIdle, ListOffline, SkipOffline, SweepFails, Leaving
<1>8. ASSUME NEW i \in Instances, GoOffline(i)
      PROVE  known' \/ offlineDue' # Never \/ Leaving'
  BY <1>1, <1>8 DEF GoOffline, Leaving
<1>9. ASSUME NEW i \in Instances, Sweeps(i)
      PROVE  known' \/ offlineDue' # Never \/ Leaving'
  <2>1. CASE SweepStart(i) \/ SweepUnlist(i) \/ SweepZrem(i)
    BY <1>1, <2>1 DEF SweepStart, SweepUnlist, SweepZrem, Leaving
  <2>2. CASE SweepOrphans(i)
    BY <1>1, <2>2 DEF SweepOrphans, Leaving
  <2>3. CASE SweepZadd(i)
    BY <2>3, NeverIsNat DEF SweepZadd
  <2>4. ASSUME NEW j \in Instances, SweepPass(i, j)
        PROVE  known' \/ offlineDue' # Never \/ Leaving'
    BY <1>1, <2>4 DEF SweepPass, Leaving
  <2>5. ASSUME NEW j \in Instances, SweepDead(i, j)
        PROVE  known' \/ offlineDue' # Never \/ Leaving'
    BY <1>1, <1>4, <2>5 DEF SweepDead, Leaving
  <2>6. ASSUME NEW j \in Instances, SweepDeadFails(i, j)
        PROVE  known' \/ offlineDue' # Never \/ Leaving'
    BY <1>1, <2>6 DEF SweepDeadFails, Leaving
  <2> QED
    BY <1>9, <2>1, <2>2, <2>3, <2>4, <2>5, <2>6 DEF Sweeps
<1>10. ASSUME NEW i \in Instances, Boot(i) \/ Crash(i)
       PROVE  known' \/ offlineDue' # Never \/ Leaving'
  <2>1. Leaving => Leaving'
    BY <1>10 DEF Boot, Crash, Leaving, TypeOK
  <2> QED
    BY <1>1, <1>10, <2>1 DEF Boot, Crash
<1>11. ASSUME NEW i \in Instances, ShutDown(i)
       PROVE  known' \/ offlineDue' # Never \/ Leaving'
  <2>1. CASE i \in indexed
    BY <1>11, <2>1 DEF ShutDown, Leaving, TypeOK
  <2>2. CASE i \notin indexed
    <3>1. Leaving => Leaving'
      BY <1>11, <2>2 DEF ShutDown, Leaving, TypeOK
    <3> QED
      BY <1>1, <1>11, <2>2, <3>1 DEF ShutDown
  <2> QED
    BY <2>1, <2>2
<1>12. ASSUME NEW i \in Instances, ShutForget(i)
       PROVE  Leaving'
  BY <1>12 DEF ShutForget, Leaving, TypeOK
<1>13. ASSUME NEW i \in Instances, ShutDeadline(i)
       PROVE  offlineDue' # Never
  BY <1>13, NeverIsNat DEF ShutDeadline
<1>14. ASSUME NEW i \in Instances, ShutEnd(i)
       PROVE  known' \/ offlineDue' # Never \/ Leaving'
  <2>1. Leaving => Leaving'
    BY <1>14 DEF ShutEnd, Leaving, TypeOK
  <2> QED
    BY <1>1, <1>14, <2>1 DEF ShutEnd
<1>15. CASE Tick
  <2>1. offlineDue # Never => offlineDue' # Never
    BY <1>15, PresenceAssumption DEF Tick, TypeOK, Never
  <2> QED
    BY <1>1, <1>15, <2>1 DEF Tick, Leaving
<1>16. CASE IdleDeadline
  BY <1>1, <1>16 DEF IdleDeadline, Leaving
<1>17. CASE UNCHANGED vars
  BY <1>1, <1>17 DEF vars, Leaving
<1> QED
  BY <1>2, <1>3, <1>5, <1>6, <1>7, <1>8, <1>9, <1>10, <1>11, <1>12, <1>13, <1>14,
     <1>15, <1>16, <1>17 DEF Next

\* A user who has left is known to whoever has to take him offline.
THEOREM LeftUsersAreKnown == Spec => []NobodyForgotten
<1>1. Init => NobodyForgotten
  BY DEF Init, NobodyForgotten
<1> QED
  BY <1>1, ForgottenStep, TypeCorrect, PTL DEF Spec

-------------------------------------------------------------------------------
(* The sockets of a crashed instance.  Both lists they are found by are cut    *)
(* by SweepUnlist, so the invariant says of whom a sweep unlists.              *)

\* A working instance has a heartbeat and is listed.
WorkingIsListed == \A i \in Instances : Working(i) => ttl[i] > 0 /\ i \in registered

\* No sweep looks at an instance that has not started yet.
NewIsUnknown ==
  \A i \in Instances : life[i] = "new" =>
      i \notin registered /\ \A k \in Instances : i \notin sweep[k].todo

\* Nothing is left of an instance, or the script for it failed.
Cleaned(i) == sockets \cap Owned(i) = {} \/ i \in missed

\* A socket is indexed, unless its instance has shut down, or has crashed and the
\* script for it failed.
SocketsAreIndexed ==
  \A f \in sockets : life[f[1]] # "down" =>
      f[1] \in indexed \cap registered \/ (life[f[1]] = "crashed" /\ f[1] \in missed)

\* An instance about to be unlisted is down, or crashed and cleaned.
UnlistedIsEmpty ==
  \A k \in Instances : sweep[k].at = "unlist" =>
      \/ life[sweep[k].target] = "down"
      \/ life[sweep[k].target] = "crashed" /\ Cleaned(sweep[k].target)

Found == WorkingIsListed /\ NewIsUnknown /\ SocketsAreIndexed /\ UnlistedIsEmpty

\* What a step may do without harm: take sockets, lists' entries and plans away.
Untouched ==
  /\ UNCHANGED <<life, registered, indexed>>
  /\ sockets' \subseteq sockets /\ missed \subseteq missed'
  /\ \A i \in Instances : Working(i) => ttl'[i] > 0

LEMMA UntouchedSweeps ==
  ASSUME TypeOK, Found, Untouched, UNCHANGED sweep
  PROVE  Found'
<1> USE DEF Found, Untouched, Working, Closing, Cleaned
<1>1. WorkingIsListed' /\ NewIsUnknown'
  BY DEF WorkingIsListed, NewIsUnknown
<1>2. SocketsAreIndexed' /\ UnlistedIsEmpty'
  BY DEF SocketsAreIndexed, UnlistedIsEmpty
<1> QED
  BY <1>1, <1>2

\* A sweep goes on to a place where it neither unlists nor looks at a new one.
LEMMA SweepGoesOn ==
  ASSUME TypeOK, Found, Untouched, NEW k \in Instances, NEW next \in SweepState,
         Goes(k, next), next.at # "unlist", next.todo \subseteq sweep[k].todo \cup registered
  PROVE  Found'
<1> USE DEF Found, Untouched, Working, Closing, Cleaned
<1>1. sweep' \in [Instances -> SweepState] /\ sweep'[k] = next
      /\ \A i \in Instances \ {k} : sweep'[i] = sweep[i]
  BY DEF Goes, TypeOK
<1>2. WorkingIsListed' /\ SocketsAreIndexed'
  BY DEF WorkingIsListed, SocketsAreIndexed
<1>3. NewIsUnknown'
  BY <1>1 DEF NewIsUnknown
<1>4. UnlistedIsEmpty'
  <2> SUFFICES ASSUME NEW i \in Instances, sweep'[i].at = "unlist"
               PROVE  \/ life[sweep'[i].target] = "down"
                      \/ /\ life[sweep'[i].target] = "crashed"
                         /\ \/ sockets' \cap Owned(sweep'[i].target) = {}
                            \/ sweep'[i].target \in missed'
    BY DEF UnlistedIsEmpty, Cleaned
  <2>1. sweep'[i] = sweep[i]
    BY <1>1
  <2> QED
    BY <2>1 DEF UnlistedIsEmpty
<1> QED
  BY <1>2, <1>3, <1>4

LEMMA FoundKeptBySweeps ==
  ASSUME TypeOK, Found, NEW k \in Instances, Sweeps(k)
  PROVE  Found'
<1> USE DEF process, hashes, due, user, cluster, timers, mishaps
<1>1. sweep[k] \in SweepState /\ Resting(k) \in SweepState
  BY RestingType DEF TypeOK
<1>2. \A i \in Instances : Working(i) => ttl[i] > 0
  BY DEF Found, WorkingIsListed
<1>3. CASE SweepStart(k)
  <2> DEFINE next == [at |-> "dead", todo |-> registered \ {k}, target |-> k]
  <2>1. next \in SweepState /\ next.at # "unlist" /\ next.todo \subseteq registered
    BY DEF TypeOK, SweepState, SweepStage
  <2>2. Goes(k, next) /\ Untouched
    BY <1>2, <1>3 DEF SweepStart, Untouched
  <2> HIDE DEF next
  <2> QED
    BY <2>1, <2>2, SweepGoesOn
<1>4. CASE SweepOrphans(k)
  <2> DEFINE next == [Resting(k) EXCEPT !.at = IF known /\ sockets' = {} THEN "zadd" ELSE "idle"]
  <2>1. next \in SweepState /\ next.at # "unlist" /\ next.todo = {}
    BY DEF SweepState, SweepStage, Resting
  <2>2. Goes(k, next) /\ Untouched
    <3>1. CASE known
      BY <1>2, <1>4, <3>1 DEF SweepOrphans, Untouched
    <3>2. CASE ~known
      <4>1. next = Resting(k)
        BY <3>2 DEF Resting
      <4> QED
        BY <1>2, <1>4, <3>2, <4>1 DEF SweepOrphans, Untouched
    <3> QED
      BY <3>1, <3>2
  <2> HIDE DEF next
  <2> QED
    BY <2>1, <2>2, SweepGoesOn
<1>5. CASE SweepZadd(k)
  <2> DEFINE next == [sweep[k] EXCEPT !.at = "zrem"]
  <2>1. next \in SweepState /\ next.at # "unlist" /\ next.todo = sweep[k].todo
    BY <1>1 DEF SweepState, SweepStage
  <2>2. Goes(k, next) /\ Untouched
    BY <1>2, <1>5 DEF SweepZadd, Untouched
  <2> HIDE DEF next
  <2> QED
    BY <2>1, <2>2, SweepGoesOn
<1>6. CASE SweepZrem(k)
  <2>1. Resting(k).at # "unlist" /\ Resting(k).todo = {}
    BY DEF Resting
  <2>2. Goes(k, Resting(k)) /\ Untouched
    BY <1>2, <1>6 DEF SweepZrem, Untouched
  <2> QED
    BY <1>1, <2>1, <2>2, SweepGoesOn
<1>7. ASSUME NEW j \in Instances, SweepPass(k, j)
      PROVE  Found'
  <2> DEFINE next == [sweep[k] EXCEPT !.todo = sweep[k].todo \ {j}]
  <2>1. next \in SweepState /\ next.at = sweep[k].at /\ next.todo = sweep[k].todo \ {j}
    BY <1>1 DEF SweepState
  <2>2. Goes(k, next) /\ Untouched /\ sweep[k].at = "dead"
    BY <1>2, <1>7 DEF SweepPass, Untouched
  <2> HIDE DEF next
  <2> QED
    BY <2>1, <2>2, SweepGoesOn
<1>8. ASSUME NEW j \in Instances, SweepDead(k, j)
      PROVE  Found'
  <2> DEFINE next == [at |-> "unlist", todo |-> sweep[k].todo \ {j}, target |-> j]
  <2>1. next \in SweepState /\ next.target = j /\ next.todo \subseteq sweep[k].todo
    BY <1>1 DEF SweepState, SweepStage
  <2>2. Goes(k, next) /\ UNCHANGED <<life, registered, indexed, ttl, missed>>
        /\ sockets' \subseteq sockets /\ ttl[j] = 0 /\ j \in sweep[k].todo
    BY <1>8 DEF SweepDead, Remove
  <2> HIDE DEF next
  <2>3. sweep'[k] = next /\ \A i \in Instances \ {k} : sweep'[i] = sweep[i]
    BY <2>1, <2>2 DEF Goes, TypeOK
  <2>4. WorkingIsListed' /\ SocketsAreIndexed'
    BY <2>2 DEF Found, WorkingIsListed, SocketsAreIndexed, Working, Closing
  <2>5. NewIsUnknown'
    BY <2>1, <2>2, <2>3 DEF Found, NewIsUnknown
  <2>6. life[j] = "down" \/ life[j] = "crashed"
    <3>1. ~Working(j)
      BY <1>2, <2>2
    <3>2. life[j] # "new"
      BY <2>2 DEF Found, NewIsUnknown
    <3> QED
      BY <3>1, <3>2 DEF TypeOK, Life, Working, Closing
  <2>7. life[j] = "crashed" => sockets' \cap Owned(j) = {} \/ j \in missed
    <3> SUFFICES ASSUME life[j] = "crashed" PROVE sockets' \cap Owned(j) = {} \/ j \in missed
      OBVIOUS
    <3>1. CASE j \in indexed
      BY <1>8, <3>1 DEF SweepDead, Remove
    <3>2. CASE j \notin indexed
      BY <1>8, <3>2 DEF SweepDead, Found, SocketsAreIndexed, Owned
    <3> QED
      BY <3>1, <3>2
  <2>8. UnlistedIsEmpty'
    <3> SUFFICES ASSUME NEW i \in Instances, sweep'[i].at = "unlist"
                 PROVE  \/ life[sweep'[i].target] = "down"
                        \/ /\ life[sweep'[i].target] = "crashed"
                           /\ \/ sockets' \cap Owned(sweep'[i].target) = {}
                              \/ sweep'[i].target \in missed'
      BY <2>2 DEF UnlistedIsEmpty, Cleaned
    <3>1. CASE i = k
      BY <2>1, <2>2, <2>3, <2>6, <2>7, <3>1
    <3>2. CASE i # k
      <4>1. sweep'[i] = sweep[i]
        BY <2>3, <3>2
      <4> QED
        BY <2>2, <4>1 DEF Found, UnlistedIsEmpty, Cleaned
    <3> QED
      BY <3>1, <3>2
  <2> QED
    BY <2>4, <2>5, <2>8 DEF Found
<1>9. CASE SweepUnlist(k)
  <2> DEFINE t == sweep[k].target
             next == [sweep[k] EXCEPT !.at = "dead"]
  <2>1. next \in SweepState /\ next.at = "dead" /\ next.todo = sweep[k].todo /\ t \in Instances
    BY <1>1 DEF SweepState, SweepStage
  <2>2. /\ Goes(k, next) /\ UNCHANGED <<life, ttl, sockets, missed>>
        /\ registered' = registered \ {t} /\ indexed' = indexed \ {t}
    BY <1>9 DEF SweepUnlist
  <2>3. \/ life[t] = "down"
        \/ life[t] = "crashed" /\ Cleaned(t)
    BY <1>9 DEF SweepUnlist, Found, UnlistedIsEmpty
  <2> HIDE DEF next, t
  <2>4. sweep'[k] = next /\ \A i \in Instances \ {k} : sweep'[i] = sweep[i]
    BY <2>1, <2>2 DEF Goes, TypeOK
  <2>5. WorkingIsListed'
    BY <2>2, <2>3 DEF Found, WorkingIsListed, Working, Closing
  <2>6. NewIsUnknown'
    BY <2>1, <2>2, <2>4 DEF Found, NewIsUnknown
  <2>7. SocketsAreIndexed'
    <3> SUFFICES ASSUME NEW f \in sockets, life[f[1]] # "down"
                 PROVE  \/ f[1] \in (indexed \cap registered) \ {t}
                        \/ life[f[1]] = "crashed" /\ f[1] \in missed
      BY <2>2 DEF SocketsAreIndexed
    <3>1. f \in Owned(f[1])
      BY DEF TypeOK, Fields, Owned
    <3> QED
      BY <2>3, <3>1 DEF Found, SocketsAreIndexed, Cleaned
  <2>8. UnlistedIsEmpty'
    <3> SUFFICES ASSUME NEW i \in Instances, sweep'[i].at = "unlist"
                 PROVE  \/ life[sweep'[i].target] = "down"
                        \/ /\ life[sweep'[i].target] = "crashed"
                           /\ \/ sockets \cap Owned(sweep'[i].target) = {}
                              \/ sweep'[i].target \in missed
      BY <2>2 DEF UnlistedIsEmpty, Cleaned
    <3>1. sweep'[i] = sweep[i]
      BY <2>1, <2>4
    <3> QED
      BY <3>1 DEF Found, UnlistedIsEmpty, Cleaned
  <2> QED
    BY <2>5, <2>6, <2>7, <2>8 DEF Found
<1>10. ASSUME NEW j \in Instances, SweepDeadFails(k, j)
       PROVE  Found'
  <2> DEFINE next == [at |-> "unlist", todo |-> sweep[k].todo \ {j}, target |-> j]
  <2>1. next \in SweepState /\ next.target = j /\ next.todo \subseteq sweep[k].todo
    BY <1>1 DEF SweepState, SweepStage
  <2>2. /\ Goes(k, next) /\ UNCHANGED <<life, registered, indexed, ttl, sockets>>
        /\ missed' = missed \cup {j} /\ ttl[j] = 0 /\ j \in sweep[k].todo
    BY <1>10 DEF SweepDeadFails
  <2> HIDE DEF next
  <2>3. sweep'[k] = next /\ \A i \in Instances \ {k} : sweep'[i] = sweep[i]
    BY <2>1, <2>2 DEF Goes, TypeOK
  <2>4. WorkingIsListed' /\ SocketsAreIndexed'
    BY <2>2 DEF Found, WorkingIsListed, SocketsAreIndexed, Working, Closing
  <2>5. NewIsUnknown'
    BY <2>1, <2>2, <2>3 DEF Found, NewIsUnknown
  <2>6. life[j] = "down" \/ life[j] = "crashed"
    <3>1. ~Working(j) /\ life[j] # "new"
      BY <1>2, <2>2 DEF Found, NewIsUnknown
    <3> QED
      BY <3>1 DEF TypeOK, Life, Working, Closing
  <2>7. UnlistedIsEmpty'
    <3> SUFFICES ASSUME NEW i \in Instances, sweep'[i].at = "unlist"
                 PROVE  \/ life[sweep'[i].target] = "down"
                        \/ /\ life[sweep'[i].target] = "crashed"
                           /\ \/ sockets' \cap Owned(sweep'[i].target) = {}
                              \/ sweep'[i].target \in missed'
      BY <2>2 DEF UnlistedIsEmpty, Cleaned
    <3>1. CASE i = k
      BY <2>1, <2>2, <2>3, <2>6, <3>1 DEF Cleaned
    <3>2. CASE i # k
      <4>1. sweep'[i] = sweep[i]
        BY <2>3, <3>2
      <4> QED
        BY <2>2, <4>1 DEF Found, UnlistedIsEmpty, Cleaned
    <3> QED
      BY <3>1, <3>2
  <2> QED
    BY <2>4, <2>5, <2>7 DEF Found
<1> QED
  BY <1>3, <1>4, <1>5, <1>6, <1>7, <1>8, <1>9, <1>10 DEF Sweeps

LEMMA FoundKeptBySockets ==
  ASSUME TypeOK, Found, NEW f \in Fields,
         \/ Open(f) \/ Register(f) \/ Activity(f) \/ GrowStale(f)
         \/ Disconnect(f) \/ DisconnectEarly(f)
  PROVE  Found'
<1> USE DEF process, hashes, due, user, cluster, timers, mishaps
<1>0. \A i \in Instances : Working(i) => ttl[i] > 0
  BY DEF Found, WorkingIsListed
<1>1. CASE Open(f) \/ Activity(f) \/ GrowStale(f) \/ DisconnectEarly(f)
  <2>1. Untouched /\ UNCHANGED sweep
    BY <1>0, <1>1 DEF Open, Activity, GrowStale, DisconnectEarly, Untouched
  <2> QED
    BY <2>1, UntouchedSweeps
<1>2. CASE Register(f)
  <2>1. f[1] \in Instances /\ f[1] \in registered /\ Working(f[1])
    BY <1>2 DEF Register, Fields, Found, WorkingIsListed
  <2>2. /\ UNCHANGED <<life, registered, ttl, sweep, missed>>
        /\ sockets' = sockets \cup {f} /\ indexed' = indexed \cup {f[1]}
    BY <1>2 DEF Register
  <2>3. WorkingIsListed' /\ NewIsUnknown'
    BY <2>2 DEF Found, WorkingIsListed, NewIsUnknown, Working, Closing
  <2>4. SocketsAreIndexed'
    BY <2>1, <2>2 DEF Found, SocketsAreIndexed
  <2>5. UnlistedIsEmpty'
    <3> SUFFICES ASSUME NEW k \in Instances, sweep[k].at = "unlist"
                 PROVE  \/ life[sweep[k].target] = "down"
                        \/ /\ life[sweep[k].target] = "crashed"
                           /\ \/ sockets' \cap Owned(sweep[k].target) = {}
                              \/ sweep[k].target \in missed
      BY <2>2 DEF UnlistedIsEmpty, Cleaned
    <3>1. \/ life[sweep[k].target] = "down"
          \/ life[sweep[k].target] = "crashed" /\ Cleaned(sweep[k].target)
      BY DEF Found, UnlistedIsEmpty, Cleaned
    <3>2. sweep[k].target # f[1]
      BY <2>1, <3>1 DEF Working, Closing
    <3>3. f \notin Owned(sweep[k].target)
      BY <3>2 DEF Owned
    <3> QED
      BY <2>2, <3>1, <3>3 DEF Cleaned
  <2> QED
    BY <2>3, <2>4, <2>5 DEF Found
<1>3. CASE Disconnect(f)
  <2>1. /\ UNCHANGED <<life, registered, ttl, sweep, missed>> /\ sockets' \subseteq sockets
        /\ indexed' = IF sockets' \cap Owned(f[1]) = {} THEN indexed \ {f[1]} ELSE indexed
    BY <1>3 DEF Disconnect, Remove
  <2>2. WorkingIsListed' /\ NewIsUnknown' /\ UnlistedIsEmpty'
    BY <2>1 DEF Found, WorkingIsListed, NewIsUnknown, UnlistedIsEmpty, Cleaned,
               Working, Closing
  <2>3. SocketsAreIndexed'
    <3> SUFFICES ASSUME NEW g \in sockets', life[g[1]] # "down"
                 PROVE  \/ g[1] \in indexed' \cap registered
                        \/ life[g[1]] = "crashed" /\ g[1] \in missed
      BY <2>1 DEF SocketsAreIndexed
    <3>1. /\ g \in Owned(g[1])
          /\ \/ g[1] \in indexed \cap registered
             \/ life[g[1]] = "crashed" /\ g[1] \in missed
      BY <2>1 DEF TypeOK, Fields, Owned, Found, SocketsAreIndexed
    <3> QED
      BY <2>1, <3>1
  <2> QED
    BY <2>2, <2>3 DEF Found
<1> QED
  BY <1>1, <1>2, <1>3

LEMMA FoundKeptByProcessors ==
  ASSUME TypeOK, Found, NEW i \in Instances,
         \/ \E m \in Chosen : SetManual(i, m)
         \/ LogOut(i) \/ GoIdle(i) \/ ListOffline(i) \/ GoOffline(i) \/ SkipOffline(i)
         \/ SweepFails(i)
  PROVE  Found'
<1> USE DEF process, hashes, due, user, cluster, timers, mishaps
<1>0. \A k \in Instances : Working(k) => ttl[k] > 0
  BY DEF Found, WorkingIsListed
<1>1. CASE LogOut(i)
  <2>1. sockets' = {} /\ UNCHANGED <<life, registered, ttl, sweep>>
    BY <1>1 DEF LogOut
  <2>2. WorkingIsListed' /\ NewIsUnknown'
    BY <2>1 DEF Found, WorkingIsListed, NewIsUnknown, Working, Closing
  <2>3. SocketsAreIndexed' /\ UnlistedIsEmpty'
    BY <2>1 DEF Found, SocketsAreIndexed, UnlistedIsEmpty, Cleaned
  <2> QED
    BY <2>2, <2>3 DEF Found
<1>2. CASE SweepFails(i)
  <2>1. Goes(i, Resting(i)) /\ Untouched /\ Resting(i) \in SweepState
    BY <1>0, <1>2, RestingType DEF SweepFails, Untouched
  <2>2. Resting(i).at # "unlist" /\ Resting(i).todo = {}
    BY DEF Resting
  <2> QED
    BY <2>1, <2>2, SweepGoesOn
<1>3. CASE ~LogOut(i) /\ ~SweepFails(i)
  <2>1. Untouched /\ UNCHANGED sweep
    BY <1>0, <1>3 DEF SetManual, GoIdle, ListOffline, GoOffline, SkipOffline, Untouched
  <2> QED
    BY <2>1, UntouchedSweeps
<1> QED
  BY <1>1, <1>2, <1>3

LEMMA FoundKeptByTime ==
  ASSUME TypeOK, Found, Tick \/ IdleDeadline \/ UNCHANGED vars
  PROVE  Found'
<1> USE DEF process, hashes, due, user, cluster, timers, mishaps
<1>1. CASE Tick
  <2>1. \A i \in Instances : Working(i) => ttl'[i] > 0
    BY <1>1, PresenceAssumption DEF Tick, Working
  <2>2. Untouched /\ UNCHANGED sweep
    BY <1>1, <2>1 DEF Tick, Untouched
  <2> QED
    BY <2>2, UntouchedSweeps
<1>2. CASE IdleDeadline \/ UNCHANGED vars
  <2>1. Untouched /\ UNCHANGED sweep
    BY <1>2 DEF IdleDeadline, vars, Untouched, Found, WorkingIsListed
  <2> QED
    BY <2>1, UntouchedSweeps
<1> QED
  BY <1>1, <1>2

\* Only a new instance comes up, and no instance comes back.
LEMMA FoundKeptByLives ==
  ASSUME TypeOK, Found, NEW i \in Instances,
         \/ Boot(i) \/ Crash(i) \/ ShutDown(i)
         \/ ShutForget(i) \/ ShutDeadline(i) \/ ShutEnd(i)
  PROVE  Found'
<1> USE DEF process, hashes, due, user, cluster, timers, mishaps
<1>1. /\ \A k \in Instances \ {i} : life'[k] = life[k]
      /\ life[i] \notin {"down", "crashed"} /\ life'[i] # "new"
      /\ sockets' \subseteq sockets /\ missed' = missed
  BY DEF Boot, Crash, ShutDown, ShutForget, ShutDeadline, ShutEnd, TypeOK
<1>2. \A k \in Instances : \/ sweep'[k] = sweep[k]
                           \/ sweep'[k].at = "idle" /\ sweep'[k].todo = {}
  BY DEF Boot, Crash, ShutDown, ShutForget, ShutDeadline, ShutEnd, Vanish, Resting, TypeOK
<1>3. /\ registered' \subseteq registered \cup {i}
      /\ \A k \in Instances \ {i} : (k \in registered' <=> k \in registered)
      /\ \A k \in Instances \ {i} : ttl'[k] = ttl[k] /\ (k \in indexed' <=> k \in indexed)
  BY DEF Boot, Crash, ShutDown, ShutForget, ShutDeadline, ShutEnd, TypeOK
<1>4. Working(i)' => ttl'[i] > 0 /\ i \in registered'
  <2>1. CASE Boot(i)
    BY <2>1, PresenceAssumption DEF Boot, TypeOK
  <2>2. CASE Crash(i) \/ ShutEnd(i)
    BY <2>2 DEF Crash, ShutEnd, TypeOK, Working, Closing
  <2>3. CASE ShutDown(i) \/ ShutForget(i) \/ ShutDeadline(i)
    <3>1. UNCHANGED <<ttl, registered>> /\ Working(i)
      BY <2>3 DEF ShutDown, ShutForget, ShutDeadline, Working, Closing
    <3> QED
      BY <3>1 DEF Found, WorkingIsListed
  <2> QED
    BY <2>1, <2>2, <2>3
<1>5. life'[i] # "down" /\ i \in registered => i \in registered'
  BY DEF Boot, Crash, ShutDown, ShutForget, ShutDeadline, ShutEnd, TypeOK
<1>6. life'[i] # "down" /\ i \in indexed => i \in indexed'
  BY DEF Boot, Crash, ShutDown, ShutForget, ShutDeadline, ShutEnd, TypeOK
<1>7. WorkingIsListed'
  BY <1>1, <1>3, <1>4 DEF Found, WorkingIsListed, Working, Closing
<1>8. NewIsUnknown'
  BY <1>1, <1>2, <1>3 DEF Found, NewIsUnknown
<1>9. SocketsAreIndexed'
  <2> SUFFICES ASSUME NEW f \in sockets', life'[f[1]] # "down"
               PROVE  \/ f[1] \in indexed' \cap registered'
                      \/ life'[f[1]] = "crashed" /\ f[1] \in missed'
    BY DEF SocketsAreIndexed
  <2>1. f[1] \in Instances /\ life[f[1]] # "down"
    BY <1>1 DEF TypeOK, Fields
  <2>2. \/ f[1] \in indexed \cap registered
        \/ life[f[1]] = "crashed" /\ f[1] \in missed
    BY <1>1, <2>1 DEF Found, SocketsAreIndexed
  <2> QED
    BY <1>1, <1>3, <1>5, <1>6, <2>1, <2>2
<1>10. UnlistedIsEmpty'
  <2> SUFFICES ASSUME NEW k \in Instances, sweep'[k].at = "unlist"
               PROVE  \/ life'[sweep'[k].target] = "down"
                      \/ /\ life'[sweep'[k].target] = "crashed"
                         /\ \/ sockets' \cap Owned(sweep'[k].target) = {}
                            \/ sweep'[k].target \in missed'
    BY DEF UnlistedIsEmpty, Cleaned
  <2>1. sweep'[k] = sweep[k]
    BY <1>2
  <2>2. sweep[k].target \in Instances
    BY DEF TypeOK, SweepState
  <2>3. \/ life[sweep[k].target] = "down"
        \/ life[sweep[k].target] = "crashed" /\ Cleaned(sweep[k].target)
    BY <2>1 DEF Found, UnlistedIsEmpty, Cleaned
  <2> QED
    BY <1>1, <2>1, <2>2, <2>3 DEF Cleaned
<1> QED
  BY <1>7, <1>8, <1>9, <1>10 DEF Found

LEMMA FoundStep == TypeOK /\ Found /\ [Next]_vars => Found'
<1> SUFFICES ASSUME TypeOK, Found, [Next]_vars PROVE Found'
  OBVIOUS
<1>1. CASE \E f \in Fields : \/ Open(f) \/ Register(f) \/ Activity(f) \/ GrowStale(f)
                             \/ Disconnect(f) \/ DisconnectEarly(f)
  BY <1>1, FoundKeptBySockets
<1>2. CASE \E i \in Instances : Sweeps(i)
  BY <1>2, FoundKeptBySweeps
<1>3. CASE \E i \in Instances :
            \/ \E m \in Chosen : SetManual(i, m)
            \/ LogOut(i) \/ GoIdle(i) \/ ListOffline(i) \/ GoOffline(i) \/ SkipOffline(i)
            \/ SweepFails(i)
  BY <1>3, FoundKeptByProcessors
<1>4. CASE \E i \in Instances : \/ Boot(i) \/ Crash(i) \/ ShutDown(i)
                                \/ ShutForget(i) \/ ShutDeadline(i) \/ ShutEnd(i)
  BY <1>4, FoundKeptByLives
<1>5. CASE Tick \/ IdleDeadline \/ UNCHANGED vars
  BY <1>5, FoundKeptByTime
<1> QED
  BY <1>1, <1>2, <1>3, <1>4, <1>5 DEF Next

\* Whoever has sockets is in active_users, unless a shutdown dropped him.
ActiveIsKnown == sockets # {} => known \/ dropped

LEMMA ActiveStep == TypeOK /\ ActiveIsKnown /\ [Next]_vars => ActiveIsKnown'
<1> SUFFICES ASSUME TypeOK, ActiveIsKnown, [Next]_vars PROVE ActiveIsKnown'
  OBVIOUS
<1> USE DEF process, hashes, due, user, cluster, timers, mishaps, ActiveIsKnown
<1>1. ASSUME NEW f \in Fields, \/ Open(f) \/ Register(f) \/ Activity(f) \/ GrowStale(f)
                               \/ Disconnect(f) \/ DisconnectEarly(f)
      PROVE  ActiveIsKnown'
  BY <1>1 DEF Open, Register, Activity, GrowStale, Disconnect, DisconnectEarly, Remove
<1>2. ASSUME NEW i \in Instances, Sweeps(i) \/ SweepFails(i)
      PROVE  ActiveIsKnown'
  <2>1. sockets' \subseteq sockets /\ UNCHANGED <<known, dropped>>
    BY <1>2 DEF Sweeps, SweepStart, SweepUnlist, SweepOrphans, SweepZadd, SweepZrem,
                SweepPass, SweepDead, SweepDeadFails, SweepFails, Remove
  <2> QED
    BY <2>1
<1>3. ASSUME NEW i \in Instances,
             \/ \E m \in Chosen : SetManual(i, m)
             \/ LogOut(i) \/ GoIdle(i) \/ ListOffline(i) \/ GoOffline(i) \/ SkipOffline(i)
      PROVE  ActiveIsKnown'
  BY <1>3 DEF SetManual, LogOut, GoIdle, ListOffline, GoOffline, SkipOffline
<1>4. ASSUME NEW i \in Instances, \/ Boot(i) \/ Crash(i) \/ ShutDown(i)
                                  \/ ShutForget(i) \/ ShutDeadline(i) \/ ShutEnd(i)
      PROVE  ActiveIsKnown'
  BY <1>4 DEF Boot, Crash, ShutDown, ShutForget, ShutDeadline, ShutEnd
<1>5. CASE Tick \/ IdleDeadline \/ UNCHANGED vars
  BY <1>5 DEF Tick, IdleDeadline, vars
<1> QED
  BY <1>1, <1>2, <1>3, <1>4, <1>5 DEF Next

\* Some sweep can find every socket a crash left behind: the one for dead
\* instances, or after its failure the one for orphans.
THEOREM CrashedSocketsStayFindable == Spec => []CrashedSocketsAreFound
<1>1. Init => Found
  <2> SUFFICES ASSUME Init PROVE Found
    OBVIOUS
  <2>1. WorkingIsListed
    BY PresenceAssumption DEF Init, WorkingIsListed, Working, Closing
  <2>2. NewIsUnknown
    BY DEF Init, NewIsUnknown, Resting
  <2>3. SocketsAreIndexed /\ UnlistedIsEmpty
    BY DEF Init, SocketsAreIndexed, UnlistedIsEmpty, Resting
  <2> QED
    BY <2>1, <2>2, <2>3 DEF Found
<1>2. Init => ActiveIsKnown
  BY DEF Init, ActiveIsKnown
<1>3. Found /\ ActiveIsKnown => CrashedSocketsAreFound
  BY DEF Found, SocketsAreIndexed, ActiveIsKnown, CrashedSocketsAreFound
<1> QED
  BY <1>1, <1>2, <1>3, FoundStep, ActiveStep, TypeCorrect, PTL DEF Spec

===============================================================================
