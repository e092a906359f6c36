-------------------------- MODULE SupervisorProofs --------------------------
(***************************************************************************)
(* What holds of the app's supervision of the core for any restart budget, *)
(* any number of config edits and any number of messages in flight.        *)
(***************************************************************************)
EXTENDS CoreSupervisor, TLAPS

\* The restarts of one config, and the cores forked for the configs so far.
PerConfig == MaxRestarts + 1
Started == config - (IF Pending(scheduled) THEN 1 ELSE 0)
ThisConfigs == restarts + (IF Pending(restartTimer) \/ restarts = PerConfig THEN 0 ELSE 1)

\* The type of each variable but the number of forks, whose bound is an argument.
Types ==
    /\ child \in Cores \cup {None} /\ forked \in Nat \ {0}
    /\ health \in Health
    /\ restarts \in 0 .. PerConfig
    /\ restartTimer \in Countdown(30)
    /\ scheduled \in Countdown(DebounceTime)
    /\ latestSnapshot \in Cores \cup {None}
    /\ config \in Versions
    /\ phase \in [Cores -> Phases]
    /\ mail \in [Cores -> Seq({"spawn", "message"})]
    /\ booted \in [Cores -> Versions \cup {None}]

\* Each config that a debounced restart has started pays for MaxRestarts + 1 forks.
ForksArePaid == forked <= (Started - 1) * PerConfig + ThisConfigs
                /\ (Pending(scheduled) => config > 1)

OneLive ==
    /\ \A p \in Cores : phase[p] \in Live => p = child
    /\ child # None => ~Pending(restartTimer) /\ restarts <= MaxRestarts

SupervisorIInv == Types /\ ForksArePaid /\ OneLive /\ DownIsAccountedFor /\ ConfigIsApplied

\* The arithmetic of the bound on forks.
LEMMA RoomToFork ==
  ASSUME NEW m \in Nat, NEW e \in Nat, NEW c \in 1 .. e + 1, NEW f \in Nat,
         f <= (c - 1) * (m + 1) + m
  PROVE  f + 1 \in 1 .. (e + 1) * (m + 1)
<1>1. (c - 1) * (m + 1) + (m + 1) = c * (m + 1)
  OBVIOUS
<1>2. c * (m + 1) <= (e + 1) * (m + 1)
  <2>1. (e + 1) * (m + 1) - c * (m + 1) = (e + 1 - c) * (m + 1)
    OBVIOUS
  <2>2. e + 1 - c \in Nat /\ m + 1 \in Nat
    OBVIOUS
  <2>3. (e + 1 - c) * (m + 1) \in Nat
    BY <2>2
  <2>4. c * (m + 1) \in Nat /\ (e + 1) * (m + 1) \in Nat
    OBVIOUS
  <2>5. QED
    BY <2>1, <2>3, <2>4
<1>3. (e + 1) * (m + 1) \in Nat /\ c * (m + 1) \in Nat /\ (c - 1) * (m + 1) \in Int
  OBVIOUS
<1>4. QED
  BY <1>1, <1>2, <1>3

\* The backoff is one of the delays of the timer's type.
LEMMA BackoffType ==
  ASSUME NEW count \in Nat \ {0}
  PROVE  Backoff(count) \in 1 .. 30
<1>1. CASE count <= 5
  <2>1. count \in {1, 2, 3, 4, 5}
    BY <1>1
  <2>2. QED
    BY <2>1 DEF Backoff
<1>2. CASE ~(count <= 5)
  BY <1>2 DEF Backoff
<1>3. QED
  BY <1>1, <1>2

\* A debounced restart: the config it starts pays for its fork.
LEMMA DebounceStep ==
  ASSUME SupervisorIInv, DebounceFires
  PROVE  SupervisorIInv'
<1> USE CoreSupervisorAssumption
<1>1. /\ scheduled = 0 /\ scheduled' = Off /\ restarts' = 0 /\ restartTimer' = Off
      /\ health' = "starting" /\ forked' = forked + 1 /\ child' = forked + 1
      /\ phase' = [ChildKilled EXCEPT ![forked + 1] = "forked"]
      /\ UNCHANGED <<latestSnapshot, config, mail, booted>>
  BY DEF DebounceFires, Due, Restart, Spawn
<1>2. /\ MaxRestarts \in Nat /\ MaxEdits \in Nat /\ config \in 1 .. MaxEdits + 1 /\ config > 1
      /\ forked \in Nat \ {0} /\ restarts \in 0 .. MaxRestarts + 1
  BY <1>1 DEF SupervisorIInv, Types, ForksArePaid, Versions, PerConfig, Pending, Off
<1>3. ThisConfigs \in 0 .. MaxRestarts + 1
  BY <1>2 DEF ThisConfigs, PerConfig
<1>4. forked <= (config - 2) * (MaxRestarts + 1) + ThisConfigs
  BY <1>1, <1>2 DEF SupervisorIInv, ForksArePaid, Started, PerConfig, Pending, Off
<1>5. (config - 2) * (MaxRestarts + 1) + (MaxRestarts + 1) = (config - 1) * (MaxRestarts + 1)
  BY <1>2
<1>6. (config - 2) * (MaxRestarts + 1) \in Int /\ (config - 1) * (MaxRestarts + 1) \in Int
  BY <1>2
<1>7. forked <= (config - 1) * (MaxRestarts + 1)
  BY <1>2, <1>3, <1>4, <1>5, <1>6
<1>8. forked <= (config - 1) * (MaxRestarts + 1) + MaxRestarts
  BY <1>2, <1>6, <1>7
<1>9. forked + 1 \in Cores
  BY <1>2, <1>8, RoomToFork DEF Cores
<1>10. ForksArePaid'
  <2>1. Started' = config /\ ThisConfigs' = 1
    BY <1>1, <1>2 DEF Started, ThisConfigs, PerConfig, Pending, Off
  <2>2. forked + 1 <= (config - 1) * (MaxRestarts + 1) + 1
    BY <1>2, <1>6, <1>7
  <2>3. QED
    BY <1>1, <2>1, <2>2 DEF ForksArePaid, PerConfig, Pending
<1>11. /\ ChildKilled \in [Cores -> Phases]
       /\ \A p \in Cores : ChildKilled[p] \notin Live
  BY DEF SupervisorIInv, Types, OneLive, ChildKilled, Phases, Live
<1>12. phase' \in [Cores -> Phases] /\ \A p \in Cores : phase'[p] \in Live => p = forked + 1
  BY <1>1, <1>9, <1>11 DEF Phases
<1>13. phase'[forked + 1] = "forked" /\ child' # None
  BY <1>1, <1>2, <1>9, <1>11 DEF None
<1>14. Types'
  BY <1>1, <1>2, <1>9, <1>12
     DEF SupervisorIInv, Types, Health, PerConfig, Countdown, Off, DebounceTime
<1>15. OneLive' /\ DownIsAccountedFor' /\ ConfigIsApplied'
  BY <1>1, <1>2, <1>12, <1>13 DEF OneLive, DownIsAccountedFor, ConfigIsApplied, Pending
<1>16. QED
  BY <1>10, <1>14, <1>15 DEF SupervisorIInv

\* The backoff timer forks one more core for the config of the day.
LEMMA BackoffStep ==
  ASSUME SupervisorIInv, RestartTimerFires
  PROVE  SupervisorIInv'
<1> USE CoreSupervisorAssumption
<1>1. /\ restartTimer = 0 /\ restartTimer' = Off
      /\ health' = "starting" /\ forked' = forked + 1 /\ child' = forked + 1
      /\ phase' = [phase EXCEPT ![forked + 1] = "forked"]
      /\ UNCHANGED <<restarts, scheduled, latestSnapshot, config, mail, booted>>
  BY DEF RestartTimerFires, Due, Spawn
<1>2. /\ MaxRestarts \in Nat /\ MaxEdits \in Nat /\ config \in 1 .. MaxEdits + 1
      /\ forked \in Nat \ {0} /\ restarts \in 0 .. MaxRestarts + 1 /\ phase \in [Cores -> Phases]
  BY DEF SupervisorIInv, Types, Versions, PerConfig
<1>3. Pending(restartTimer) /\ child = None /\ restarts <= MaxRestarts
  BY <1>1 DEF SupervisorIInv, OneLive, DownIsAccountedFor, Pending, Off
<1>4. ThisConfigs = restarts /\ ThisConfigs' = restarts + 1 /\ Started' = Started
  BY <1>1, <1>2, <1>3 DEF ThisConfigs, Started, PerConfig, Pending
<1>5. Started \in 0 .. MaxEdits + 1 /\ (Started >= 1) /\ Started <= config
  BY <1>2 DEF Started, SupervisorIInv, ForksArePaid
<1>6. forked <= (Started - 1) * (MaxRestarts + 1) + restarts
  BY <1>4 DEF SupervisorIInv, ForksArePaid, PerConfig
<1>7. (Started - 1) * (MaxRestarts + 1) \in Int
  BY <1>2, <1>5
<1>8. forked <= (Started - 1) * (MaxRestarts + 1) + MaxRestarts
  BY <1>2, <1>3, <1>6, <1>7
<1>9. forked + 1 \in Cores
  <2>1. Started \in 1 .. MaxEdits + 1 /\ forked \in Nat
    BY <1>2, <1>5
  <2>2. QED
    BY <1>2, <1>8, <2>1, RoomToFork DEF Cores
<1>10. ForksArePaid'
  <2>1. forked + 1 <= (Started - 1) * (MaxRestarts + 1) + (restarts + 1)
    BY <1>2, <1>6, <1>7
  <2>2. QED
    BY <1>1, <1>4, <2>1 DEF SupervisorIInv, ForksArePaid, PerConfig
<1>11. \A p \in Cores : phase[p] \notin Live
  BY <1>3 DEF SupervisorIInv, OneLive, Cores, None
<1>12. phase' \in [Cores -> Phases] /\ \A p \in Cores : phase'[p] \in Live => p = forked + 1
  BY <1>1, <1>2, <1>9, <1>11 DEF Phases
<1>13. phase'[forked + 1] = "forked" /\ child' # None
  BY <1>1, <1>2, <1>9 DEF None
<1>14. Types'
  BY <1>1, <1>2, <1>9, <1>12 DEF SupervisorIInv, Types, Health, Countdown, Off
<1>15. OneLive' /\ DownIsAccountedFor' /\ ConfigIsApplied'
  BY <1>1, <1>3, <1>12, <1>13 DEF OneLive, DownIsAccountedFor, ConfigIsApplied, Pending
<1>16. QED
  BY <1>10, <1>14, <1>15 DEF SupervisorIInv

\* What a core process does on its own.
LEMMA CoreActs ==
  ASSUME SupervisorIInv, NEW p \in Cores, CoreStep(p)
  PROVE  SupervisorIInv'
<1>1. /\ p = child /\ phase[p] \in Live /\ phase \in [Cores -> Phases]
      /\ UNCHANGED appVars
  BY DEF SupervisorIInv, Types, OneLive, CoreStep, Spawned, Boots, SendsSnapshot, Crashes, Enters, Live
<1>2. UNCHANGED <<Started, ThisConfigs, forked, scheduled, config>>
  BY <1>1 DEF appVars, supervisorVars, Started, ThisConfigs
<1>3. ForksArePaid'
  BY <1>2 DEF SupervisorIInv, ForksArePaid
<1>4. DownIsAccountedFor'
  BY <1>1 DEF SupervisorIInv, DownIsAccountedFor, appVars, supervisorVars
<1>5. phase' \in [Cores -> Phases] /\ \A q \in Cores : q # p => phase'[q] = phase[q]
  BY <1>1 DEF CoreStep, Spawned, Boots, SendsSnapshot, Crashes, Enters, Phases
<1>6. mail' \in [Cores -> Seq({"spawn", "message"})]
  <2>1. mail \in [Cores -> Seq({"spawn", "message"})]
    BY DEF SupervisorIInv, Types
  <2>2. \/ mail' = mail
        \/ mail' = [mail EXCEPT ![p] = Append(@, "spawn")]
        \/ mail' = [mail EXCEPT ![p] = Append(@, "message")]
    BY DEF CoreStep, Spawned, Boots, SendsSnapshot, Crashes, Emits
  <2>3. /\ mail[p] \in Seq({"spawn", "message"})
        /\ Append(mail[p], "spawn") \in Seq({"spawn", "message"})
        /\ Append(mail[p], "message") \in Seq({"spawn", "message"})
    BY <2>1
  <2>4. QED
    BY <2>1, <2>2, <2>3
<1>7. booted' \in [Cores -> Versions \cup {None}]
  <2>1. booted' = booted \/ booted' = [booted EXCEPT ![p] = config]
    BY DEF CoreStep, Spawned, Boots, SendsSnapshot, Crashes
  <2>2. QED
    BY <2>1 DEF SupervisorIInv, Types
<1>8. Types' /\ OneLive'
  BY <1>1, <1>5, <1>6, <1>7 DEF SupervisorIInv, Types, OneLive, appVars, supervisorVars
<1>9. ConfigIsApplied'
  <2>1. CASE Boots(p)
    BY <1>1, <2>1 DEF Boots, ConfigIsApplied, SupervisorIInv, Types, appVars, supervisorVars
  <2>2. CASE Spawned(p) \/ SendsSnapshot(p) \/ Crashes(p)
    <3>1. booted' = booted /\ (phase'[p] = "up" => phase[p] = "up")
      BY <1>1, <2>2 DEF Spawned, SendsSnapshot, Crashes, Enters
    <3>2. QED
      BY <1>1, <3>1 DEF SupervisorIInv, ConfigIsApplied, appVars, supervisorVars
  <2>3. QED
    BY <2>1, <2>2 DEF CoreStep
<1>10. QED
  BY <1>3, <1>4, <1>8, <1>9 DEF SupervisorIInv

\* The app takes a process's next event: the exit of the child backs off or gives up.
LEMMA EventStep ==
  ASSUME SupervisorIInv, NEW p \in Cores, HandleEvent(p)
  PROVE  SupervisorIInv'
<1> USE CoreSupervisorAssumption
<1>1. CASE HandleSpawn(p) \/ HandleMessage(p)
  <2>1. /\ UNCHANGED <<child, restarts, restartTimer, forked, scheduled, config, phase, booted>>
        /\ mail' = [mail EXCEPT ![p] = Tail(@)] /\ mail[p] # <<>>
        /\ health' \in {health, "running"} /\ latestSnapshot' \in {latestSnapshot, p}
    BY <1>1 DEF HandleSpawn, HandleMessage, Delivers
  <2>2. mail' \in [Cores -> Seq({"spawn", "message"})]
    BY <2>1 DEF SupervisorIInv, Types
  <2>3. Types' /\ OneLive'
    BY <2>1, <2>2 DEF SupervisorIInv, Types, OneLive, Health
  <2>4. ForksArePaid'
    BY <2>1 DEF SupervisorIInv, ForksArePaid, Started, ThisConfigs
  <2>5. DownIsAccountedFor' /\ ConfigIsApplied'
    BY <2>1 DEF SupervisorIInv, DownIsAccountedFor, ConfigIsApplied
  <2>6. QED
    BY <2>3, <2>4, <2>5 DEF SupervisorIInv
<1>2. CASE HandleExit(p)
  <2>1. /\ phase[p] \in {"crashed", "killed"} /\ phase' = [phase EXCEPT ![p] = "exited"]
        /\ UNCHANGED <<forked, scheduled, latestSnapshot, config, mail, booted>>
    BY <1>2 DEF HandleExit, IsGone, Enters
  <2>2. /\ phase' \in [Cores -> Phases]
        /\ \A q \in Cores : phase'[q] \in Live \/ phase'[q] = "up" => q # p /\ phase'[q] = phase[q]
    BY <2>1 DEF SupervisorIInv, Types, Phases, Live
  <2>3. CASE p # child
    <3>1. UNCHANGED <<child, health, restarts, restartTimer>>
      BY <1>2, <2>3 DEF HandleExit
    <3>2. Types' /\ OneLive'
      BY <2>1, <2>2, <3>1 DEF SupervisorIInv, Types, OneLive
    <3>3. ForksArePaid'
      BY <2>1, <3>1 DEF SupervisorIInv, ForksArePaid, Started, ThisConfigs
    <3>4. DownIsAccountedFor'
      BY <3>1 DEF SupervisorIInv, DownIsAccountedFor
    <3>5. ConfigIsApplied'
      <4>1. child # None => phase'[child] = phase[child]
        BY <2>1, <2>3 DEF SupervisorIInv, Types
      <4>2. QED
        BY <2>1, <3>1, <4>1 DEF SupervisorIInv, ConfigIsApplied
    <3>6. QED
      BY <3>2, <3>3, <3>4, <3>5 DEF SupervisorIInv
  <2>4. CASE p = child
    <3>0. child # None /\ MaxRestarts \in Nat
      BY <2>4 DEF Cores, None
    <3>1. /\ child' = None /\ restarts' = restarts + 1 /\ GivesUpOrBacksOff
          /\ ~Pending(restartTimer) /\ restarts \in 0 .. MaxRestarts
      BY <1>2, <2>4, <3>0 DEF HandleExit, SupervisorIInv, Types, OneLive, PerConfig
    <3>2. \/ /\ restarts = MaxRestarts /\ health' = "crashed" /\ restartTimer' = restartTimer
          \/ /\ restarts < MaxRestarts /\ health' = "starting"
             /\ restartTimer' \in 1 .. 30
      <4>1. Backoff(restarts + 1) \in 1 .. 30
        BY <3>1, BackoffType
      <4>2. QED
        BY <3>0, <3>1, <4>1 DEF GivesUpOrBacksOff
    <3>3. restartTimer' \in Countdown(30) /\ health' \in Health
      <4>1. restartTimer \in Countdown(30) /\ \A t \in 1 .. 30 : t \in Countdown(30)
        BY DEF SupervisorIInv, Types, Countdown, Off
      <4>2. restartTimer' \in Countdown(30)
        BY <3>2, <4>1
      <4>3. health' \in Health
        BY <3>2 DEF Health
      <4>4. QED
        BY <4>2, <4>3
    <3>4. \A q \in Cores : phase'[q] \notin Live
      BY <2>2, <2>4 DEF SupervisorIInv, OneLive
    <3>5. restarts' \in 0 .. PerConfig
      BY <3>0, <3>1 DEF PerConfig
    <3>6. Types'
      BY <2>1, <2>2, <3>1, <3>3, <3>5 DEF SupervisorIInv, Types
    <3>7. OneLive' /\ ConfigIsApplied'
      BY <3>1, <3>4 DEF OneLive, ConfigIsApplied
    <3>8. DownIsAccountedFor'
      BY <3>0, <3>1, <3>2 DEF DownIsAccountedFor, Pending, Off
    <3>9. ThisConfigs' = ThisConfigs /\ Started' = Started
      <4>1. ThisConfigs = restarts + 1
        BY <3>0, <3>1 DEF ThisConfigs, PerConfig
      <4>2. Pending(restartTimer)' \/ restarts' = PerConfig
        BY <3>0, <3>1, <3>2 DEF PerConfig, Pending, Off
      <4>3. ThisConfigs' = restarts + 1
        BY <3>1, <4>2 DEF ThisConfigs
      <4>4. QED
        BY <2>1, <4>1, <4>3 DEF Started
    <3>10. ForksArePaid'
      BY <2>1, <3>9 DEF SupervisorIInv, ForksArePaid
    <3>11. QED
      BY <3>6, <3>7, <3>8, <3>10 DEF SupervisorIInv
  <2>5. QED
    BY <2>3, <2>4
<1>3. QED
  BY <1>1, <1>2 DEF HandleEvent

\* An edit schedules a restart of its own, or pushes back the one that is pending.
LEMMA EditStep ==
  ASSUME SupervisorIInv, SetsConfig
  PROVE  SupervisorIInv'
<1> USE CoreSupervisorAssumption
<1>1. /\ config \in 1 .. MaxEdits /\ config' = config + 1 /\ scheduled' = 1
      /\ UNCHANGED <<child, health, restarts, restartTimer, forked, latestSnapshot, phase, mail, booted>>
  BY DEF SetsConfig, supervisorVars, coreVars, DebounceTime
<1>2. MaxRestarts \in Nat /\ MaxEdits \in Nat /\ Pending(scheduled)'
  BY <1>1 DEF Pending, Off
<1>3. Types'
  BY <1>1, <1>2 DEF SupervisorIInv, Types, Versions, Countdown, Off, DebounceTime
<1>4. ForksArePaid'
  <2>1. Started' = config /\ Started \in {config, config - 1} /\ ThisConfigs' = ThisConfigs
    BY <1>1, <1>2 DEF Started, ThisConfigs
  <2>2. (Started - 1) * (MaxRestarts + 1) <= (config - 1) * (MaxRestarts + 1)
    <3>1. (config - 2) * (MaxRestarts + 1) + (MaxRestarts + 1) = (config - 1) * (MaxRestarts + 1)
      BY <1>1, <1>2
    <3>2. (config - 2) * (MaxRestarts + 1) \in Int
      BY <1>1, <1>2
    <3>3. (config - 2) * (MaxRestarts + 1) <= (config - 1) * (MaxRestarts + 1)
      BY <1>2, <3>1, <3>2
    <3>4. QED
      BY <1>1, <1>2, <2>1, <3>3
  <2>3. /\ (Started - 1) * (MaxRestarts + 1) \in Int /\ (config - 1) * (MaxRestarts + 1) \in Int
        /\ ThisConfigs \in Int /\ forked \in Int
    BY <1>1, <1>2, <2>1 DEF SupervisorIInv, Types, ThisConfigs, PerConfig
  <2>4. forked <= (Started - 1) * (MaxRestarts + 1) + ThisConfigs
    BY DEF SupervisorIInv, ForksArePaid, PerConfig
  <2>5. forked <= (config - 1) * (MaxRestarts + 1) + ThisConfigs
    BY <2>2, <2>3, <2>4
  <2>6. QED
    BY <1>1, <2>1, <2>5 DEF ForksArePaid, PerConfig
<1>5. OneLive' /\ DownIsAccountedFor' /\ ConfigIsApplied'
  BY <1>1, <1>2 DEF SupervisorIInv, OneLive, DownIsAccountedFor, ConfigIsApplied
<1>6. QED
  BY <1>3, <1>4, <1>5 DEF SupervisorIInv

\* before-quit kills the child and drops the backoff timer.
LEMMA QuitStep ==
  ASSUME SupervisorIInv, Quits
  PROVE  SupervisorIInv'
<1> USE CoreSupervisorAssumption
<1>1. /\ restartTimer' = Off /\ child' = None /\ health' = "stopped" /\ phase' = ChildKilled
      /\ UNCHANGED <<restarts, forked, scheduled, latestSnapshot, config, mail, booted>>
  BY DEF Quits, Stop
<1>2. /\ ChildKilled \in [Cores -> Phases]
      /\ \A p \in Cores : ChildKilled[p] \notin Live
  BY DEF SupervisorIInv, Types, OneLive, ChildKilled, Phases, Live
<1>3. Types'
  BY <1>1, <1>2 DEF SupervisorIInv, Types, Health, Countdown, Off
<1>4. OneLive' /\ DownIsAccountedFor' /\ ConfigIsApplied'
  BY <1>1, <1>2 DEF OneLive, DownIsAccountedFor, ConfigIsApplied, Pending
<1>5. ForksArePaid'
  <2>1. Started' = Started /\ ThisConfigs <= ThisConfigs' /\ ThisConfigs \in Int /\ ThisConfigs' \in Int
    BY <1>1 DEF SupervisorIInv, Types, Started, ThisConfigs, PerConfig, Pending
  <2>2. (Started - 1) * PerConfig \in Int /\ forked \in Int
    BY DEF SupervisorIInv, Types, Started, PerConfig, Versions
  <2>3. QED
    BY <1>1, <2>1, <2>2 DEF SupervisorIInv, ForksArePaid
<1>6. QED
  BY <1>3, <1>4, <1>5 DEF SupervisorIInv

\* Time goes on; no timer is set or dropped.
LEMMA TickStep ==
  ASSUME SupervisorIInv, Tick
  PROVE  SupervisorIInv'
<1>1. /\ scheduled' = Elapse(scheduled) /\ restartTimer' = Elapse(restartTimer)
      /\ UNCHANGED <<child, health, restarts, forked, latestSnapshot, config, phase, mail, booted>>
  BY DEF Tick, coreVars
<1>2. /\ restartTimer' \in Countdown(30) /\ scheduled' \in Countdown(DebounceTime)
      /\ Pending(restartTimer)' = Pending(restartTimer)
      /\ Pending(scheduled)' = Pending(scheduled)
  BY <1>1 DEF SupervisorIInv, Types, Elapse, Countdown, Off, DebounceTime, Pending
<1>3. Types' /\ OneLive'
  BY <1>1, <1>2 DEF SupervisorIInv, Types, OneLive
<1>4. ForksArePaid'
  BY <1>1, <1>2 DEF SupervisorIInv, ForksArePaid, Started, ThisConfigs
<1>5. DownIsAccountedFor' /\ ConfigIsApplied'
  BY <1>1, <1>2 DEF SupervisorIInv, DownIsAccountedFor, ConfigIsApplied
<1>6. QED
  BY <1>3, <1>4, <1>5 DEF SupervisorIInv

\* The invariant that makes the supervision correct.
THEOREM SupervisorIInvHolds == CoreSupervisorSpec => []SupervisorIInv
<1> USE CoreSupervisorAssumption
<1>1. Init => SupervisorIInv
  <2> SUFFICES ASSUME Init PROVE SupervisorIInv
    OBVIOUS
  <2>0. 1 \in Cores
    <3>1. 0 + 1 \in 1 .. (MaxEdits + 1) * (MaxRestarts + 1)
      BY RoomToFork
    <3>2. QED
      BY <3>1 DEF Cores
  <2>1. Types
    BY <2>0 DEF Init, Types, Health, PerConfig, Countdown, Off, DebounceTime, Versions, Phases, None
  <2>2. ForksArePaid
    BY DEF Init, ForksArePaid, Started, ThisConfigs, PerConfig, Pending, Off
  <2>3. OneLive /\ DownIsAccountedFor /\ ConfigIsApplied
    BY <2>0 DEF Init, OneLive, DownIsAccountedFor, ConfigIsApplied, Live, Pending, None
  <2>4. QED
    BY <2>1, <2>2, <2>3 DEF SupervisorIInv
<1>2. SupervisorIInv /\ UNCHANGED vars => SupervisorIInv'
  BY DEF SupervisorIInv, Types, ForksArePaid, Started, ThisConfigs, OneLive, DownIsAccountedFor,
         ConfigIsApplied, vars, appVars, supervisorVars, coreVars
<1>3. SupervisorIInv /\ Next => SupervisorIInv'
  BY CoreActs, EventStep, DebounceStep, BackoffStep, EditStep, QuitStep, TickStep DEF Next
<1>4. QED
  BY <1>1, <1>2, <1>3, PTL DEF CoreSupervisorSpec

\* Nothing is left running that the app has lost sight of, and no more cores are
\* ever forked than the configs pay for.
THEOREM OneSupervisedCoreHolds == CoreSupervisorSpec => []OneSupervisedCore
<1>1. SupervisorIInv => OneSupervisedCore
  <2> SUFFICES ASSUME SupervisorIInv PROVE OneSupervisedCore
    OBVIOUS
  <2>1. /\ MaxRestarts \in Nat /\ MaxEdits \in Nat /\ config \in 1 .. MaxEdits + 1
        /\ forked \in Nat \ {0} /\ restarts \in 0 .. MaxRestarts + 1
    BY CoreSupervisorAssumption DEF SupervisorIInv, Types, Versions, PerConfig
  <2>2. /\ Started \in 1 .. MaxEdits + 1 /\ ThisConfigs \in 0 .. MaxRestarts + 1
        /\ forked <= (Started - 1) * (MaxRestarts + 1) + ThisConfigs
    BY <2>1 DEF SupervisorIInv, ForksArePaid, Started, ThisConfigs, PerConfig
  <2>3. (Started - 1) * (MaxRestarts + 1) \in Int
    BY <2>1, <2>2
  <2>4. forked - 1 \in Nat /\ forked - 1 <= (Started - 1) * (MaxRestarts + 1) + MaxRestarts
    BY <2>1, <2>2, <2>3
  <2>5. (forked - 1) + 1 \in Cores
    BY <2>1, <2>2, <2>4, RoomToFork DEF Cores
  <2>6. forked \in Cores
    BY <2>1, <2>5
  <2>7. QED
    BY <2>6 DEF SupervisorIInv, Types, OneLive, OneSupervisedCore, TypeOK, PerConfig
<1>2. QED
  BY <1>1, SupervisorIInvHolds, PTL

\* A core that is down is on its way, or has been given up or stopped.
THEOREM DownIsAccountedForHolds == CoreSupervisorSpec => []DownIsAccountedFor
<1>1. SupervisorIInv => DownIsAccountedFor
  BY DEF SupervisorIInv
<1>2. QED
  BY <1>1, SupervisorIInvHolds, PTL

\* Once the debounced restart has run, a core that is up has the last config.
THEOREM ConfigIsAppliedHolds == CoreSupervisorSpec => []ConfigIsApplied
<1>1. SupervisorIInv => ConfigIsApplied
  BY DEF SupervisorIInv
<1>2. QED
  BY <1>1, SupervisorIInvHolds, PTL

\* The supervisor's whole invariant, for any budget and any number of edits.
THEOREM SupervisorInvHolds == CoreSupervisorSpec => []SupervisorInv
  BY OneSupervisedCoreHolds, DownIsAccountedForHolds, ConfigIsAppliedHolds, PTL DEF SupervisorInv

\* Snapshots are taken from the child only, and that is the core forked last.
NewestIsChild ==
    /\ child # None => child = forked
    /\ latestSnapshot <= forked

\* A message of the child replaces the snapshot of an earlier core or its own.
LEMMA MessageStep ==
  ASSUME Types, NewestIsChild, NEW p \in Cores, HandleMessage(p)
  PROVE  NewestIsChild' /\ latestSnapshot' >= latestSnapshot
<1>1. latestSnapshot \in Nat /\ forked \in Nat /\ p # None
  BY CoreSupervisorAssumption DEF Types, Cores, None
<1>2. UNCHANGED <<child, forked>> /\ latestSnapshot' = IF p = child THEN p ELSE latestSnapshot
  BY DEF HandleMessage, Delivers
<1>3. CASE p = child
  BY <1>1, <1>2, <1>3 DEF NewestIsChild
<1>4. CASE p # child
  BY <1>1, <1>2, <1>4 DEF NewestIsChild
<1>5. QED
  BY <1>3, <1>4

\* No other step touches the snapshot; a new core is the child at once.
LEMMA OtherSteps ==
  ASSUME Types, NewestIsChild, [Next]_vars, ~\E p \in Cores : HandleMessage(p)
  PROVE  NewestIsChild' /\ latestSnapshot' = latestSnapshot
<1>1. latestSnapshot \in Nat /\ forked \in Nat
  BY CoreSupervisorAssumption DEF Types, Cores, None
<1>2. ASSUME NEW p \in Cores, CoreStep(p) PROVE UNCHANGED <<child, forked, latestSnapshot>>
  BY <1>2 DEF CoreStep, Spawned, Boots, SendsSnapshot, Crashes, appVars, supervisorVars
<1>3. ASSUME NEW p \in Cores, HandleSpawn(p) PROVE UNCHANGED <<child, forked, latestSnapshot>>
  BY <1>3 DEF HandleSpawn, Delivers
<1>4. ASSUME NEW p \in Cores, HandleExit(p)
      PROVE  child' \in {child, None} /\ UNCHANGED <<forked, latestSnapshot>>
  BY <1>4 DEF HandleExit, IsGone
<1>5. ASSUME DebounceFires \/ RestartTimerFires
      PROVE  child' = forked' /\ forked' = forked + 1 /\ latestSnapshot' = latestSnapshot
  BY <1>5 DEF DebounceFires, RestartTimerFires, Restart, Spawn
<1>6. ASSUME SetsConfig \/ Tick \/ UNCHANGED vars PROVE UNCHANGED <<child, forked, latestSnapshot>>
  BY <1>6 DEF SetsConfig, Tick, vars, appVars, supervisorVars
<1>7. ASSUME Quits PROVE child' = None /\ UNCHANGED <<forked, latestSnapshot>>
  BY <1>7 DEF Quits, Stop
<1>8. QED
  BY <1>1, <1>2, <1>3, <1>4, <1>5, <1>6, <1>7 DEF Next, HandleEvent, NewestIsChild

LEMMA NewestIsChildHolds == CoreSupervisorSpec => []NewestIsChild
<1>1. Init => NewestIsChild
  BY DEF Init, NewestIsChild, None
<1>2. SupervisorIInv /\ NewestIsChild /\ [Next]_vars => NewestIsChild'
  BY MessageStep, OtherSteps DEF SupervisorIInv
<1>3. QED
  BY <1>1, <1>2, SupervisorIInvHolds, PTL DEF CoreSupervisorSpec

\* The cached snapshot never goes back to that of an earlier core, however late
\* the messages of a core that was replaced arrive.
THEOREM SnapshotsMoveForwardHolds == CoreSupervisorSpec => SnapshotsMoveForward
<1>1. SupervisorIInv /\ NewestIsChild /\ [Next]_vars => [latestSnapshot' >= latestSnapshot]_vars
  <2> SUFFICES ASSUME SupervisorIInv, NewestIsChild, [Next]_vars
               PROVE  latestSnapshot' >= latestSnapshot
    OBVIOUS
  <2>1. latestSnapshot \in Nat
    BY DEF SupervisorIInv, Types, Cores, None
  <2>2. CASE \E p \in Cores : HandleMessage(p)
    BY <2>2, MessageStep DEF SupervisorIInv
  <2>3. CASE ~\E p \in Cores : HandleMessage(p)
    BY <2>1, <2>3, OtherSteps DEF SupervisorIInv
  <2>4. QED
    BY <2>2, <2>3
<1>2. QED
  BY <1>1, SupervisorIInvHolds, NewestIsChildHolds, PTL DEF CoreSupervisorSpec, SnapshotsMoveForward
=============================================================================
