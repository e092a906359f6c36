--------------------------- MODULE CoreSupervisor ---------------------------
(***************************************************************************)
(* The macOS app's supervision of the core process: coreSupervisor.ts, the *)
(* debounced restart and the snapshot cache of index.ts, and the core's    *)
(* reading of the config file when it boots.                               *)
(*                                                                         *)
(* A core process is a number, in the order of forking.  A process's       *)
(* events reach the app in order, its exit last; kill() is only a request. *)
(*                                                                         *)
(* One tick is a second.  MaxEdits bounds the config writes, MaxMail the   *)
(* events of a process that are in flight.                                 *)
(***************************************************************************)
EXTENDS Timer, Sequences

CONSTANTS MaxRestarts, MaxEdits, MaxMail

ASSUME CoreSupervisorAssumption ==
    MaxRestarts \in Nat /\ MaxEdits \in Nat /\ MaxMail \in Nat \ {0}

VARIABLES
    child, health, restarts, restartTimer,      \* CoreSupervisor
    scheduled,          \* the timer of scheduleCoreRestart
    latestSnapshot,     \* the core whose snapshot is cached, or None
    config,             \* version of the config on disk
    forked,             \* processes forked
    phase,              \* of each core process
    mail,               \* its events not yet delivered
    booted              \* the version of the config it read, or None

supervisorVars == <<child, health, restarts, restartTimer, forked>>
appVars == <<supervisorVars, scheduled, latestSnapshot, config>>
coreVars == <<phase, mail, booted>>
vars == <<appVars, coreVars>>

None == 0
Cores == 1 .. (MaxEdits + 1) * (MaxRestarts + 1)
Versions == 1 .. (MaxEdits + 1)
Health == {"starting", "running", "crashed", "stopped"}
Phases == {"unborn", "forked", "spawned", "up", "killed", "crashed", "exited"}
Live == {"forked", "spawned", "up"}

DebounceTime == 1
\* It doubles from one second up to the cap of 30.
Backoff(count) == IF count <= 5 THEN <<1, 2, 4, 8, 16>>[count] ELSE 30

\* ensureConfigExists and supervisor.start() have been called.
Init ==
    /\ child = 1 /\ health = "starting" /\ restarts = 0 /\ restartTimer = Off /\ forked = 1
    /\ scheduled = Off /\ latestSnapshot = None /\ config = 1
    /\ phase = [p \in Cores |-> IF p = 1 THEN "forked" ELSE "unborn"]
    /\ mail = [p \in Cores |-> <<>>]
    /\ booted = [p \in Cores |-> None]

-----------------------------------------------------------------------------
(* A core process.                                                         *)

Enters(p, from, to) == phase[p] \in from /\ phase' = [phase EXCEPT ![p] = to]

Emits(p, event) == mail' = [mail EXCEPT ![p] = Append(@, event)]

Spawned(p) ==
    /\ Enters(p, {"forked"}, "spawned")
    /\ Emits(p, "spawn")
    /\ UNCHANGED <<appVars, booted>>

\* run(): the config is read once.
Boots(p) ==
    /\ Enters(p, {"spawned"}, "up")
    /\ booted' = [booted EXCEPT ![p] = config]
    /\ UNCHANGED <<appVars, mail>>

SendsSnapshot(p) ==
    /\ phase[p] = "up" /\ Len(mail[p]) < MaxMail
    /\ Emits(p, "message")
    /\ UNCHANGED <<appVars, phase, booted>>

Crashes(p) ==
    /\ Enters(p, Live, "crashed")
    /\ UNCHANGED <<appVars, mail, booted>>

CoreStep(p) == Spawned(p) \/ Boots(p) \/ SendsSnapshot(p) \/ Crashes(p)

-----------------------------------------------------------------------------
(* The app.                                                                *)

ChildKilled ==
    [p \in Cores |-> IF p = child /\ phase[p] \in Live THEN "killed" ELSE phase[p]]

\* spawn() over the processes as `others' leaves them.
Spawn(others) ==
    /\ health' = "starting"
    /\ forked' = forked + 1
    /\ child' = forked + 1
    /\ phase' = [others EXCEPT ![forked + 1] = "forked"]

Stop ==
    /\ restartTimer' = Off
    /\ child' = None
    /\ health' = "stopped"
    /\ phase' = ChildKilled
    /\ UNCHANGED <<restarts, forked>>

\* Mutant: a restart that leaves the backoff timer running.
RestartKeepingTimer ==
    /\ restarts' = 0
    /\ Spawn(ChildKilled)
    /\ UNCHANGED restartTimer

\* restart(): stop() and start() in one.
Restart ==
    /\ restarts' = 0
    /\ restartTimer' = Off
    /\ Spawn(ChildKilled)

\* before-quit.
Quits ==
    /\ health # "stopped"
    /\ Stop
    /\ UNCHANGED <<scheduled, latestSnapshot, config, mail, booted>>

\* config:set with a config that the schema accepts; each call pushes the
\* restart back.
SetsConfig ==
    /\ config \in 1 .. MaxEdits
    /\ config' = config + 1
    /\ scheduled' = DebounceTime
    /\ UNCHANGED <<supervisorVars, latestSnapshot, coreVars>>

DebounceFires ==
    /\ Due(scheduled)
    /\ scheduled' = Off
    /\ Restart
    /\ UNCHANGED <<latestSnapshot, config, mail, booted>>

RestartTimerFires ==
    /\ Due(restartTimer)
    /\ restartTimer' = Off
    /\ Spawn(phase)
    /\ UNCHANGED <<restarts, scheduled, latestSnapshot, config, mail, booted>>

Delivers(p, event) ==
    /\ mail[p] # <<>> /\ Head(mail[p]) = event
    /\ mail' = [mail EXCEPT ![p] = Tail(@)]
    /\ UNCHANGED <<child, restarts, restartTimer, forked, scheduled, config, phase, booted>>

\* Unlike the other two handlers it does not ask whether p is the child.
HandleSpawn(p) ==
    /\ Delivers(p, "spawn")
    /\ health' = "running"
    /\ UNCHANGED latestSnapshot

\* Mutant: a message is taken from any process.
HandleAnyMessage(p) ==
    /\ Delivers(p, "message")
    /\ latestSnapshot' = p
    /\ UNCHANGED health

HandleMessage(p) ==
    /\ Delivers(p, "message")
    /\ latestSnapshot' = IF p = child THEN p ELSE latestSnapshot
    /\ UNCHANGED health

\* A killed process ends in its own time.
IsGone(p) ==
    /\ Enters(p, {"crashed", "killed"}, "exited")
    /\ mail[p] = <<>>
    /\ UNCHANGED <<forked, scheduled, latestSnapshot, config, mail, booted>>

GivesUpOrBacksOff ==
    IF restarts + 1 > MaxRestarts
    THEN health' = "crashed" /\ UNCHANGED restartTimer
    ELSE health' = "starting" /\ restartTimer' = Backoff(restarts + 1)

HandleExit(p) ==
    /\ IsGone(p)
    /\ IF p # child
       THEN UNCHANGED <<child, health, restarts, restartTimer>>
       ELSE child' = None /\ restarts' = restarts + 1 /\ GivesUpOrBacksOff

Tick ==
    /\ scheduled' = Elapse(scheduled)
    /\ restartTimer' = Elapse(restartTimer)
    /\ UNCHANGED <<child, health, restarts, forked, latestSnapshot, config, coreVars>>

HandleEvent(p) == HandleSpawn(p) \/ HandleMessage(p) \/ HandleExit(p)

Next ==
    \/ \E p \in Cores : CoreStep(p) \/ HandleEvent(p)
    \/ DebounceFires
    \/ RestartTimerFires
    \/ SetsConfig
    \/ Quits
    \/ Tick

CoreSupervisorSpec == Init /\ [][Next]_vars

-----------------------------------------------------------------------------

TypeOK ==
    /\ child \in Cores \cup {None} /\ forked \in Cores
    /\ health \in Health
    /\ restarts \in 0 .. (MaxRestarts + 1)
    /\ restartTimer \in Countdown(30)
    /\ scheduled \in Countdown(DebounceTime)
    /\ latestSnapshot \in Cores \cup {None}
    /\ config \in Versions
    /\ phase \in [Cores -> Phases]
    /\ mail \in [Cores -> Seq({"spawn", "message"})]
    /\ booted \in [Cores -> Versions \cup {None}]

\* A core that has not been told to end is the child, and while there is one no
\* backoff timer is about to fork another: nothing is left running that the app
\* has lost sight of (coreSupervisor.ts:68-81, 119-140).
OneSupervisedCore ==
    /\ TypeOK
    /\ \A p \in Cores : phase[p] \in Live => p = child
    /\ child # None => ~Pending(restartTimer)

\* A core that is down is on its way (the backoff timer is set and the budget is
\* not used up), or nothing is pending and it has been given up or stopped: the
\* app is never left waiting for a core nobody will fork (coreSupervisor.ts:119-140).
DownIsAccountedFor ==
    child = None =>
        \/ Pending(restartTimer) /\ restarts <= MaxRestarts
        \/ ~Pending(restartTimer) /\ (restarts = MaxRestarts + 1 \/ health # "starting")

\* Once the debounced restart has run, the core that is up has booted from the
\* config last written, however edits, crashes and backoff restarts interleave
\* (index.ts:37-41, 131-139).
ConfigIsApplied ==
    child # None /\ phase[child] = "up" /\ ~Pending(scheduled) => booted[child] = config

\* The cached snapshot never goes back to that of an earlier core
\* (coreSupervisor.ts:110-116, index.ts:49-53).
SnapshotsMoveForward == [][latestSnapshot' >= latestSnapshot]_vars

\* However edits, crashes, restarts and late events interleave, one core at most is
\* left to run, the app knows why there is none, and the one that is up has the last
\* config (coreSupervisor.ts:68-140, index.ts:131-139).
SupervisorInv == OneSupervisedCore /\ DownIsAccountedFor /\ ConfigIsApplied
=============================================================================
