------------------------------ MODULE TrayMenu ------------------------------
(***************************************************************************)
(* The tray menu of the Mac app (apps/mac/src/main/tray.ts), the update    *)
(* checker (updateCheck.ts) and how index.ts wires and tears them down.    *)
(* The menu is a copy of three things, taken when it is rebuilt.           *)
(*                                                                         *)
(* GitHub and the core supervisor are free: a check ends with any release  *)
(* or none, in any order; health and snapshots come as they like.  After   *)
(* before-quit only the spawn event of a core that was being forked may    *)
(* still come, which coreSupervisor.ts does not filter.                    *)
(***************************************************************************)
EXTENDS Naturals, Sequences

CONSTANTS
    CurrentVersion,     \* the running app's
    Releases,           \* versions that GitHub may report
    NoRelease,
    MaxChecks           \* bound: checks under way at a time

Versions == Nat \X Nat \X Nat

ASSUME TrayAssumption ==
    /\ CurrentVersion \in Versions /\ Releases \subseteq Versions
    /\ NoRelease \notin Versions
    /\ MaxChecks \in Nat \ {0}

VARIABLES
    tray,           \* "none", "up", "destroyed"
    menu,           \* what its menu was built from
    health,
    shownState,     \* whether main has a snapshot, and what it says of automation
    checks,         \* checks that await GitHub
    available,
    stopped,
    disturbers      \* history: who refreshed a destroyed tray

trayVars == <<tray, menu, health, shownState, checks, available, stopped, disturbers>>

Healths == {"stopped", "starting", "running", "crashed"}
Snapshots == {"none", "enabled", "paused"}
Menu == [health |-> health, snapshot |-> shownState, update |-> available]

TrayInit ==
    /\ tray = "none" /\ health = "stopped" /\ shownState = "none"
    /\ checks = 1 /\ available = NoRelease /\ stopped = FALSE
    /\ menu = Menu /\ disturbers = {}

\* tray?.refresh(): before whenReady there is no tray, and a destroyed one throws.
Refresh(who) ==
    /\ menu' = IF tray = "up" THEN Menu' ELSE menu
    /\ disturbers' = IF tray = "destroyed" THEN disturbers \cup {who} ELSE disturbers

\* The constructor builds the menu; then the core is started.
WhenReady ==
    /\ tray = "none" /\ tray' = "up"
    /\ health' = "starting"
    /\ UNCHANGED <<shownState, checks, available, stopped, disturbers>>
    /\ menu' = Menu'

\* Mutant: a health change that nobody tells the tray.
HealthUnseen(now) ==
    /\ tray # "none" /\ (tray = "destroyed" => now = "running")
    /\ health' = now
    /\ UNCHANGED <<tray, menu, shownState, checks, available, stopped, disturbers>>

HealthChanges(now) ==
    /\ tray # "none" /\ (tray = "destroyed" => now = "running")
    /\ health' = now
    /\ UNCHANGED <<tray, shownState, checks, available, stopped>>
    /\ Refresh("core")

SnapshotArrives(now) ==
    /\ tray = "up" /\ now # "none"
    /\ shownState' = now
    /\ UNCHANGED <<tray, health, checks, available, stopped>>
    /\ Refresh("core")

\* setInterval.
CheckStarts ==
    /\ ~stopped /\ checks < MaxChecks
    /\ checks' = checks + 1
    /\ UNCHANGED <<tray, menu, health, shownState, available, stopped, disturbers>>

IsNewerVersion(current, latest) ==
    \E i \in 1 .. 3 : /\ latest[i] > current[i]
                      /\ \A j \in 1 .. i - 1 : latest[j] >= current[j]

CheckCounts(latest) ==
    ~stopped /\ latest # NoRelease /\ IsNewerVersion(CurrentVersion, latest)

CheckEnds(latest) ==
    /\ checks > 0 /\ checks' = checks - 1
    /\ UNCHANGED <<tray, health, shownState, stopped>>
    /\ IF CheckCounts(latest)
       THEN /\ available' = latest
            /\ IF available = latest THEN UNCHANGED <<menu, disturbers>> ELSE Refresh("check")
       ELSE UNCHANGED <<menu, disturbers, available>>

\* The core is stopped and its health refreshed, then the tray destroyed.
BeforeQuit ==
    /\ tray = "up" /\ tray' = "destroyed"
    /\ health' = "stopped" /\ stopped' = TRUE
    /\ UNCHANGED <<shownState, checks, available, disturbers>>
    /\ menu' = Menu'

TrayNext ==
    \/ WhenReady \/ BeforeQuit \/ CheckStarts
    \/ \E now \in Healths : HealthChanges(now)
    \/ \E now \in Snapshots : SnapshotArrives(now)
    \/ \E latest \in Releases \cup {NoRelease} : CheckEnds(latest)

TraySpec == TrayInit /\ [][TrayNext]_trayVars

-----------------------------------------------------------------------------

\* The menu of a tray that is up says what is: its items act on the health, the
\* switch and the release it was built from (tray.ts:65-69).
MenuIsCurrent == tray = "up" => menu = Menu

\* A check that GitHub answers during or after the teardown leaves the tray alone
\* (updateCheck.ts:57-62, index.ts:220-224).
ChecksSpareTheDestroyed == "check" \notin disturbers

\* What a version is worth: the order that IsNewerVersion is to decide.
Older(v, w) ==
    \/ v[1] < w[1]
    \/ v[1] = w[1] /\ v[2] < w[2]
    \/ v[1] = w[1] /\ v[2] = w[2] /\ v[3] < w[3]

\* What is offered is a later release than the one that runs, though checks fail,
\* overlap and find older releases (updateCheck.ts:18-26, 55-63).
OfferIsAnUpgrade == available # NoRelease => Older(CurrentVersion, available)

\* What the tray shows is so, what it offers is an upgrade, and once destroyed no
\* answer reaches it, however checks and core events come (tray.ts:65-78,
\* updateCheck.ts:18-63, index.ts:193-224).
TrayInv == MenuIsCurrent /\ ChecksSpareTheDestroyed /\ OfferIsAnUpgrade
=============================================================================
