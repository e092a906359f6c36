--------------------------- MODULE SettingsWindow ---------------------------
(***************************************************************************)
(* The Mac settings window against the main process                        *)
(* (apps/mac/src/renderer/src/useConfig.ts, useStatus.ts, the panes, and   *)
(* the ipcMain handlers and tray of apps/mac/src/main).  The window calls  *)
(* main with ipcRenderer.invoke: requests are handled in order, and        *)
(* answers and pushed snapshots come back in order.  A call is therefore   *)
(* answered in the step that handles it; what the window does in between   *)
(* comes before that step.                                                 *)
(* The core is only its automation switch here, as the example of what a   *)
(* snapshot shows: some changes push a snapshot, others wait for the       *)
(* interval of its control channel (controlChannel.ts).                    *)
(* Login items changed outside the window, in System Settings, are left    *)
(* out, as are edits of config.json by hand while the app is up.           *)
(***************************************************************************)
EXTENDS Naturals, Sequences

CONSTANTS
    Configs,        \* configurations that the panes may write
    FirstConfig,    \* what firstRunConfig.ts has written
    Unknown,        \* null: not loaded yet
    MaxInvokes      \* bound: invocations not yet handled

ASSUME WindowAssumption ==
    /\ FirstConfig \in Configs
    /\ MaxInvokes \in Nat
    /\ Unknown \notin Configs \cup BOOLEAN

VARIABLES
    disk,           \* config.json
    installed,      \* what the system has: the login item, the LaunchAgent's plist
    coreUp,
    coreStatus,     \* automationEngine.enabled in the core
    latestSnapshot, \* main's cache of it
    snapshot,       \* useStatus
    open,           \* whether the window exists
    config, saving, error,          \* useConfig
    devicePane,     \* whether the Device pane is mounted
    shownSwitch, switchError,       \* its state
    requests        \* invocations not yet handled

systemVars == <<disk, installed>>
coreVars == <<coreUp, coreStatus>>
snapshotVars == <<latestSnapshot, snapshot>>
configVars == <<config, saving, error>>
paneVars == <<devicePane, shownSwitch, switchError>>
windowVars == <<systemVars, coreVars, snapshotVars, open, configVars, paneVars, requests>>

Switches == {"login", "dockWatch"}
NoSwitches == [s \in Switches |-> Unknown]
NoErrors == [s \in Switches |-> FALSE]

\* The invocations.  mine: whether the component that made it is still mounted;
\* previous is what the closure of updateConfig has captured.
Call(op, arg) == [op |-> op, arg |-> arg, mine |-> TRUE]
GetConfig == Call("getConfig", Unknown)
SetConfig(next, previous) == Call("setConfig", [next |-> next, previous |-> previous])
GetSwitch(s) == Call("getSwitch", s)
SetSwitch(s, on) == Call("setSwitch", [switch |-> s, on |-> on])
GetSnapshot == Call("getSnapshot", Unknown)
SetAutomation(on) == Call("setAutomation", on)

Invoke(calls) ==
    /\ Len(requests) + Len(calls) <= MaxInvokes
    /\ requests' = requests \o calls

Orphaned(ops) ==
    [i \in DOMAIN requests |->
        [requests[i] EXCEPT !.mine = @ /\ requests[i].op \notin ops]]

Unanswered(ops) == \E i \in DOMAIN requests : requests[i].mine /\ requests[i].op \in ops

ConfigOps == {"getConfig", "setConfig"}
SwitchOps == {"getSwitch", "setSwitch"}
CoreOps == {"getSnapshot", "setAutomation"}

WindowInit ==
    /\ disk = FirstConfig /\ installed \in [Switches -> BOOLEAN]
    /\ coreUp = FALSE /\ coreStatus = TRUE
    /\ latestSnapshot = Unknown /\ snapshot = Unknown
    /\ open = FALSE
    /\ config = Unknown /\ saving = FALSE /\ error = FALSE
    /\ devicePane = FALSE /\ shownSwitch = NoSwitches /\ switchError = NoErrors
    /\ requests = <<>>

-----------------------------------------------------------------------------
(* The window: mounting, unmounting and what the user does. *)

\* A new window mounts useConfig and useStatus; the overview pane comes first.
ShowSettingsWindow ==
    /\ ~open /\ open' = TRUE
    /\ Invoke(<<GetConfig, GetSnapshot>>)
    /\ config' = Unknown /\ saving' = FALSE /\ error' = FALSE /\ snapshot' = Unknown
    /\ UNCHANGED <<systemVars, coreVars, latestSnapshot, paneVars>>

UnmountPane ==
    devicePane' = FALSE /\ shownSwitch' = NoSwitches /\ switchError' = NoErrors

CloseWindow ==
    /\ open /\ open' = FALSE
    /\ requests' = Orphaned(ConfigOps \cup SwitchOps \cup CoreOps)
    /\ UnmountPane
    /\ UNCHANGED <<systemVars, coreVars, snapshotVars, configVars>>

OpenDevicePane ==
    /\ open /\ ~devicePane /\ devicePane' = TRUE
    /\ Invoke(<<GetSwitch("login"), GetSwitch("dockWatch")>>)
    /\ UNCHANGED <<systemVars, coreVars, snapshotVars, open, configVars, shownSwitch,
                   switchError>>

LeaveDevicePane ==
    /\ devicePane
    /\ UnmountPane
    /\ requests' = Orphaned(SwitchOps)
    /\ UNCHANGED <<systemVars, coreVars, snapshotVars, open, configVars>>

\* A pane edits the configuration it shows and applies it at once; a stepper at
\* its minimum applies the same again.
UpdateConfig(next) ==
    /\ open /\ config # Unknown
    /\ Invoke(<<SetConfig(next, config)>>)
    /\ config' = next /\ saving' = TRUE /\ error' = FALSE
    /\ UNCHANGED <<systemVars, coreVars, snapshotVars, open, paneVars>>

\* handleLaunchAtLoginChange, handleDockWatchChange.  The pane is blank without
\* a snapshot.
FlipSwitch(s) ==
    /\ devicePane /\ snapshot # Unknown /\ shownSwitch[s] # Unknown
    /\ Invoke(<<SetSwitch(s, ~shownSwitch[s])>>)
    /\ shownSwitch' = [shownSwitch EXCEPT ![s] = ~@]
    /\ switchError' = [switchError EXCEPT ![s] = FALSE]
    /\ UNCHANGED <<systemVars, coreVars, snapshotVars, open, configVars, devicePane>>

\* The Automation pane disables its switch while the call is pending, and shows
\* the snapshot only.
FlipAutomation ==
    /\ open /\ snapshot # Unknown /\ ~Unanswered({"setAutomation"})
    /\ Invoke(<<SetAutomation(~snapshot)>>)
    /\ UNCHANGED <<systemVars, coreVars, snapshotVars, open, configVars, paneVars>>

-----------------------------------------------------------------------------
(* The core's control channel and main's cache. *)

HandleCoreMessage ==
    /\ latestSnapshot' = coreStatus'
    /\ snapshot' = IF open THEN coreStatus' ELSE snapshot

SendToCore(on) ==
    IF coreUp THEN coreStatus' = on /\ HandleCoreMessage
              ELSE UNCHANGED <<coreStatus, snapshotVars>>

TogglesInTray ==
    /\ latestSnapshot # Unknown
    /\ SendToCore(~latestSnapshot)
    /\ UNCHANGED <<systemVars, coreUp, open, configVars, paneVars, requests>>

\* The phone's override reaches the engine and pushes no snapshot.
OverrideByPhone ==
    /\ coreUp
    /\ coreStatus' = ~coreStatus
    /\ UNCHANGED <<systemVars, coreUp, snapshotVars, open, configVars, paneVars, requests>>

\* Mutant: only commands push.
NoInterval == coreUp /\ coreStatus # latestSnapshot /\ UNCHANGED windowVars

SnapshotInterval ==
    /\ coreUp /\ coreStatus # latestSnapshot
    /\ UNCHANGED <<systemVars, coreVars, open, configVars, paneVars, requests>>
    /\ HandleCoreMessage

CoreBoots ==
    /\ ~coreUp /\ coreUp' = TRUE /\ coreStatus' = TRUE
    /\ HandleCoreMessage
    /\ UNCHANGED <<systemVars, open, configVars, paneVars, requests>>

CoreStops ==
    /\ coreUp /\ coreUp' = FALSE
    /\ UNCHANGED <<systemVars, coreStatus, snapshotVars, open, configVars, paneVars, requests>>

-----------------------------------------------------------------------------
(* Main handles the oldest invocation; its answer updates whoever made it. *)

Handles(op) ==
    /\ requests # <<>> /\ Head(requests).op = op

HandleGetConfig ==
    /\ Handles("getConfig")
    /\ requests' = Tail(requests)
    /\ config' = IF Head(requests).mine THEN disk ELSE config
    /\ UNCHANGED <<systemVars, coreVars, snapshotVars, open, saving, error, paneVars>>

\* writeConfig writes all of it or throws.
\* Mutant: the failure that is not reported.
FailsSilently(call) ==
    config' = call.arg.previous /\ error' = FALSE

SaveFails(call) ==
    config' = call.arg.previous /\ error' = TRUE

SaveSucceeds(call) ==
    config' = call.arg.next /\ error' = error

HandleSetConfig(ok) ==
    LET call == Head(requests)
    IN  /\ Handles("setConfig")
        /\ requests' = Tail(requests)
        /\ disk' = IF ok THEN call.arg.next ELSE disk
        /\ IF call.mine
           THEN /\ IF ok THEN SaveSucceeds(call) ELSE SaveFails(call)
                /\ saving' = FALSE
           ELSE UNCHANGED configVars
        /\ UNCHANGED <<installed, coreVars, snapshotVars, open, paneVars>>

HandleGetSwitch ==
    LET call == Head(requests)
    IN  /\ Handles("getSwitch")
        /\ requests' = Tail(requests)
        /\ shownSwitch' = IF call.mine
                          THEN [shownSwitch EXCEPT ![call.arg] = installed[call.arg]]
                          ELSE shownSwitch
        /\ UNCHANGED <<systemVars, coreVars, snapshotVars, open, configVars, devicePane,
                       switchError>>

\* macOS may refuse a login item silently; a plist is written or removed.  The
\* answer is read back from the system.
Reconciles(s, on) == shownSwitch' = [shownSwitch EXCEPT ![s] = installed'[s]]

SetSwitchAnswers ==
    LET call == Head(requests) s == call.arg.switch on == call.arg.on
    IN  /\ Handles("setSwitch")
        /\ requests' = Tail(requests)
        /\ \E now \in IF s = "login" THEN {on, installed[s]} ELSE {on} :
              installed' = [installed EXCEPT ![s] = now]
        /\ IF call.mine
           THEN /\ Reconciles(s, on)
                /\ switchError' = [switchError EXCEPT ![s] = @ \/ installed'[s] # on]
           ELSE UNCHANGED <<shownSwitch, switchError>>
        /\ UNCHANGED <<disk, coreVars, snapshotVars, open, configVars, devicePane>>

\* The handler throws before it has changed anything: the pane asks again.
SetSwitchThrows ==
    LET call == Head(requests) s == call.arg.switch
    IN  /\ Handles("setSwitch")
        /\ IF call.mine
           THEN /\ requests' = Append(Tail(requests), GetSwitch(s))
                /\ switchError' = [switchError EXCEPT ![s] = TRUE]
           ELSE requests' = Tail(requests) /\ UNCHANGED switchError
        /\ UNCHANGED <<systemVars, coreVars, snapshotVars, open, configVars, devicePane,
                       shownSwitch>>

HandleGetSnapshot ==
    /\ Handles("getSnapshot")
    /\ requests' = Tail(requests)
    /\ snapshot' = IF Head(requests).mine THEN latestSnapshot ELSE snapshot
    /\ UNCHANGED <<systemVars, coreVars, latestSnapshot, open, configVars, paneVars>>

HandleSetAutomation ==
    /\ Handles("setAutomation")
    /\ requests' = Tail(requests)
    /\ SendToCore(Head(requests).arg)
    /\ UNCHANGED <<systemVars, coreUp, open, configVars, paneVars>>

-----------------------------------------------------------------------------

UserActs ==
    \/ ShowSettingsWindow
    \/ CloseWindow
    \/ OpenDevicePane
    \/ LeaveDevicePane
    \/ \E next \in Configs : UpdateConfig(next)
    \/ \E s \in Switches : FlipSwitch(s)
    \/ FlipAutomation
    \/ TogglesInTray

MainHandles ==
    \/ HandleGetConfig
    \/ \E ok \in BOOLEAN : HandleSetConfig(ok)
    \/ HandleGetSwitch
    \/ SetSwitchAnswers
    \/ SetSwitchThrows
    \/ HandleGetSnapshot
    \/ HandleSetAutomation

CoreActs == OverrideByPhone \/ SnapshotInterval \/ CoreBoots \/ CoreStops

WindowNext == UserActs \/ MainHandles \/ CoreActs

\* Main serves its queue and the interval runs; nothing makes the user act or
\* the core start.
WindowFairness == WF_windowVars(MainHandles) /\ WF_windowVars(SnapshotInterval)

WindowSpec == WindowInit /\ [][WindowNext]_windowVars /\ WindowFairness

-----------------------------------------------------------------------------

WindowTypeOK ==
    /\ disk \in Configs /\ installed \in [Switches -> BOOLEAN]
    /\ {coreUp, coreStatus, open, saving, error, devicePane} \subseteq BOOLEAN
    /\ {latestSnapshot, snapshot} \subseteq BOOLEAN \cup {Unknown}
    /\ config \in Configs \cup {Unknown}
    /\ shownSwitch \in [Switches -> BOOLEAN \cup {Unknown}]
    /\ switchError \in [Switches -> BOOLEAN]
    /\ Len(requests) <= MaxInvokes

\* When every edit is answered the window shows what is saved, or an error:
\* overlapping edits, failures and a window closed in between never leave it
\* silently showing something else (useConfig.ts:31-42).
DriftIsFlagged ==
    open /\ config # Unknown /\ ~Unanswered(ConfigOps) => config = disk \/ error

\* When its calls are answered a switch shows what the system has, however the
\* first load, clicks, refusals and failures overlapped (DevicePane.tsx:21-30,
\* 71-107).
SettledSwitchIsTrue ==
    \A s \in Switches :
        devicePane /\ (\A i \in DOMAIN requests : requests[i].op \notin SwitchOps)
            => shownSwitch[s] = installed[s]

\* An open window ends up with every status of the core that lasts, also one
\* that no command pushed (controlChannel.ts:97-100, useStatus.ts:19-39).
WindowCatchesUp ==
    \A on \in BOOLEAN :
        (open /\ coreUp /\ coreStatus = on)
            ~> (snapshot = on \/ ~open \/ ~coreUp \/ coreStatus # on)

\* Nothing that is settled shows what is not so, unless it shows an error
\* (useConfig.ts:31-42, DevicePane.tsx:71-107).
WindowInv == WindowTypeOK /\ DriftIsFlagged /\ SettledSwitchIsTrue
=============================================================================
