# A verification project for desk-agent

desk-agent turns a phone on a desk into a presence sensor and a dashboard for a Mac.
The phone's camera tells the Mac whether somebody is there, and the Mac puts its display
to sleep and wakes it again.  Plugins on the Mac supply the widgets the phone shows.
Nearly everything hard about it is ordering: edges, timeouts, reconnects, crashes and
restarts that meet in orders no test was written for.

This directory holds TLA+ models of the parts where that matters, the TLC
configurations that check them, and TLAPS proofs of what matters most about them.
All paths below are relative to the repository's root.

    cd tla
    tlc -config MCMac.cfg MCMac          # any run of section 3: its configuration, its module
    tlapm EngineProofs.tla               # any module named *Proofs

`PROJECT.json` is the machine-readable side: which lines each definition models, the
runs, the hazards, and for every property of a run a plausible bug (a definition
commented `Mutant:`) that the run catches.  Mutants are used by no action of a
specification.

## 1. Inventory

One phone app (React Native), one core (a Node process) and one macOS app (Electron)
which supervises the core.

    phone: camera -> signals -> edges -> WsClient ===socket (adb reverse)===+
                                                                            |
    core:  TunnelSupervisor (adb)              WsGateway <------------------+
                                                  |  onClientMessage
                          Watchdog <--- pulse ----+---- onLinkResumed ---> PresenceEngine
                             |  onMissed -> onCameraState('error') ------------^   |
                                                  |                               |
                          EventBus <--- sensor frames      person_present, presence.returned
                             |                                                    |
                          AutomationEngine <--------------------------------------+
                             |  invokeAction
                          WorkerHost ---> plugin worker threads ---> child processes

    macOS app: CoreSupervisor -> the core process; config file; control channel

| Component | State it keeps | Operations | What is hard | What makes it correct |
|---|---|---|---|---|
| Presence engine `packages/core/src/presenceEngine.ts` | `state`, camera and link health, absence and boot timer, last face and motion | sensor handlers, camera reports, watchdog timeout, link resumed, two timer callbacks | long mixes of edges and failures; the timer against everything that must cancel it | absent only on a whole window of trusted evidence of nobody; any doubt ends it |
| Link watchdog `watchdog.ts` | timer, `firedThisSilence` | start, stop, pulse, callback | a message racing the deadline; restarts inside a silence | each silence reported once, never early, always in the end |
| Automation engine `automationEngine.ts` | master switch, disabled rules, a debounce timer per rule | enable and disable, events, callbacks | switches and contrary events during a debounce | no action early, late, after a contradiction or while off; no starved debounce |
| Energy saver `packages/plugins/energy-saver` | none (child processes) | sleep, wake | processes overlap and fail | the display ends as the last decision says |
| Event bus and wiring `main.ts`, `entrypoint.ts`, `eventBus.ts` | subscriptions | dispatch | which callbacks run in the same turn of the event loop | the views of watchdog, engine and rules agree |
| Phone sensor `apps/android/src/presence`, `presenceEvents.ts` | edge memory, camera state, connection epoch | observe, camera change, new epoch | edges sent into a dead socket are gone | the Mac relearns what it lost |
| Phone connection `wsClient.ts` | socket, two timers, attempt, `stopped` | connect, disconnect, socket callbacks | an abandoned socket stays open and goes on calling back | never stranded, never shown connected unsupervised, stoppable |
| Gateway `wsGateway.ts` | clients, heartbeat interval | hello, frames, broadcasts | the snapshot awaits plugins while broadcasts go out | the dashboard converges on the latest widgets |
| Plugin worker host `workerHost.ts`, `workerEntry.ts` | worker, status, restart count, pending calls | spawn, messages, exit, getWidgets | one crash is two events; deadlines and backoff overlap | one worker, calls settle, crashes are handled |
| Core supervisor `apps/mac/src/main` | child, health, restart count and timer, debounce, cached snapshot | start, stop, restart, child events, config edits | `kill` is only a request; events of superseded processes | one supervised core, running the last configuration |
| Tunnel supervisor `tunnelSupervisor.ts`, `adbRunner.ts` | serial, status | attach, detach, reissue, launch | overlapping `adb` processes; state read before an await | the tunnel of the attached device is the one reported |
| Control channel `controlChannel.ts` | denial count, snapshot interval | snapshots, switches, screensaver commands | messages during boot and shutdown | each command reaches its owner |
| Screensaver configuration (`App.tsx`, `screensaverConfigStore.ts`) | phone storage, phone state, the Mac's copy | load, edit on either side, push on connect | a late load over a newer edit; dropped frames; restarts | both sides converge |
| Permission enforcer `permissionEnforcer.ts` | none (the denial count of `main.ts`) | allow or deny | grants, requests and allowlist are written in five files | no plugin does what it has no permission for; none is denied what it needs |
| System-stats and weather plugins | last readings, the title last seen playing | poll, getWidgets | polls overlap, share state and fail in part; a broadcast passes an older snapshot | the phone ends with the last reading; a paused song keeps its card, a dead one goes |
| Signal derivation (`signalDeriver.ts`, `frameProcessor.ts`) | the previous face box and count | one frame | thresholds; motion is a difference of two frames | gaze fails closed; motion on movement or a changed count |
| Phone screens (`App.tsx`, `AppShell.tsx`, `HomeScreen.tsx`, `LightScreen.tsx`) | current screen, last local activity, last positive signal, preview slot, the window's brightness | navigation, auto-idle poll, wake on a positive edge, the light's intervals, native brightness calls | the idle poll against touches, edges and the light's bumps; native answers that come after the screen is gone | a phone left alone sleeps, the light is not put out early, brightness comes back |
| Settings window (`useConfig.ts`, `useStatus.ts`, the panes) | an optimistic copy of the configuration, the last snapshot, the startup switches, the log lines | edits, calls to main, pushed snapshots and lines | calls that fail or are answered late; pushes before the page listens | what it shows is so, or an error is shown; no line twice or missing |
| Configuration file (`configStore.ts`, `firstRunConfig.ts`, `configLoader.ts`) | `config.json` | first run, saves, hand edits, loading | a kill between two system calls; entries nobody knows | never half written; the panes show what runs |
| Tray and update check (`tray.ts`, `updateCheck.ts`) | the menu, a release on offer | rebuild, check, destroy | the menu is a copy; a check outlives the tray | the menu is current; only upgrades are offered |
| Wire schemas, native services, packaging | none | | | |

`PROJECT.json` lists under `hazards` each place where one of these things bites, with the
properties that would notice, or a note where none does yet.

## 2. What is modelled

Timers are countdowns (`Timer`): `setTimeout` promises "not before", so a timer that is
due may stay due while time goes on, and its callback interleaves with everything else.
One JavaScript turn (a message handler or a callback, with every synchronous callback it
makes) is one action; what follows an `await` or is posted to another thread or process
is another.

The core:

| Module | Models | Correspondence |
|---|---|---|
| `PresenceEngine` | `presenceEngine.ts`, whole | variables are the class's fields; `OnFaceVisible`, `OnMotion`, `OnGaze`, `OnCameraState`, `OnWatchdogTimeout` (the `'watchdog-timeout'` reason), `OnLinkResumed` and the two callbacks are its operations; `published` is what `onPresenceChange` and `onGenuineReturn` hand to the bus in the step |
| `PresencePromise` | nothing of the code | the abstract specification: a window of clear evidence, then absent; any doubt ends it |
| `PresenceHistory` | | the engine with the history variable `quiet`, and the refinement mapping to `PresencePromise` |
| `Watchdog`, `WatchdogHistory` | `watchdog.ts`, whole | one action per method and for the callback; history of the silence, of its reports and of whether the watchdog is wanted |
| `AutomationEngine`, `AutomationHistory` | `automationEngine.ts`, whole | any set of rules: the events a rule listens to, those its condition accepts, those it throws on, its debounce; `HandleEvents` is the subscriber; history of how long each condition has held |
| `EnergySaver` | the plugin, and the display | an action message starts a process; processes finish in any order or fail |
| `PresencePipeline` | the wiring: `main.ts`, `entrypoint.ts`, `eventBus.ts`, `wsGateway.ts` frame handling | instantiates `PresenceEngine`, `Watchdog`, `AutomationEngine` (with the two rules of `buildAutomationRules`), `EnergySaver` and `PhoneSensor`; `Deliver` is `handleMessage` with `onClientMessage`, the bus and the subscribers in one step |
| `WorkerHost` | `workerHost.ts` and `workerEntry.ts` for one plugin | the host's fields, worker threads numbered as spawned, each with the messages it has posted; Node delivers those before the exit event |
| `PluginPermissions` | `permissionEnforcer.ts`, the grants of `main.ts`, the requests of the plugins | one action per request, any other command or argument among them |
| `TunnelSupervisor` | `tunnelSupervisor.ts`, `adbRunner.ts`, three commands of `controlChannel.ts` | the stream of device lists read in chunks; adb calls are processes that overlap and end in any order or fail |
| `WidgetFeed` | the weather plugin's polls, the hello snapshot and broadcasts of `wsGateway.ts`, what `App.tsx` makes of them | each `await` of a poll, and of the snapshot, is a cut |
| `NowPlaying` | the now-playing polls of system-stats | `pgrep` and `nowplaying-cli` are two awaits of a poll, and each may fail: a failing `pgrep` forgets the title last seen playing, which the polls share, a failing `nowplaying-cli` does not |

The phone:

| Module | Models | Correspondence |
|---|---|---|
| `PhoneSensor` | what the Mac may assume of the phone | camera announcements and edge-only signals; the abstract side of the next |
| `CameraPresence` | `useCameraLifecycle.ts`, `CameraPresence.tsx`, `signalDeriver.ts`, `edgeEmitter.ts`, `sensorFrame.ts`, `derivePresence.ts` | switch, prompt, the announcing effect, observations that end late, dwell, and the two audiences; implements `PhoneSensor` (`KeepsToSensor`), with which the pipeline is checked |
| `WsClient` | `wsClient.ts` | sockets numbered as created; a socket dropped for missing heartbeats is not closed, so several may live; `reconnect[d]` is the timer of the d-th drop and `this.reconnectTimer` the last of them |
| `PhoneScreens` | `App.tsx`, `AppShell.tsx`, `HomeScreen.tsx` and the two automatic exits of `LightScreen.tsx` | one action per navigation, touch, poll, interval and edge |
| `LightScreen` | the brightness effect of `LightScreen.tsx` and the native module behind it | calls run in order, answers come in order and may find the screen gone |
| `ScreensaverSync` | `App.tsx`, `screensaverConfig.ts`, `screensaverConfigStore.ts`, the gateway and the control channel | storage, state, publishing effect, both directions of the socket, the mirror and the window; drops and restarts of either side |

The Mac app:

| Module | Models | Correspondence |
|---|---|---|
| `CoreSupervisor` | `coreSupervisor.ts`, and of `index.ts` the debounced restart, `config:set`, the snapshot cache and quitting | core processes numbered as forked, each with its undelivered events |
| `SettingsWindow` | `useConfig.ts`, `useStatus.ts`, the switches of `DevicePane.tsx`, the handlers of `index.ts`, the snapshot interval | requests handled in order, each able to fail; answers come with pushed snapshots in order |
| `LogPane` | `logBuffer.ts`, the log pushes of `index.ts`, `useStatus.ts`, `LogsPane.tsx` | a line is its number; history and pushes share a queue |
| `ConfigFile` | `firstRunConfig.ts`, `configStore.ts`, `configLoader.ts`, the panes that edit it, the plugin list of `entrypoint.ts` | writes are a temporary file and a rename, with kills in between; the core is what it booted with |
| `TrayMenu` | `tray.ts`, `updateCheck.ts`, their wiring and teardown | the menu is a record taken when it is rebuilt |

`MCMac`, with the core's parts from `MCCore`, and `MCPhone` put components that are checked on
their own into one run each.  Their parts share no state: the variable `part` is chosen at the start and says which
component moves, with its own fairness and no other's.  `MCPresencePipeline` gives the
pipeline its constants.  `Lists` has the filtering and counting of lists that
`ConfigFile` and `PhoneSensor` share.  The proofs are in `EngineProofs` (presence engine,
watchdog, automation), `PipelineProofs`, `PluginProofs` (permissions, workers, what is
playing, widgets), `SupervisorProofs`, `PhoneProofs` (screens, camera, light, connection),
`MacProofs` (tray, tunnel, logs, screensaver), `WindowProofs` (settings window,
configuration file) and `ListProofs`.

Bounds that stand for nothing in the code: `Room` and the length guard of `SocketOpens`
(PresencePipeline), `execs[a] < MaxExecs` (EnergySaver), `requestCounter < MaxCalls`
(WorkerHost), `MaxDenials` (PluginPermissions), `MaxLists` and `MaxAdb`
(TunnelSupervisor), `drops < MaxDrops` (WsClient), `Len(mail[p]) < MaxMail` and the range of
`config` (CoreSupervisor), `MaxInvokes` (SettingsWindow), `MaxLines` (LogPane), `MaxChecks`
(TrayMenu), `MaxEdits` (ConfigFile, ScreensaverSync, with the lengths of its queues), and the
names in `Visits`, `Polls` and `Reads`.  `restarts` of `WorkerHost` and `CoreSupervisor` are
bounded by the code.  History variables stop counting at the timeout they are compared with.

Abstractions a reader should know of: payload validation is done (every frame is one the
schema accepts), log wording and `stateSince` are gone, heartbeats sent by the Mac are not
tracked (the phone may answer or send one whenever its socket is open), the `maps` of
`WorkerHost` are one plugin's slice, since plugins share nothing there, a scene of
`CameraPresence` is whether there is a face, whether it looks this way and where it is, and
`PhoneScreens` counts time in the 30 s of the light screen's intervals.

## 3. Runs

| Run | Module, configuration | Distinct states | Question |
|---|---|---|---|
| `mac_parts` | `MCMac`, `MCMac.cfg` | 208,402 | The engine, the watchdog, the rules, a plugin's worker and its permissions, each under every order of operations: do they keep their invariants and what they promise?  Does the tunnel's status tell the truth, do window, log and tray show what is, and does the configuration survive kills and hand edits? |
| `pipeline_safety` | `MCPresencePipeline`, `MCPipelineSafety.cfg` | 1,814,728 | From lens to display over a lossy connection, with switches and failures: do the parts agree, is absence supervised, is every sleep deserved and every wake founded on evidence? |
| `pipeline_liveness` | `MCPresencePipeline`, `MCPipelineLiveness.cfg` | 76,123 | Does silence end absence, absence put the display to sleep, a return invoke the wake? |
| `phone_parts` | `MCPhone`, `MCPhone.cfg` | 330,915 | Is the camera heard on both sides, the connection never stranded, the screensaver's configuration shared, the widget current; does a phone left alone sleep, and is its brightness given back? |
| `core_supervisor` | `CoreSupervisor`, `MCCoreSupervisor.cfg` | 2,320,588 | One supervised core, none forgotten, the last configuration applied, the snapshot never going back? |
| `find_wake`, `find_quiet`, `find_culprit`, `find_disconnect`, `find_brightness`, `find_persisted`, `find_replug` | | | Section 6: each shows one disagreement between the code and what the repository says of it. |

Bounds, and why they are enough:

* Timeouts.  Only the order of deadlines matters, and a due timer may stay due, so a
  timeout of one tick already lets everything happen before, at and after it.  Where one
  timer must be seen both to outlast and to undercut another the values differ: in
  `pipeline_safety` the absence window is 2 and the other timeouts 1; the three rules of
  `MCCore` have debounces 6, 3 and 0.  The engines on their own are small, so they run
  with long timeouts, 10 and 60, and are then proved for all.
* Pipeline.  `pipeline_safety` has face and motion, the two signals `Clear` depends on
  (gaze is proved to be inert), and a camera that is active or released: `error` and
  `pending` are treated like `released` by the engine, and `CameraPresence` has all four.
  One observation is under way, of one or two frames: a longer queue only delays frames that
  are handled one at a time, and a lost suffix or a reconnect already happens at every cut.
  One child process of each kind is enough for a sleep and a wake to overlap.
  `pipeline_liveness` has a face only and a camera that is active or fails.
* `WorkerHost`.  Two restarts and two calls: a crash, its successor, the exhausted budget
  and the deadline of a call made to each.  The budget of the code is 5; nothing depends on
  its value but when the plugin is given up.
* `WsClient`.  Three drops, hence up to four sockets alive together.  A second drop of the
  same socket is the shortest case in which a timer is overwritten; a third lets its
  successor be disturbed in turn.
* `CameraPresence`.  No face, or a face in one of two places, so that there is motion with a
  face and without; two signals; a dwell of one tick, shorter or longer than what follows.
* `PhoneScreens`.  Two grace periods, one shorter than the light's limit and one equal to
  it.  `LightScreen`: two visits, the least that can overlap.
* `ScreensaverSync`.  Two graces, on or off, two edits on either side, and restarts and drops
  without limit.
* `WidgetFeed` and `NowPlaying`.  Two polls under way, and two readings or titles: the least
  that can be applied out of order.
* `TunnelSupervisor`.  Two phones, two lists unread (one merged chunk) and two `adb`
  processes at a time: two reissues, or a reissue and a launch.
* `SettingsWindow`.  Two configurations and two requests under way, so that a save fails
  behind a later edit.  A window or pane is then opened again only on an empty queue, since
  opening makes requests of its own; `WindowInvHolds` is for any bound, and so covers a
  queue that still holds calls of the window that is gone.  (The components of the Mac app
  also pass with three, at 1.6 million states.)  `LogPane`: a buffer of three and six lines, so that it wraps while
  the page asks.  `TrayMenu`: two overlapping checks.
* `ConfigFile`.  Two plugins, a timeout of 6 with a step of 2 and a minimum of 4, three edits,
  and files by hand that are garbled, name an unknown plugin and another three times, or
  list a tile twice and have a timeout below the minimum.
* `CoreSupervisor`.  One restart, two edits and one undelivered message per process: up to
  six processes, with a crash, a kill and a debounce overlapping.

Deadlock is checked in every run.

### Properties

An invariant of several conjuncts is checked as one; the conjuncts are in brackets, each
commented where it is defined.

* Presence: `HistoryInv` (with `FailToPresent`: `present` is left only on
  trusted evidence of nobody), `KeepsPromise` (refinement of `PresencePromise`),
  `MaybeAbsentResolves`.
* Watchdog: `ReportIsEarned`; `SilenceIsReported` (a watchdog that is wanted calls `onMissed`
  in the end: the wait is ended by a message, a start or `stop()`, not by the expiry).
* Automation: `InvocationIsEarned` (no action early, late, after a contradiction or while
  off), `DebounceEnds`.
* Worker: `WorkersInv` [`HostInv`, each restart is paid for by one exit; `AtMostOneWorker`;
  `ReadyWorkerIsUsed`; `GivenUpMeansStopped`], `CallsSettle`, `CrashIsHandled`.
* Permissions: `PermissionsAgree` [`KeepsToPermissions`, `OwnRequestsPass`].
* Pipeline: `AbsenceIsShared` [`LinkViewsAgree`, engine and watchdog reset together;
  `AbsenceIsSupervised`, nobody is absent without a running watchdog;
  `PendingSleepMeansAbsent`], `TypeOK`, `SleepIsDeserved`, `WakeNeedsEvidence`,
  `SilenceEndsAbsence`, `AbsenceLeadsToSleep`, `ReturnLeadsToWake`.
* Phone connection: `ConnectionInv` [`ClientInv`, one connection per drop; `NeverStranded`;
  `ConnectedIsSupervised`; `CurrentIsGreeted`], `FailureIsRetried`.
* Camera: `KeepsToSensor` (refinement of `PhoneSensor`), `CameraInv` [`BothHearTheSame`,
  phone and Mac know the same camera and signals; `JudgesRunningCameraOnly`],
  `StillSceneIsHeard` (an edge swallowed by the dwell is sent later).
* Screens: `AbandonedSleeps`; `BrightnessFollowsTheLight`.
* Screensaver: `SyncInv` [`MirrorIsThePhones`, `RestartChangesNothing`], `SidesAgree`.
* Widgets: `PhoneShowsTheLast`, `WeatherArrives`, `PausedCardStays`, `DeadRegistrationFades`.
* Tunnel: `TunnelInv` [`TunnelTypeOK`; `SerialIsListed`; `ReissuedIsTrue`, no status of
  success for a tunnel that is not up], `DockLeadsToLaunch`.
* Window: `WindowInv` [`WindowTypeOK`; `DriftIsFlagged`; `SettledSwitchIsTrue`],
  `WindowCatchesUp`; `LogHasNoGap`.
* Tray: `TrayInv` [`MenuIsCurrent`; `ChecksSpareTheDestroyed`, of late check answers only, since
  a late event of a core may refresh a destroyed tray (section 6); `OfferIsAnUpgrade`].
* Configuration file: `ConfigFileInv` [`FileStaysWhole`, `PanesShowWhatRuns`,
  `DoublesAreHandmade`, `TimeoutStaysSane`].
* Core supervisor: `SupervisorInv` [`OneSupervisedCore`, `DownIsAccountedFor`,
  `ConfigIsApplied`], `SnapshotsMoveForward`.

Some properties hold only with an exception, which is a history variable and is named in
the property: `BrightnessFollowsTheLight` excepts a visit that began before an earlier one
had its answer (finding 5), `RestartChangesNothing` a load that overtook an edit (finding
6), `PhoneShowsTheLast` a broadcast that passed an older snapshot (`WeatherArrives` says
that the next poll makes up for it), `PausedCardStays` polls that overlapped and a `pgrep`
that failed (section 6), and `ReissuedIsTrue` a phone whose unplugging was hidden in a merged
chunk (finding 7).  A poll that fails itself may show nothing; `PausedCardStays` speaks of
every poll that can read.

`ReturnLeadsToWake` is about the invocation.  The child process may fail, and
an older sleep process may finish after it; what the display does is not promised by the
code.

## 4. Fairness

Weak fairness, and only of what a JavaScript runtime, or a child process, does by itself:

* time passes (`Tick` of each component) and a due timer's or interval's callback is run;
* a message that has reached the process is handled (`Deliver`, `HandleMessage`,
  `CoreReceives`, `PhoneReceives`, `HostReads`, the window's requests), and the exit of a
  process or thread is reported (`HandleExit` of `WorkerHost`);
* child processes end, one way or the other: `pmset` and `caffeinate -t 2` in the
  pipeline, `adb` calls, the commands of a now-playing poll; a weather request is answered
  or fails;
* the phone's camera goes on delivering frames while it runs, and React runs an effect whose
  dependencies have changed;
* the phone's storage answers.

Nothing is assumed of the phone's user, of sockets and the network, of the automation
switches, of what is plugged in, or of plugin code in a worker, which may stay silent for
ever.  `SidesAgree`, `WeatherArrives` and `StillSceneIsHeard` suppose in their own statement
a link that lasts.  A time-out's callback is never assumed to win a race with a message: weak
fairness only says that a timer that stays due is not forgotten.  The exception is
`PhoneScreens`: an interval of 30 s is late by less than 30 s (`InTime`), without which the
light screen's bump and the idle poll could come in any proportion and nothing could be said
of a phone left alone.  `CoreSupervisor` is checked for safety only.  The two liveness
properties of the pipeline that mention switches are checked with switches off
(`Switches = FALSE`), since a master switch thrown at the right moment rightly prevents
either action.

## 5. Proofs

TLAPS proves the following, for every value of the constants the named assumptions allow
(8130 obligations in eight modules).  Every safety invariant and every action property
that a run checks is among it, and both refinements.

| Module | Theorem | Establishes |
|---|---|---|
| `EngineProofs` | `HistoryInvHolds`, `FailToPresentHolds` | `present` is left only on trusted evidence of nobody |
| | `EngineKeepsPromise` | the engine implements `PresencePromise`: each step is a step of it or a stutter |
| | `GazeIsInertHolds` | gaze changes nothing, whatever `gazeIsKeepAwake` says |
| | `ReturnNeedsEvidenceHolds` | only evidence announces a return |
| | `WatchdogInvHolds`, `ReportedOnceHolds`, `ReportIsEarnedHolds` | one report per silence, and none early |
| | `AutomationInvHolds`, `DisabledHoldsNoTimerHolds`, `InvocationIsEarnedHolds` | for any set of rules, no action early, after a contradiction or while off |
| `PipelineProofs` | `AbsenceIsSharedHolds`, `AbsenceIsSupervisedHolds` | engine, watchdog and rules agree on link and absence; absence is supervised |
| | `SleepIsDeservedHolds` | the display is told to sleep only while absent on trusted evidence, with its switches on |
| | `WakeNeedsEvidenceHolds` | a wake is armed by a positive frame that ends an absence or a maybe-absence, and by nothing else |
| | `TypeOKHolds` | every part keeps its type and the uplink its bound, for any signals in any order |
| `PluginProofs` | `WorkersInvHolds`, `AtMostOneWorkerHolds` | one worker, the one calls go to, none once given up, for any budgets |
| | `PermissionsAgreeHolds` | no plugin exceeds its permissions, none is denied a request of its own, whatever else is asked |
| | `PausedCardStaysHolds` | a paused song keeps its card for the grace, whatever its length and whichever reads fail, unless polls overlapped or `pgrep` failed |
| | `PhoneShowsTheLastHolds` | at rest the phone shows the last reading published, for any readings and polls, unless a broadcast passed an older snapshot |
| `SupervisorProofs` | `SupervisorInvHolds`, `OneSupervisedCoreHolds` | one supervised core, none forgotten, the last configuration applied |
| | `SnapshotsMoveForwardHolds` | the cached snapshot never goes back to an earlier core's |
| `PhoneProofs` | `ConnectionInvHolds`, `NeverStrandedHolds` | the connection is never stranded, never shown unwatched, answered by one reconnect per drop |
| | `CameraInvHolds` | screen and Mac know the same camera and signals, and only a running camera is judged |
| | `KeepsToSensorHolds` | `CameraPresence` implements `PhoneSensor`, with which the pipeline is checked, for any signals, scenes and dwell |
| | `BrightnessFollowsTheLightHolds` | full brightness with the light, the user's own without it, for any number of visits, unless two raced or a call was refused |
| | `LightStaysOnHolds` | idling does not put out the light |
| | `PreviewOnlyOnPresenceHolds` | the camera preview has a place only on its own screen |
| `MacProofs` | `TrayInvHolds`, `SerialIsListedHolds`, `LogHasNoGapHolds` | the menu is current while the tray stands, late checks spare a destroyed one, only upgrades are offered; adb target and log lines, for all versions, phones and buffer sizes |
| | `TunnelInvHolds` | `reissued` is true of the phone that is docked alone, for any number of phones, unread lists and overlapping adb processes |
| | `SyncInvHolds`, `RestartChangesNothingHolds` | at rest, phone, storage and core hold one screensaver configuration |
| `WindowProofs` | `WindowInvHolds` | the settled window shows what is so, or an error, for any number of calls and any configurations |
| | `ConfigFileInvHolds` | through kills, saves and hand edits `config.json` stays whole and the panes show what runs, for any plugins, tiles and timeouts |

Assumptions, all evaluated by TLC in the runs: `PresenceAssumption` and
`PipelineAssumption` (timeouts are naturals, zero is allowed, except the watchdog's; the
signals are listed in an order and there is one), `WatchdogAssumption`, `RulesAssumption`
(debounces are naturals; events and conditions are arbitrary sets), `WorkerHostAssumption`,
`PermissionsAssumption`, `CoreSupervisorAssumption`, `WsClientAssumption`,
`ScreensAssumption` (a grace is at least two ticks: the shortest preset is a minute),
`CameraAssumption` (the signals are those a frame is reduced
to, and only a face can look this way), `LightAssumption`, `TrayAssumption`,
`TunnelAssumption` (finitely many phones), `LogAssumption`, `ScreensaverAssumption`,
`FeedAssumption` and `NowPlayingAssumption` (no reading is the reading that is missing, no
title the missing one), `WindowAssumption`, and `ConfigFileAssumption` (the schema's defaults
list no plugin twice and are not below the stepper's minimum; a file by hand that parses has
the schema's shape).

The arguments.  Type correctness and the property itself seldom survive a step on their
own; the strengthening says what the missing part of the state must be.

* Timers are measured against the history they stand for.  `TimerMeasuresQuiet`: while the
  absence timer runs, the quiet so far plus what the timer still wants is at least the
  window, so when it is due the window is full.  With `MaybeAbsentHasTimer` and
  `~Clear => quiet = 0` this is `HistoryInv`, and `AbsenceTimeoutFires` maps to
  `DeclareAbsent`.  `WatchdogInv` and `AutomationInv` do the same for `silence` and for each
  rule's condition, and `WatchdogInv` adds that a watchdog that is wanted has its timer set until
  it has reported, which is why expiry cannot end the wait of `SilenceIsReported`.  `LightIsBumped` says that on the light screen the silence is at most
  one interval.
* `PipelineInv` is `EngineInv`, `LinkInv` and `RuleInv`: what the engine must know to be
  anything but present, that the watchdog runs or has reported the silence and the engine
  knows which, and that a pending sleep has an absent engine and its switches behind it.  Each step of the pipeline is first reduced to what it does
  to one instance and to what it publishes.
* `HostIInv` (worker host): workers are numbered, all but the last have exited (`InTurn`),
  one that has exited has left nothing to handle (`Quiet`), each respawn pending or made is
  paid for by an exit (`Paid`), giving up takes the whole budget (`Spent`), and a worker that
  serves has been heard or will be (`Served`).
* `SupervisorIInv`: `ForksArePaid` counts forks: each configuration that a debounced
  restart has booted pays for at most `MaxRestarts + 1`, so that there is always a number
  for the next process; `OneLive` says that every process but the child is killed or gone.
* `ClientIInv`: each drop has its timer or its connection, and the attempts are among the
  drops.
* `LogIInv`: a message's place in the queue says which line it ends with, so that the page,
  which knows only the order, joins history and pushes without a gap.
* `SyncIInv`: every queue the phone's configuration goes through ends with it
  (`LeavesBehind`), whatever older ones are ahead.
* `PipelineTypes`: a burst is at most one frame per signal, so that the uplink exceeds its
  bound by less than a burst; that the frames of a burst are in the signals' order is
  `WithoutFacts`, a lemma of `ListProofs` about filtering any list.
* `NewestIsChild`: the child is the core forked last, and no snapshot is of a later one.
* `CameraIInv`: the camera announced last is what the effect saw, unless the effect is due
  again (`EffectSettles`), and nothing is announced before the first connection
  (`AnnouncedBefore`).  The same invariant gives the refinement: an effect that runs twice, a
  prompt or a late frame is a step of `PhoneSensor` or none.
* `LightIInv`: while no visits race, the native queue has one of two forms.  Either nobody
  asks and the last write is the level the screen should have (`NobodyAsks`), or one visit
  asks and the writes ahead of its question leave the user's level (`StillAsks`).
* `PlayingIInv`: inside the grace, while `pgrep` has not failed and no polls overlap, the title
  remembered is the one registered, and the one poll under way has read it, has not looked
  yet or has failed (`KeptIsKnown`).
* `FeedIInv`: an answer in the worker's queue carries what the publications ahead of it will
  have told the phone by then (`Told`), so that the snapshot is no older than the last
  broadcast unless one passes it.
* `TunnelIInv`: the last unread list is what is plugged in (`PipeIsTrue`), and a phone
  without the tunnel the status speaks of has a reissue running, or a list unread that will
  cause one, or was hidden in a merged chunk (`TunnelIsDue`).
* `WindowIInv`: calls of a window or pane that is gone are ahead of those of the one that is
  open, and what the page shows is either the answer awaited or already so.
* `ConfigIInv`: the panes show the file or the write under way, the core runs the file unless
  a restart is due, and an entry listed twice or a low timeout was there in the file written by
  hand: toggling never adds one (`WithoutFacts`).

The backoff of three components is `2 ^ n`, of which the proofs use only that it is a
natural.  Each preservation proof has one step per action and, under it, one per conjunct
the action disturbs.  Filtering a list is a recursive function.  The library's induction
theorems cannot be instantiated by the provers, so `ListProofs` argues by the least place
at which its claim would fail (`LeastOf`).

Three definitions have the form the proofs need: `Lists` filters by a recursive function,
as `SelectSeq` cannot be expanded in a proof; the attachments in a chunk of
`TunnelSupervisor` are a set of places and phones, whose size is their number; and in
`WidgetFeed` the answer to a connection that is gone keeps its place in the queue (`Unheard`).

Only model-checked: liveness (`MaybeAbsentResolves`, `SilenceIsReported`, `DebounceEnds`,
`CallsSettle`, `CrashIsHandled`, `SilenceEndsAbsence`, `AbsenceLeadsToSleep`,
`ReturnLeadsToWake`, `FailureIsRetried`, `StillSceneIsHeard`, `AbandonedSleeps`, `SidesAgree`,
`WeatherArrives`, `DeadRegistrationFades`, `DockLeadsToLaunch`, `WindowCatchesUp`), which needs
the fairness of section 4 and is beyond this prover.

## 6. Where code and documents disagree

Seven runs exhibit one each.  TLC finds a behaviour of the model, which follows the code,
that violates what a document, comment or test says.

1. `find_wake` (`DisplayWakesOnReturn`).  A watchdog timeout while the display sleeps
   forces the engine to `present` without announcing a return, by design.  A person who
   comes back later finds it `present` already, so `refreshKeepAwake` announces nothing
   (`presenceEngine.ts:154`, `160-168`) and the display stays asleep; `README.md:67`
   promises a wake with no key press.
2. `find_quiet` (`QuietBecomesAbsence`).  After a silence that heals over the same socket
   `onLinkResumed` (`presenceEngine.ts:123`) only sets the flag; absence is armed by the
   next false edge, which a phone whose signals are already false does not send.
   The comment at `presenceEngine.ts:36-42` calls this gap closed.
   A reconnect does close it, as the phone then resets its edge memory.
3. `find_culprit` (`OnlyTheSlowAreTerminated`).  Between a crash and the respawn the status
   is still `running`, so `getWidgets` posts to the dead worker; its 3 s deadline
   terminates whichever worker is in the map by then (`workerHost.ts:110`, `135-138`),
   a healthy successor spawned after 1 s, and degrades the plugin for good.  The plugin
   guide (`docs/guides/writing-a-plugin.md:139-141`) says a worker pays for its own delay.
4. `find_disconnect` (`DisconnectIsFinal`).  `handleDrop` overwrites `reconnectTimer`
   without clearing it (`wsClient.ts:124`).  After a heartbeat timeout and the later close
   of the same socket `disconnect()` clears one timer of two; the other calls `connect()`.
   `wsClient.test.ts:110` says it stops all of them.
5. `find_brightness` (`BrightnessIsRestored`).  A visit to the light screen that begins
   before the restoring write of the previous one has been made reads the maximum as the
   level to restore (`LightScreen.tsx:51`), and the phone stays bright after it; the comment
   at `LightScreen.tsx:46-47` says the phone's own prior brightness is restored.
6. `find_persisted` (`PhoneIsPersisted`).  `loadScreensaverConfig` answers after a
   `screensaver.set` has been applied and saved, and overwrites it (`App.tsx:33`): the phone
   behaves by, and publishes, something other than what it has stored.
   `screensaverConfigStore.ts:3-4` calls the phone's storage the source of truth.
7. `find_replug` (`ReplugIsReissued`).  A chunk of `adb track-devices` output that holds both
   the list without a phone and the list with it again is no event (`adbRunner.ts:35-47`): the
   phone's new connection gets no tunnel, and the status stays `reissued`.
   `SETUP.md:113-115` says that the tunnel is re-issued automatically on every replug.

Met while modelling, without a run:

* `presence.returned` is published from maybe-absent too (`presenceEngine.ts:163`);
  `wiki/Protocol-Reference.md:53` speaks of absence only.
* A worker terminated for a hang is not restarted (`workerHost.ts:85`), against
  `wiki/Architecture.md:109-110`; the plugin guide describes what the code does.
* A plugin is given up at its sixth crash (`workerHost.ts:96`), not the fifth
  (`docs/guides/writing-a-plugin.md:138-139`, `packages/core/README.md:17`).
* `onopen` greets `this.socket` (`wsClient.ts:62`), which need not be the socket that opened.
* The spawn event of a superseded core sets `running` (`coreSupervisor.ts:106`), unlike the
  other two handlers, which ask whether the process is still the child; after `before-quit`
  it is also the one event that may still refresh a destroyed tray.
* A new core may boot while the killed one still holds the port (`coreSupervisor.ts:78`,
  `wsGateway.ts:56`, `62-70`) and then serves nobody.
* `before-quit` stops the core but not a debounced restart (`index.ts:220`).
* `adb track-devices` is not started again when it dies (`adbRunner.ts:26`): no docking is
  noticed until the core restarts.
* `denialsToday` is never reset (`controlChannel.ts:105`).
* Overlapping now-playing polls share `lastPlayingTitle`, and the older may clear what the
  newer has set (`system-stats/src/index.ts:29-41`).
* A `pgrep` that fails while a player runs is taken for no player and forgets the title
  (`system-stats/src/index.ts:57-64`, `78-81`): a song that is paused before a poll sees it
  play again is off the display within its grace, although the comment at `33-36` says that
  it is kept, and a `nowplaying-cli` that fails does keep it.  `PausedCardStays` without
  `~pgrepFailed` is violated in fifteen steps.

## 7. What could come next

* The port as a resource in `CoreSupervisor`, and a `quitting` flag for `before-quit`, which
  need a model of how long a killed process lives and of how Electron exits.
* Several phones at the gateway: the models have one socket that counts.
* `SettingsWindow` and `CoreSupervisor` in one composition, with the restart a save causes.
* An abstract contract of what the pipeline invokes (a sleep only out of an absence, a wake
  only on a return), implemented by the composition as `PresencePromise` is by the engine.

## 8. Not modelled, and why

* Schemas of the wire messages, and parsing of command output and of the weather response:
  declarative validation of one value, no state.
* Frame processing: floating-point geometry of one image.  Its results are the scenes of
  `CameraPresence`.
* The gateway's token and a second phone: a check on the first message, and one set of
  clients that the code treats alike.
* The death of `adb track-devices`: after it nothing happens (section 6).
* Window geometry, the application menu, rendering, styles and animation, the Android
  foreground service, notification and activity: platform I/O with no protocol.
* Edits of `config.json` by hand while the app is up (`ConfigFile` has those made while it is
  not), and login items changed in System Settings rather than in the window: nothing in the
  code watches for either, so what the window shows is then as of its last reading.
* Media actions of system-stats: one message, one process, no state.
* Bundled binaries, the contents of the LaunchAgent's plist, packaging and CI: build
  configuration.
* `docs/design-review`: a superseded copy of the phone's user interface, not built.
