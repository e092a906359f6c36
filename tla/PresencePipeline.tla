-------------------------- MODULE PresencePipeline --------------------------
(***************************************************************************)
(* From the phone's camera to the Mac's display: the phone's sensor side,  *)
(* the socket, the gateway's message handler, the watchdog, the presence   *)
(* engine, the rule engine and the energy-saver plugin, wired as           *)
(* packages/core/src/main.ts and entrypoint.ts wire them.                  *)
(*                                                                         *)
(* The core is one Node process: a message handler or a timer callback     *)
(* runs to its end, through every synchronous callback, before anything    *)
(* else; it is one action here.  The phone, the socket and the child       *)
(* processes interleave with it freely.                                    *)
(***************************************************************************)
EXTENDS Timer, Sequences

CONSTANTS
    AbsenceTimeout, BootTimeout, WatchdogTimeout, PresenceDebounce,  \* ticks
    GazeIsKeepAwake, WakeEnabled,   \* config.presence
    SignalOrder, CameraStates,      \* of the phone
    Switches,       \* are the automation switches used in this model?
    Failures,       \* may the plugin's worker be down and its processes fail?
    UplinkBound,    \* with so many frames under way to the Mac the phone sends
                    \* no more (a bound of the model)
    MaxExecs        \* child processes of one kind (a bound of the model)

ASSUME PipelineAssumption ==
    /\ AbsenceTimeout \in Nat /\ BootTimeout \in Nat /\ PresenceDebounce \in Nat
    /\ WatchdogTimeout \in Nat \ {0}
    /\ GazeIsKeepAwake \in BOOLEAN /\ WakeEnabled \in BOOLEAN
    /\ SignalOrder \in Seq(STRING) /\ SignalOrder # <<>>
    /\ UplinkBound \in Nat \ {0} /\ MaxExecs \in Nat

VARIABLES
    state, cameraReportedHealthy, linkAlive, absenceTimer, bootTimer,
    lastFaceVisible, lastMotion, published,             \* PresenceEngine
    watchdogTimer, firedThisSilence, missed,            \* Watchdog
    enabled, disabledRuleIds, debounceTimers, invoked,  \* AutomationEngine
    execs, display,                                     \* EnergySaver
    camera, connectedOnce, observed, lastEmitted, inFlight,     \* PhoneSensor
    socketOpen,         \* the phone's socket is OPEN
    epochPending,       \* onopen has run, the camera effect has not yet
    uplink              \* frames sent by the phone, not yet read by the Mac

PE == INSTANCE PresenceEngine
WD == INSTANCE Watchdog
ES == INSTANCE EnergySaver
PS == INSTANCE PhoneSensor

SleepOnAbsent == "sleep-on-absent"
WakeOnReturn == "wake-on-return"
RuleIds == {SleepOnAbsent, WakeOnReturn}
ByRule(forSleep, forWake) ==
    [r \in RuleIds |-> IF r = SleepOnAbsent THEN forSleep ELSE forWake]

\* buildAutomationRules of entrypoint.ts.
AE == INSTANCE AutomationEngine WITH
    Rules <- RuleIds,
    Events <- PE!PresenceEvent,
    Listens <- ByRule({PE!PersonPresent, PE!PersonAbsent}, {PE!Returned}),
    Condition <- ByRule({PE!PersonAbsent}, IF WakeEnabled THEN {PE!Returned} ELSE {}),
    Throws <- ByRule({}, {}),
    Debounce <- ByRule(PresenceDebounce, 0)

ActionOf(r) == IF r = SleepOnAbsent THEN ES!SleepDisplay ELSE ES!WakeDisplay

engineVars == <<state, cameraReportedHealthy, linkAlive, absenceTimer, bootTimer,
                lastFaceVisible, lastMotion, published>>
watchdogVars == <<watchdogTimer, firedThisSilence, missed>>
automationVars == <<enabled, disabledRuleIds, debounceTimers, invoked>>
saverVars == <<execs, display>>
phoneVars == <<camera, connectedOnce, observed, lastEmitted, inFlight>>
phoneSide == <<phoneVars, socketOpen, epochPending, uplink>>
vars == <<engineVars, watchdogVars, automationVars, saverVars, phoneSide>>

\* The state boot() leaves: engine constructed, watchdog started, no client yet.
Init ==
    /\ PE!Init
    /\ watchdogTimer = WatchdogTimeout /\ firedThisSilence = FALSE /\ missed = FALSE
    /\ AE!AutomationInit
    /\ ES!SaverInit
    /\ PS!PhoneInit
    /\ socketOpen = FALSE /\ epochPending = FALSE /\ uplink = <<>>

EngineIdle == PE!NoSensorEvent /\ UNCHANGED linkAlive

\* A step outside the core.
CoreIdle == EngineIdle /\ WD!WatchdogIdle /\ AE!AutomationIdle

-----------------------------------------------------------------------------
(* The phone and the socket.                                               *)

Room(frames) == socketOpen /\ frames # <<>> => Len(uplink) < UplinkBound

\* WsClient.send: dropped, not queued, unless the socket is open.
Send(frames) ==
    /\ Room(frames)
    /\ uplink' = IF socketOpen THEN uplink \o frames ELSE uplink
    /\ UNCHANGED socketOpen

PhoneStep == CoreIdle /\ UNCHANGED saverVars

CameraBecomes(c, epoch) ==
    /\ PS!CameraBecomes(c, epoch)
    /\ Send(PS!AnnouncedByChange(c))
    /\ epochPending' = (epochPending /\ ~epoch)
    /\ PhoneStep

Observe(seen, edges) ==
    /\ PS!Observation(seen, edges)
    /\ Send(PS!EdgeFrames(seen, edges))
    /\ UNCHANGED epochPending
    /\ PhoneStep

\* The answer to a gateway heartbeat; the heartbeat itself is not tracked.
AckHeartbeat ==
    /\ socketOpen
    /\ Send(<<PS!Frame("heartbeat", "")>>)
    /\ UNCHANGED <<phoneVars, epochPending>>
    /\ PhoneStep

\* The phone user's override switch; what the phone believes is not tracked.
Override(on) ==
    /\ Switches
    /\ socketOpen
    /\ Send(<<PS!Frame("automation.override", PS!AsText(on))>>)
    /\ UNCHANGED <<phoneVars, epochPending>>
    /\ PhoneStep

\* onopen: connected, hello sent; the camera effect follows in a later turn.
SocketOpens ==
    /\ ~socketOpen /\ Len(uplink) < UplinkBound
    /\ socketOpen' = TRUE
    /\ epochPending' = TRUE
    /\ uplink' = Append(uplink, PS!Frame("hello", ""))
    /\ UNCHANGED phoneVars
    /\ PhoneStep

CameraEffect ==
    /\ epochPending
    /\ epochPending' = FALSE
    /\ PS!NewEpoch
    /\ Send(PS!Announcement(camera))
    /\ PhoneStep

\* The connection is lost, and with it any suffix of what was under way.
SocketCloses ==
    /\ socketOpen
    /\ socketOpen' = FALSE
    /\ \E n \in 0 .. Len(uplink) : uplink' = SubSeq(uplink, 1, n)
    /\ UNCHANGED <<phoneVars, epochPending>>
    /\ PhoneStep

-----------------------------------------------------------------------------
(* The Mac core: one action per message and per timer callback.            *)

\* WsGateway.handleMessage for the next frame: onClientMessage pulses the
\* watchdog and resumes the link, then the event bus runs the subscriber.
Dispatch(frame) ==
    CASE frame.event = "face_visible" -> PE!FaceVisible(frame.arg = "true")
      [] frame.event = "gaze_at_screen" -> PE!Gaze(frame.arg = "true")
      [] frame.event = "motion" -> PE!Motion(frame.arg = "true")
      [] frame.event = "camera_state" -> PE!CameraReport(frame.arg)
      [] OTHER -> PE!NoSensorEvent

Deliver ==
    /\ uplink # <<>>
    /\ uplink' = Tail(uplink)
    /\ WD!Pulse
    /\ linkAlive' = TRUE
    /\ Dispatch(Head(uplink))
    /\ IF Head(uplink).event = "automation.override"
       THEN AE!SetEnabled(Head(uplink).arg = "true")
       ELSE AE!HandleEvents(published')
    /\ UNCHANGED <<saverVars, phoneVars, socketOpen, epochPending>>

WatchdogFires ==
    /\ WD!WatchdogFires
    /\ IF missed' THEN PE!OnWatchdogTimeout ELSE EngineIdle
    /\ AE!HandleEvents(published')
    /\ UNCHANGED <<saverVars, phoneSide>>

BootTimeoutFires ==
    /\ PE!BootTimeoutFires
    /\ WD!WatchdogIdle
    /\ AE!HandleEvents(published')
    /\ UNCHANGED <<saverVars, phoneSide>>

AbsenceTimeoutFires ==
    /\ PE!AbsenceTimeoutFires
    /\ WD!WatchdogIdle
    /\ AE!HandleEvents(published')
    /\ UNCHANGED <<saverVars, phoneSide>>

\* The debounce callback invokes the action: the worker starts the process, or
\* WorkerHost.invokeAction drops the message because no worker is running.
DebounceFires(r) ==
    /\ AE!DebounceFires(r)
    /\ \/ ES!OnAction(ActionOf(r))
       \/ Failures /\ UNCHANGED saverVars
    /\ EngineIdle /\ WD!WatchdogIdle
    /\ UNCHANGED phoneSide

\* The Mac app's switches, through the control channel.
SwitchAutomation ==
    /\ Switches
    /\ \/ \E on \in BOOLEAN : AE!SetEnabled(on)
       \/ \E r \in RuleIds : AE!EnableRule(r) \/ AE!DisableRule(r)
    /\ EngineIdle /\ WD!WatchdogIdle
    /\ UNCHANGED <<saverVars, phoneSide>>

Tick ==
    /\ PE!Tick /\ WD!WatchdogTick /\ AE!AutomationTick
    /\ UNCHANGED <<saverVars, phoneSide>>

-----------------------------------------------------------------------------
(* The child processes.                                                    *)

ExecSucceeds(a) == ES!ExecSucceeds(a) /\ CoreIdle /\ UNCHANGED phoneSide

ExecFails(a) == Failures /\ ES!ExecFails(a) /\ CoreIdle /\ UNCHANGED phoneSide

Core ==
    \/ Deliver
    \/ WatchdogFires
    \/ BootTimeoutFires
    \/ AbsenceTimeoutFires
    \/ \E r \in RuleIds : DebounceFires(r)

Environment ==
    \/ \E c \in CameraStates, epoch \in {FALSE, epochPending} : CameraBecomes(c, epoch)
    \/ \E seen \in [PS!Signals -> BOOLEAN], edges \in SUBSET PS!Signals :
          Observe(seen, edges)
    \/ AckHeartbeat
    \/ \E on \in BOOLEAN : Override(on)
    \/ SocketOpens
    \/ CameraEffect
    \/ SocketCloses
    \/ SwitchAutomation
    \/ \E a \in ES!Actions : ExecFails(a)

Next ==
    \/ Core
    \/ Tick
    \/ Environment
    \/ \E a \in ES!Actions : ExecSucceeds(a)

Spec == Init /\ [][Next]_vars

\* Node keeps reading its sockets and running due timers, time passes, and a
\* child process comes to an end.  Nothing is assumed of the phone, its user,
\* the socket or the switches.
CoreFairness ==
    /\ WF_vars(Deliver)
    /\ WF_vars(WatchdogFires)
    /\ WF_vars(AbsenceTimeoutFires)
    /\ \A r \in RuleIds : WF_vars(DebounceFires(r))
    /\ WF_vars(Tick)
    /\ \A a \in ES!Actions : WF_vars(ExecSucceeds(a) \/ ExecFails(a))

FairSpec == Spec /\ CoreFairness

-----------------------------------------------------------------------------
(* Safety.                                                                 *)

Frames ==
    [event : PS!Signals, arg : {"true", "false"}]
    \cup [event : {"camera_state"}, arg : CameraStates]
    \cup [event : {"automation.override"}, arg : {"true", "false"}]
    \cup [event : {"heartbeat", "hello"}, arg : {""}]

TypeOK ==
    /\ PE!TypeOK
    /\ WD!WatchdogTypeOK
    /\ AE!AutomationTypeOK
    /\ ES!SaverTypeOK
    /\ PS!PhoneTypeOK
    /\ socketOpen \in BOOLEAN /\ epochPending \in BOOLEAN
    /\ Len(uplink) < UplinkBound + Len(SignalOrder)
    /\ \A i \in DOMAIN uplink : uplink[i] \in Frames

\* The engine and the watchdog agree on the link: the engine holds it for dead
\* exactly while the watchdog has reported a silence no message has broken.
\* Either could be reset without the other (main.ts:84-87, 103-112).
LinkViewsAgree == linkAlive = ~firedThisSilence

\* Nobody is held absent, or nearly so, without a running watchdog: if the link
\* dies now, something will still notice and fail to present.
AbsenceIsSupervised == state # "present" => Pending(watchdogTimer)

\* A sleep that is still debouncing belongs to an absence that still lasts:
\* whatever ended the absence (a face, a camera error, the watchdog) has reached
\* the rule engine through the bus and cancelled it, and no switch brings a
\* cancelled one back.
PendingSleepMeansAbsent == Pending(debounceTimers[SleepOnAbsent]) => state = "absent"

\* An absence is known to every part it takes to end it: the watchdog that must
\* notice a dead link, and the rules that must forget a pending sleep.
AbsenceIsShared == LinkViewsAgree /\ AbsenceIsSupervised /\ PendingSleepMeansAbsent

\* A wake that is about to be invoked found its way from evidence of a person:
\* it is armed only by the delivery of a positive face or motion frame that ends
\* an absence or a maybe-absence, never by a fail-safe.
WakeArmed ==
    ~Pending(debounceTimers[WakeOnReturn]) /\ Pending(debounceTimers'[WakeOnReturn])

WakeNeedsEvidence ==
    [][WakeArmed => /\ state # "present"
                    /\ uplink # <<>> /\ uplink' = Tail(uplink)
                    /\ Head(uplink) \in [event : PS!Signals, arg : {"true"}]]_vars

\* The display is put to sleep only while the engine holds the person absent on
\* trusted evidence, with automation and the rule switched on.
SleepIsDeserved ==
    [][(SleepOnAbsent \in invoked') =>
          /\ state = "absent" /\ PE!Clear
          /\ enabled /\ SleepOnAbsent \notin disabledRuleIds]_vars

-----------------------------------------------------------------------------
(* Liveness.                                                               *)

\* A phone that falls silent for good cannot keep the Mac asleep: the watchdog
\* ends every absence and none begins again.
SilenceEndsAbsence == <>[][~Deliver]_vars => <>[](state = "present")

\* With the switches left alone, every declared absence puts the display to
\* sleep unless the absence ends first.
AbsenceLeadsToSleep ==
    (PE!PersonAbsent \in published) ~> (SleepOnAbsent \in invoked \/ state # "absent")

\* With the switches left alone, every announced return invokes the wake action.
ReturnLeadsToWake == (PE!Returned \in published) ~> (WakeOnReturn \in invoked)

-----------------------------------------------------------------------------
(* What the documentation says and the code does not do.                   *)

\* README.md:67: the display wakes when presence returns, with no keypress.  Here
\* with a connected phone, a trusted camera that keeps seeing a face, and child
\* processes that never fail.
DisplayWakesOnReturn ==
    <>[](PE!CameraHealthy /\ lastFaceVisible /\ socketOpen) => []<>(display = "awake")

\* presenceEngine.ts:36-42: a phone that merely pauses and then goes on over the
\* same socket no longer leaves absence detection disabled.
QuietBecomesAbsence ==
    <>[](PE!Clear /\ observed /\ socketOpen /\ ~epochPending) => <>(state = "absent")
=============================================================================
