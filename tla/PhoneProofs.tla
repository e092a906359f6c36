---------------------------- MODULE PhoneProofs ----------------------------
(***************************************************************************)
(* What holds of the phone's screens for every timeout that may be         *)
(* configured and every list of tiles, of its connection for every         *)
(* heartbeat timeout and any number of drops, and of its camera and light  *)
(* for every set of signals, scenes and dwell time.                        *)
(***************************************************************************)
EXTENDS PhoneScreens, WsClient, CameraPresence, LightScreen, FiniteSetTheorems, SequenceTheorems,
        TLAPS

(***************************************************************************)
(* The screens.                                                            *)
(***************************************************************************)

\* The light is young in silence: its last bump is at most one interval old, and
\* none once the next one is due.
LightIsBumped ==
    /\ silence \in Nat /\ screensaver \in Configs
    /\ screen = "light" => silence <= 1
    /\ screen = "light" /\ ~bumpDue => silence = 0

\* Every step keeps it: the poll, the sensor and the Mac included.
LEMMA LightIsBumpedStep ==
  ASSUME LightIsBumped, ScreensNext
  PROVE  LightIsBumped'
<1> USE DEF LightIsBumped
<1>1. CASE \E tile \in Tiles : OpensTile(tile)
  BY <1>1 DEF OpensTile, Shows, Touched, BumpActivity
<1>2. CASE OpensStandby \/ GoesSettings \/ SleepsNow \/ GoesBack \/ TapsToWake
  BY <1>2
     DEF OpensStandby, GoesSettings, SleepsNow, GoesBack, TapsToWake, Shows, Touched, BumpActivity
<1>3. CASE Touches
  BY <1>3 DEF Touches, Touched, BumpActivity
<1>4. CASE \/ \E config \in Configs : ChangesScreensaver(config)
           \/ \E config \in Configs : MacChangesScreensaver(config)
  BY <1>4 DEF ChangesScreensaver, MacChangesScreensaver, BumpActivity
<1>5. CASE \E list \in VisibleLists : HelloReply(list)
  BY <1>5 DEF HelloReply
<1>6. CASE \E positive \in BOOLEAN : SensorBecomes(positive)
  BY <1>6 DEF SensorBecomes, Shows
<1>7. CASE LaysOutPreview
  BY <1>7 DEF LaysOutPreview
<1>8. CASE AutoIdles \/ AutoExits
  BY <1>8 DEF AutoIdles, AutoExits, Shows
<1>9. CASE LightBumps
  BY <1>9 DEF LightBumps, BumpActivity
<1>10. CASE ScreensTick
  <2>1. screen' = screen /\ screensaver' = screensaver
    BY <1>10 DEF ScreensTick
  <2>2. silence' = IF silence < LongestGrace THEN silence + 1 ELSE silence
    BY <1>10 DEF ScreensTick
  <2>3. screen = "light" => silence = 0
    BY <1>10 DEF ScreensTick, InTime
  <2>4. screen = "light" => bumpDue'
    BY <1>10 DEF ScreensTick
  <2>5. silence' \in Nat /\ (screen = "light" => silence' <= 1)
    BY <2>2, <2>3
  <2>6. QED
    BY <2>1, <2>4, <2>5
<1>11. QED
  BY <1>1, <1>2, <1>3, <1>4, <1>5, <1>6, <1>7, <1>8, <1>9, <1>10 DEF ScreensNext, UserActs

\* The light is young in silence in every state.
LEMMA LightIsBumpedHolds == ScreensSpec => []LightIsBumped
<1>1. ScreensInit => LightIsBumped
  BY DEF ScreensInit, LightIsBumped
<1>2. LightIsBumped /\ UNCHANGED screenVars => LightIsBumped'
  BY DEF LightIsBumped, screenVars
<1>3. QED
  BY <1>1, <1>2, LightIsBumpedStep, PTL DEF ScreensSpec

\* The light never goes to sleep by itself, whatever timeouts are configured and
\* whoever changes them meanwhile: every one of them is longer than a bump's interval.
THEOREM LightStaysOnHolds == ScreensSpec => LightStaysOn
<1> DEFINE StaysOn == screen = "light" => screen' # "idle"
<1>1. LightIsBumped /\ ScreensNext => StaysOn
  <2> SUFFICES ASSUME LightIsBumped, ScreensNext, screen = "light", screen' = "idle"
               PROVE  FALSE
    OBVIOUS
  <2>1. AutoIdles
    BY DEF ScreensNext, UserActs, OpensTile, OpensStandby, GoesSettings, SleepsNow, GoesBack,
           TapsToWake, Touches, ChangesScreensaver, MacChangesScreensaver, HelloReply, Shows,
           LaysOutPreview, SensorBecomes, LightBumps, AutoExits, ScreensTick, Chromeless
  <2>2. screensaver.grace \in Nat \ {0, 1}
    <3>1. screensaver.grace \in Graces
      BY DEF LightIsBumped, Configs
    <3>2. QED
      BY <3>1, ScreensAssumption
  <2>3. silence <= 1 /\ silence \in Nat
    BY DEF LightIsBumped
  <2>4. QED
    BY <2>1, <2>2, <2>3 DEF AutoIdles, ShouldAutoIdle
<1>2. LightIsBumped /\ [ScreensNext]_screenVars => [StaysOn]_screenVars
  BY <1>1
<1>3. QED
  BY <1>2, LightIsBumpedHolds, PTL DEF ScreensSpec, LightStaysOn

\* No step that leaves the presence screen leaves its preview slot behind.
THEOREM PreviewOnlyOnPresenceHolds == ScreensSpec => []PreviewOnlyOnPresence
<1>1. ScreensInit => PreviewOnlyOnPresence
  BY DEF ScreensInit, PreviewOnlyOnPresence
<1>2. PreviewOnlyOnPresence /\ UNCHANGED screenVars => PreviewOnlyOnPresence'
  BY DEF PreviewOnlyOnPresence, screenVars
<1>3. PreviewOnlyOnPresence /\ ScreensNext => PreviewOnlyOnPresence'
  BY DEF PreviewOnlyOnPresence, ScreensNext, UserActs, OpensTile, OpensStandby, GoesSettings,
         SleepsNow, GoesBack, TapsToWake, Touches, ChangesScreensaver, MacChangesScreensaver,
         HelloReply, Shows, LaysOutPreview, SensorBecomes, LightBumps, AutoIdles, AutoExits,
         ScreensTick
<1>4. QED
  BY <1>1, <1>2, <1>3, PTL DEF ScreensSpec

(***************************************************************************)
(* The camera.  CameraIInv binds the camera that was announced last to the *)
(* switch, the lifecycle and the effect that is still to run.              *)
(***************************************************************************)
CameraFlagsOK ==
    /\ cameraOn \in BOOLEAN /\ prompted \in BOOLEAN /\ found \in BOOLEAN
    /\ epoch \in BOOLEAN /\ effectPending \in BOOLEAN
    /\ connectedOnce \in BOOLEAN /\ observed \in BOOLEAN /\ inFlight \in BOOLEAN

CameraStatesOK ==
    /\ permission \in {"undetermined", "authorized", "denied"}
    /\ lifecycle \in {"idle", "requesting", "granted", "denied"}
    /\ camera \in {"active", "error", "released", "pending"}
    /\ frameCamera \in {Null, "active", "error", "released"}
    /\ scene \in Scenes
    /\ previous \in [face : BOOLEAN, gaze : BOOLEAN, place : Nat]
    /\ lastEmitted \in [PS!Signals -> BOOLEAN]

\* The switch and the lifecycle: a prompt is open for an answer never given.
LifecycleFollows ==
    /\ cameraOn <=> lifecycle # "idle"
    /\ prompted => permission = "undetermined"
    /\ cameraOn /\ prompted => lifecycle = "requesting"

\* A camera that runs or has failed is what the last effect saw and a next would
\* see, unless the connection is new; then it will be announced once more.
EffectSettles ==
    /\ camera \in {"active", "error"} => camera = CameraOf(cameraOn, lifecycle)
    /\ camera \in {"active", "error"} /\ effectPending => epoch
    /\ camera = "active" => ~inFlight

AnnouncedBefore ==
    /\ connectedOnce => epoch
    /\ frameCamera # Null => connectedOnce
    /\ frameCamera = "active" => camera = "active"

CameraIInv ==
    /\ CameraFlagsOK /\ CameraStatesOK
    /\ LifecycleFollows /\ EffectSettles /\ AnnouncedBefore
    /\ BothHearTheSame

\* A frame is derived into one truth value for each signal.
LEMMA DerivesSignals ==
  ASSUME CameraStatesOK PROVE DeriveSignals(scene) \in [PS!Signals -> BOOLEAN]
<1>1. PS!Signals \subseteq FrameSignals
  BY CameraAssumption DEF PS!Signals
<1>2. scene \in [face : BOOLEAN, gaze : BOOLEAN, place : Nat]
  BY CameraAssumption DEF CameraStatesOK
<1>3. scene.face \in BOOLEAN /\ scene.gaze \in BOOLEAN /\ Moved(scene) \in BOOLEAN
  BY <1>2 DEF Moved
<1>4. QED
  BY <1>1, <1>3 DEF DeriveSignals, FrameSignals

LEMMA ConnectedIsFlag ==
  ASSUME CameraIInv, NEW connected \in {connectedOnce, epoch}
  PROVE  connected \in BOOLEAN /\ (connectedOnce => connected) /\ (connected => epoch)
BY DEF CameraIInv, CameraFlagsOK, AnnouncedBefore

\* Turning the switch on finds the lifecycle idle, and so announces nothing yet.
LEMMA SwitchesOnStep ==
  ASSUME CameraIInv, NEW connected \in {connectedOnce, epoch}, SwitchesOn(connected)
  PROVE  CameraIInv' /\ PS!PhoneNext
<1> USE DEF CameraIInv, SwitchesOn, Runs, switchVars
<1>1. lifecycle = "idle" /\ CameraOf(TRUE, lifecycle) = "pending"
  BY DEF LifecycleFollows, CameraOf, Ready
<1>2. camera' = "pending" /\ ~Announced'
  BY <1>1 DEF Announced
<1>3. BothHearTheSame'
  BY <1>2 DEF BothHearTheSame
<1>4. CameraFlagsOK' /\ CameraStatesOK'
  BY <1>1, ConnectedIsFlag DEF CameraFlagsOK, CameraStatesOK, LifecycleOf, NoFace, PS!NothingEmitted, Null
<1>5. LifecycleFollows'
  BY <1>1 DEF LifecycleFollows, CameraFlagsOK, CameraStatesOK, LifecycleOf
<1>6. EffectSettles' /\ AnnouncedBefore'
  BY <1>1, <1>2, ConnectedIsFlag DEF EffectSettles, AnnouncedBefore, CameraFlagsOK, LifecycleFollows, CameraOf
<1>7. PS!CameraBecomes("pending", connected)
  BY <1>1, ConnectedIsFlag DEF PS!CameraBecomes, PS!ResetEdges, CameraFlagsOK
<1>8. QED
  BY <1>3, <1>4, <1>5, <1>6, <1>7, ConnectedIsFlag DEF PS!PhoneNext

\* Turning it off releases the camera, and leaves a late frame to come at most.
LEMMA SwitchesOffStep ==
  ASSUME CameraIInv, NEW connected \in {connectedOnce, epoch}, SwitchesOff(connected)
  PROVE  CameraIInv' /\ PS!PhoneNext
<1> USE DEF CameraIInv, SwitchesOff, Runs, switchVars
<1>1. connected \in BOOLEAN /\ (connectedOnce => connected) /\ (connected => epoch) /\ epoch \in BOOLEAN
  BY ConnectedIsFlag DEF CameraFlagsOK
<1>2. lifecycle # "idle" /\ CameraOf(FALSE, lifecycle) = "released" /\ effectPending'
  BY DEF LifecycleFollows, CameraOf
<1>3. camera' = "released" /\ ~Announced'
  BY <1>2 DEF Announced
<1>4. BothHearTheSame'
  BY <1>3 DEF BothHearTheSame
<1>5. CameraFlagsOK' /\ CameraStatesOK'
  BY <1>2, <1>3, <1>1 DEF CameraFlagsOK, CameraStatesOK, NoFace, PS!NothingEmitted, Null
<1>6. LifecycleFollows'
  BY DEF LifecycleFollows
<1>7. EffectSettles' /\ AnnouncedBefore'
  <2>1. /\ connectedOnce' = connected /\ epoch' = epoch
        /\ frameCamera' = IF connected THEN "released" ELSE frameCamera
    BY <1>2
  <2>2. (connectedOnce => epoch)'
    BY <1>1, <2>1
  <2>3. ~connected => frameCamera = Null /\ Null # "active"
    BY ConnectedIsFlag DEF AnnouncedBefore, Null
  <2>4. (frameCamera # Null => connectedOnce)'
    <3>1. CASE connected = TRUE
      BY <2>1, <3>1
    <3>2. CASE connected = FALSE
      BY <2>1, <2>3, <3>2
    <3>3. QED
      BY <1>1, <3>1, <3>2
  <2>5. frameCamera' # "active"
    BY <2>1, <2>3
  <2>6. QED
    BY <1>3, <2>2, <2>4, <2>5 DEF EffectSettles, AnnouncedBefore
<1>8. PS!CameraBecomes("released", connected)
  BY <1>2, <1>3, ConnectedIsFlag DEF PS!CameraBecomes, PS!ResetEdges, CameraFlagsOK
<1>9. QED
  BY <1>4, <1>5, <1>6, <1>7, <1>8, ConnectedIsFlag DEF PS!PhoneNext

\* The effect announces the camera to both, or finds no connection to do it over.
\* Run again for the same camera, it is there for a connection that is new.
LEMMA EffectStep ==
  ASSUME CameraIInv, EffectRuns
  PROVE  CameraIInv' /\ PS!PhoneNext
<1> DEFINE now == CameraOf(cameraOn, lifecycle)
<1> USE DEF CameraIInv, EffectRuns, Runs, switchVars
<1>1. now \in {"active", "error", "released", "pending"}
  BY DEF CameraOf
<1>2. /\ camera' = now /\ connectedOnce' = epoch /\ observed' = FALSE
      /\ frameCamera' = (IF epoch /\ now # "pending" THEN now ELSE frameCamera)
      /\ heardCamera' = (IF epoch /\ now # "pending" /\ cameraLink = "open" THEN now ELSE heardCamera)
  OBVIOUS
<1>3. BothHearTheSame'
  BY <1>2 DEF BothHearTheSame, Announced
<1>4. CameraFlagsOK' /\ CameraStatesOK'
  <2>1. CameraFlagsOK'
    BY <1>2 DEF CameraFlagsOK
  <2>2. frameCamera' \in {Null, "active", "error", "released"}
    BY <1>1, <1>2 DEF CameraStatesOK
  <2>3. lastEmitted' \in [PS!Signals -> BOOLEAN]
    BY DEF CameraStatesOK, PS!NothingEmitted
  <2>4. previous' \in [face : BOOLEAN, gaze : BOOLEAN, place : Nat]
    BY DEF CameraStatesOK, NoFace
  <2>5. QED
    BY <1>1, <1>2, <2>1, <2>2, <2>3, <2>4 DEF CameraStatesOK
<1>5. LifecycleFollows'
  BY DEF LifecycleFollows
<1>6. camera = "active" => now = "active"
  BY DEF EffectSettles
<1>7. EffectSettles' /\ AnnouncedBefore'
  <2>1. EffectSettles'
    BY <1>2 DEF EffectSettles, CameraOf, Ready
  <2>2. (connectedOnce => epoch)' /\ (frameCamera # Null => connectedOnce)'
    BY <1>2 DEF AnnouncedBefore
  <2>3. (frameCamera = "active" => camera = "active")'
    BY <1>1, <1>2, <1>6 DEF AnnouncedBefore
  <2>4. QED
    BY <2>1, <2>2, <2>3 DEF AnnouncedBefore
<1>8. CASE now # camera \/ now \in {"released", "pending"}
  <2>1. PS!CameraBecomes(now, epoch)
    BY <1>2, <1>8 DEF PS!CameraBecomes, PS!ResetEdges, CameraFlagsOK, AnnouncedBefore
  <2>2. QED
    BY <1>1, <1>3, <1>4, <1>5, <1>7, <2>1 DEF PS!PhoneNext, CameraFlagsOK
<1>9. CASE now = camera /\ now \in {"active", "error"}
  <2>1. epoch
    BY <1>9 DEF EffectSettles
  <2>2. inFlight' = inFlight
    BY <1>9 DEF EffectSettles, CameraFlagsOK
  <2>3. PS!NewEpoch
    BY <1>2, <1>9, <2>1, <2>2 DEF PS!NewEpoch, PS!ResetEdges
  <2>4. QED
    BY <1>3, <1>4, <1>5, <1>7, <2>3 DEF PS!PhoneNext
<1>10. QED
  BY <1>1, <1>8, <1>9

\* The answer to the prompt leaves the camera to the effect it makes due.
LEMMA PromptStep ==
  ASSUME CameraIInv, NEW status \in {"undetermined", "authorized", "denied"}, PromptAnswered(status)
  PROVE  CameraIInv' /\ UNCHANGED PS!phoneVars
<1> USE DEF CameraIInv, PromptAnswered, edgeVars
<1>1. cameraOn => lifecycle = "requesting" /\ effectPending' /\ lifecycle' \in {"granted", "denied"}
  BY DEF LifecycleFollows
<1>2. CameraFlagsOK' /\ CameraStatesOK' /\ LifecycleFollows'
  <2>1. CameraStatesOK'
    BY <1>1 DEF CameraStatesOK
  <2>2. CameraFlagsOK'
    BY <1>1 DEF CameraFlagsOK
  <2>3. LifecycleFollows'
    BY <1>1 DEF LifecycleFollows
  <2>4. QED
    BY <2>1, <2>2, <2>3
<1>3. camera \notin {"active", "error"}
  BY <1>1 DEF EffectSettles, CameraOf, Ready, LifecycleFollows
<1>4. EffectSettles' /\ AnnouncedBefore'
  BY <1>3 DEF EffectSettles, AnnouncedBefore
<1>5. BothHearTheSame'
  BY <1>1, <1>3 DEF BothHearTheSame, Announced
<1>6. QED
  BY <1>2, <1>4, <1>5 DEF PS!phoneVars

\* The socket does nothing but make the effect due, once it is open again.
LEMMA SocketStep ==
  ASSUME CameraIInv,
         SocketOpens \/ SocketDies \/ \E coreToo \in BOOLEAN : SocketCloses(coreToo)
  PROVE  CameraIInv' /\ UNCHANGED PS!phoneVars
<1> USE DEF CameraIInv, switchVars, edgeVars
<1>1. UNCHANGED <<switchVars, camera, connectedOnce, edgeVars, sensorFrame, frameCamera, scene>>
  BY DEF SocketOpens, SocketDies, SocketCloses
<1>2. (epoch' = TRUE /\ effectPending' = TRUE) \/ UNCHANGED <<epoch, effectPending>>
  BY DEF SocketOpens, SocketDies, SocketCloses
<1>3. CameraFlagsOK' /\ CameraStatesOK' /\ LifecycleFollows'
  <2>1. CameraStatesOK'
    BY <1>1 DEF CameraStatesOK
  <2>2. CameraFlagsOK'
    BY <1>1, <1>2 DEF CameraFlagsOK
  <2>3. LifecycleFollows'
    BY <1>1 DEF LifecycleFollows
  <2>4. QED
    BY <2>1, <2>2, <2>3
<1>4. EffectSettles' /\ AnnouncedBefore'
  BY <1>1, <1>2 DEF EffectSettles, AnnouncedBefore, CameraOf, Ready
<1>5. BothHearTheSame'
  <2>1. effectPending' \/ (effectPending' = effectPending /\ cameraLink' # "open")
    BY DEF SocketOpens, SocketDies, SocketCloses
  <2>2. QED
    BY <1>1, <2>1 DEF BothHearTheSame, Announced
<1>6. QED
  BY <1>1, <1>3, <1>4, <1>5 DEF PS!phoneVars

\* A frame reaches both readers with the same edges.
LEMMA ObservesStep ==
  ASSUME CameraIInv, Observes
  PROVE  CameraIInv' /\ PS!PhoneNext
<1> DEFINE seen == DeriveSignals(scene)
           edges == Emits(seen)
<1> USE DEF CameraIInv, Observes, switchVars
<1>1. seen \in [PS!Signals -> BOOLEAN]
  BY DerivesSignals
<1>2. edges \in SUBSET PS!Signals /\ (~observed => edges = PS!Signals)
  BY DEF Emits
<1>3. lastEmitted' = [s \in PS!Signals |-> IF s \in edges THEN seen[s] ELSE lastEmitted[s]]
  BY DEF Remembers
<1>4. CameraFlagsOK'
  BY DEF CameraFlagsOK
<1>5. CameraStatesOK'
  <2>1. lastEmitted' \in [PS!Signals -> BOOLEAN]
    BY <1>1, <1>3 DEF CameraStatesOK
  <2>2. QED
    BY <2>1, CameraAssumption DEF CameraStatesOK
<1>6. LifecycleFollows' /\ EffectSettles' /\ AnnouncedBefore'
  BY DEF LifecycleFollows, EffectSettles, AnnouncedBefore, CameraOf, Ready
<1>7. BothHearTheSame'
  <2>1. Announced' => Announced
    BY DEF Announced
  <2>2. Announced' => frameCamera' = camera' /\ (cameraLink' = "open" => heardCamera' = camera')
    BY <2>1 DEF BothHearTheSame
  <2>3. ASSUME Announced', NEW s \in PS!Signals, camera' = "active"
        PROVE  /\ sensorFrame'[s] = PS!AsText(lastEmitted'[s])
               /\ cameraLink' = "open" => heard'[s] = sensorFrame'[s]
    <3>1. sensorFrame'[s] = IF s \in edges THEN PS!AsText(seen[s]) ELSE sensorFrame[s]
      BY DEF Told
    <3>2. cameraLink = "open" =>
            heard'[s] = IF s \in edges THEN PS!AsText(seen[s]) ELSE heard[s]
      BY DEF Told
    <3>3. lastEmitted'[s] = IF s \in edges THEN seen[s] ELSE lastEmitted[s]
      BY <1>3
    <3>4. CASE s \in edges
      BY <3>1, <3>2, <3>3, <3>4
    <3>5. CASE s \notin edges
      BY <1>2, <2>1, <2>3, <3>1, <3>2, <3>3, <3>5 DEF BothHearTheSame
    <3>6. QED
      BY <3>4, <3>5
  <2>4. QED
    BY <2>2, <2>3 DEF BothHearTheSame
<1>8. PS!Observation(seen, edges)
  <2>1. observed => edges \subseteq {s \in PS!Signals : seen[s] # lastEmitted[s]}
    BY DEF Emits
  <2>2. QED
    BY <1>2, <1>3, <2>1 DEF PS!Observation
<1>9. PS!PhoneNext
  BY <1>1, <1>2, <1>8 DEF PS!PhoneNext
<1>10. QED
  BY <1>4, <1>5, <1>6, <1>7, <1>9

\* What is in front of the camera, and the dwell times, are its own.
LEMMA CameraRestStep ==
  ASSUME CameraIInv,
         \/ CameraTick
         \/ \E now \in Scenes : SceneBecomes(now)
         \/ UNCHANGED cameraVars
  PROVE  CameraIInv' /\ UNCHANGED PS!phoneVars
<1> USE DEF switchVars, edgeVars, cameraVars
<1>1. /\ UNCHANGED <<cameraOn, permission, prompted, lifecycle, found, epoch, effectPending,
                     camera, connectedOnce, observed, lastEmitted, inFlight, previous,
                     sensorFrame, frameCamera, cameraLink, heard, heardCamera>>
      /\ scene' \in Scenes
  BY DEF CameraTick, SceneBecomes, CameraIInv, CameraStatesOK
<1>2. CameraFlagsOK' /\ CameraStatesOK'
  BY <1>1 DEF CameraIInv, CameraFlagsOK, CameraStatesOK
<1>3. LifecycleFollows' /\ EffectSettles' /\ AnnouncedBefore'
  BY <1>1 DEF CameraIInv, LifecycleFollows, EffectSettles, AnnouncedBefore, CameraOf, Ready
<1>4. BothHearTheSame'
  BY <1>1 DEF CameraIInv, BothHearTheSame, Announced
<1>5. QED
  BY <1>1, <1>2, <1>3, <1>4 DEF CameraIInv, PS!phoneVars

\* Every step of the camera keeps its invariant and is one of PhoneSensor's.
LEMMA CameraStep ==
  ASSUME CameraIInv, [CameraNext]_cameraVars
  PROVE  CameraIInv' /\ [PS!PhoneNext]_(PS!phoneVars)
<1>1. CASE \E connected \in {connectedOnce, epoch} : SwitchesOn(connected) \/ SwitchesOff(connected)
  BY <1>1, SwitchesOnStep, SwitchesOffStep
<1>2. CASE EffectRuns
  BY <1>2, EffectStep
<1>3. CASE \E status \in {"undetermined", "authorized", "denied"} : PromptAnswered(status)
  BY <1>3, PromptStep
<1>4. CASE SocketOpens \/ SocketDies \/ \E coreToo \in BOOLEAN : SocketCloses(coreToo)
  BY <1>4, SocketStep
<1>5. CASE Observes
  BY <1>5, ObservesStep
<1>6. CASE CameraTick \/ (\E now \in Scenes : SceneBecomes(now)) \/ UNCHANGED cameraVars
  BY <1>6, CameraRestStep
<1>7. QED
  BY <1>1, <1>2, <1>3, <1>4, <1>5, <1>6 DEF CameraNext

LEMMA CameraInitInv == ASSUME CameraInit PROVE CameraIInv /\ PS!PhoneInit
<1> USE DEF CameraInit
<1>1. CameraFlagsOK /\ CameraStatesOK
  BY DEF CameraFlagsOK, CameraStatesOK, NoFace, PS!NothingEmitted, Null
<1>2. LifecycleFollows /\ EffectSettles /\ AnnouncedBefore /\ BothHearTheSame
  BY DEF LifecycleFollows, EffectSettles, AnnouncedBefore, BothHearTheSame, Announced, Null
<1>3. PS!PhoneInit
  BY DEF PS!PhoneInit
<1>4. QED
  BY <1>1, <1>2, <1>3 DEF CameraIInv

\* CameraIInv holds in every reachable state.
THEOREM CameraIInvHolds == CameraSpec => []CameraIInv
<1>1. CameraInit => CameraIInv
  BY CameraInitInv
<1>2. CameraIInv /\ [CameraNext]_cameraVars => CameraIInv'
  BY CameraStep
<1>3. QED
  BY <1>1, <1>2, PTL DEF CameraSpec

\* The camera in detail implements the sensor the pipeline is checked with:
\* promptings, effects that run twice, late frames and dwell times are steps of
\* PhoneSensor or none that the Mac could notice.
THEOREM KeepsToSensorHolds == CameraSpec => KeepsToSensor
<1>1. CameraInit => PS!PhoneInit
  BY CameraInitInv
<1>2. CameraIInv /\ [CameraNext]_cameraVars => [PS!PhoneNext]_(PS!phoneVars)
  BY CameraStep
<1>3. QED
  BY <1>1, <1>2, CameraIInvHolds, PTL DEF CameraSpec, KeepsToSensor, PS!PhoneSpec

\* The phone's screen and the Mac hear the same of the camera, and the screen
\* judges a running camera only, also when a late frame arrives after the camera
\* has gone and whatever was sent into a closed or dead socket before.
THEOREM CameraInvHolds == CameraSpec => []CameraInv
<1>1. CameraIInv => CameraInv
  BY DEF CameraIInv, AnnouncedBefore, CameraInv, JudgesRunningCameraOnly, DerivePresence
<1>2. QED
  BY <1>1, CameraIInvHolds, PTL

-----------------------------------------------------------------------------
(* The light.  LightIInv follows the one visit that still waits for the    *)
(* level it is to restore, for as long as no visit has raced another and   *)
(* no call was refused.                                                    *)

Levels == {NoLevel, MaxLevel, UsersLevel}
SetCalls == [op : {"set"}, arg : {MaxLevel, UsersLevel}]
GetCalls == [op : {"get"}, arg : Visits]
LevelAnswers == [visit : Visits, level : Levels]

LightTypeOK ==
    /\ mounted \in SUBSET Visits /\ asking \in SUBSET Visits
    /\ prior \in [Visits -> Levels]
    /\ native \in Seq(SetCalls \cup GetCalls) /\ answers \in Seq(LevelAnswers)
    /\ level \in {MaxLevel, UsersLevel}
    /\ raced \in BOOLEAN /\ refused \in BOOLEAN

\* The calls under way set a level, and end with lv.
EndsAt(lv) ==
    /\ \A i \in 1 .. Len(native) : native[i].op = "set"
    /\ native = <<>> => level = lv
    /\ native # <<>> => native[Len(native)].arg = lv

\* The visit has asked; the calls before it leave the level it is to restore.
StillAsks(v) ==
    /\ answers = <<>> /\ Len(native) >= 2
    /\ native[Len(native) - 1] = Call("get", v)
    /\ native[Len(native)] = Call("set", MaxLevel)
    /\ \A i \in 1 .. Len(native) - 2 : native[i].op = "set"
    /\ Len(native) = 2 => level = UsersLevel
    /\ Len(native) > 2 => native[Len(native) - 2].arg = UsersLevel

IsTold(v) == answers = <<[visit |-> v, level |-> UsersLevel]>> /\ EndsAt(MaxLevel)

NobodyAsks ==
    /\ answers = <<>>
    /\ EndsAt(IF mounted = {} THEN UsersLevel ELSE MaxLevel)
    /\ \A u, v \in mounted : u = v
    /\ \A v \in mounted : prior[v] = UsersLevel

OneAsks(v) ==
    /\ asking = {v} /\ mounted \subseteq {v} /\ prior[v] = NoLevel
    /\ StillAsks(v) \/ IsTold(v)

Quiet == ~raced /\ ~refused

Unraced == IF asking = {} THEN NobodyAsks ELSE \E v \in Visits : OneAsks(v)

LightIInv == LightTypeOK /\ (Quiet => Unraced)

\* What is left of a queue once its head has been taken.
LEMMA TailFacts ==
  ASSUME NEW S, NEW s \in Seq(S), s # <<>>
  PROVE  /\ Head(s) = s[1] /\ Len(s) \in Nat /\ Len(s) > 0
         /\ Len(Tail(s)) = Len(s) - 1
         /\ \A i \in 1 .. Len(s) - 1 : Tail(s)[i] = s[i + 1]
         /\ Len(Tail(s)) > 0 => Tail(s) # <<>>
<1>1. Head(s) = s[1] /\ Len(s) \in Nat /\ Len(s) > 0
  OBVIOUS
<1>2. Tail(s) \in Seq(S) /\ Len(Tail(s)) = Len(s) - 1
  OBVIOUS
<1>3. \A i \in 1 .. Len(s) - 1 : Tail(s)[i] = s[i + 1]
  OBVIOUS
<1>4. Len(Tail(s)) > 0 => Tail(s) # <<>>
  <2> DEFINE rest == Tail(s)
  <2>1. rest \in Seq(S) /\ Len(rest) \in Nat
    BY <1>2
  <2> HIDE DEF rest
  <2>2. rest = <<>> => Len(rest) = 0
    BY <2>1, EmptySeq
  <2>3. Len(rest) > 0 => rest # <<>>
    BY <2>1, <2>2
  <2>4. QED
    BY <2>3 DEF rest
<1>5. QED
  BY <1>1, <1>2, <1>3, <1>4

\* A level that is set last is the one the calls end with.
LEMMA SetsLast ==
  ASSUME LightTypeOK, \A i \in 1 .. Len(native) : native[i].op = "set",
         NEW lv, native' = Append(native, Call("set", lv))
  PROVE  EndsAt(lv)'
<1> USE DEF LightTypeOK
<1>1. Len(native') = Len(native) + 1 /\ native'[Len(native) + 1] = Call("set", lv)
  OBVIOUS
<1>2. \A i \in 1 .. Len(native) : native'[i] = native[i]
  OBVIOUS
<1>3. ASSUME NEW i \in 1 .. Len(native') PROVE native'[i].op = "set"
  <2>1. CASE i = Len(native) + 1
    BY <1>1, <2>1 DEF Call
  <2>2. CASE i # Len(native) + 1
    BY <1>1, <1>2, <2>2
  <2>3. QED
    BY <2>1, <2>2
<1>4. QED
  BY <1>1, <1>3 DEF EndsAt, Call

\* The native module runs the first call, and the others still end as they did.
LEMMA SetRuns ==
  ASSUME LightTypeOK, NEW lv, EndsAt(lv), native # <<>>, native' = Tail(native),
         level' = Head(native).arg
  PROVE  EndsAt(lv)'
<1> USE DEF LightTypeOK
<1>1. Len(native') = Len(native) - 1 /\ \A i \in 1 .. Len(native') : native'[i] = native[i + 1]
  OBVIOUS
<1>2. ASSUME NEW i \in 1 .. Len(native') PROVE native'[i].op = "set"
  BY <1>1 DEF EndsAt
<1>3. CASE native' = <<>>
  <2>0. Len(native') = 0
    BY <1>3, EmptySeq
  <2>1. Len(native) - 1 = 0
    BY <1>1, <2>0
  <2>2. Len(native) = 1
    BY <2>1
  <2>3. Head(native) = native[1]
    OBVIOUS
  <2>4. level' = lv
    BY <2>2, <2>3 DEF EndsAt
  <2>5. QED
    BY <1>2, <1>3, <2>4 DEF EndsAt
<1>4. CASE native' # <<>>
  BY <1>1, <1>2, <1>4 DEF EndsAt
<1>5. QED
  BY <1>3, <1>4

LEMMA LightTypeStep ==
  ASSUME LightTypeOK, [LightNext]_lightVars
  PROVE  LightTypeOK'
<1> USE DEF LightTypeOK, Levels
<1>1. ASSUME NEW v \in Visits, Mounts(v) PROVE LightTypeOK'
  <2>1. Call("get", v) \in GetCalls /\ Call("set", MaxLevel) \in SetCalls
    BY DEF Call, GetCalls, SetCalls
  <2>2. native' \in Seq(SetCalls \cup GetCalls)
    BY <1>1, <2>1 DEF Mounts, AsksAndSets
  <2>3. QED
    BY <1>1, <2>2 DEF Mounts
<1>2. ASSUME NEW v \in Visits, Unmounts(v) PROVE LightTypeOK'
  <2>1. prior[v] # NoLevel => Call("set", prior[v]) \in SetCalls
    BY DEF Call, SetCalls
  <2>2. native' \in Seq(SetCalls \cup GetCalls)
    BY <1>2, <2>1 DEF Unmounts
  <2>3. QED
    BY <1>2, <2>2 DEF Unmounts
<1>3. CASE NativeCall
  <2>1. Head(native) \in SetCalls \cup GetCalls /\ native' \in Seq(SetCalls \cup GetCalls)
    BY <1>3 DEF NativeCall
  <2>2. Head(native).op = "set" => Head(native).arg \in {MaxLevel, UsersLevel}
    BY <2>1 DEF SetCalls, GetCalls
  <2>3. Head(native).op # "set" => Head(native).arg \in Visits
    BY <2>1 DEF SetCalls, GetCalls
  <2>4. Head(native).op # "set" =>
          \A lv \in Levels : Append(answers, [visit |-> Head(native).arg, level |-> lv]) \in Seq(LevelAnswers)
    BY <2>3 DEF LevelAnswers
  <2>5. CASE NativeRuns(Head(native))
    BY <1>3, <2>1, <2>2, <2>4, <2>5 DEF NativeCall, NativeRuns
  <2>6. CASE NativeRefuses(Head(native))
    BY <1>3, <2>1, <2>4, <2>6 DEF NativeCall, NativeRefuses
  <2>7. QED
    BY <1>3, <2>5, <2>6 DEF NativeCall
<1>4. CASE LevelAnswered
  <2>1. Head(answers) \in LevelAnswers /\ answers' \in Seq(LevelAnswers)
    BY <1>4 DEF LevelAnswered
  <2>2. Head(answers).visit \in Visits /\ Head(answers).level \in Levels
    BY <2>1 DEF LevelAnswers
  <2>3. Head(answers).level # NoLevel => Call("set", Head(answers).level) \in SetCalls
    BY <2>2 DEF Call, SetCalls
  <2>4. native' \in Seq(SetCalls \cup GetCalls)
    BY <1>4, <2>3 DEF LevelAnswered
  <2>5. QED
    BY <1>4, <2>1, <2>2, <2>4 DEF LevelAnswered
<1>5. CASE UNCHANGED lightVars
  BY <1>5 DEF lightVars
<1>6. QED
  BY <1>1, <1>2, <1>3, <1>4, <1>5 DEF LightNext

\* A first visit asks, and what was set before it is what it is to restore.
LEMMA MountStep ==
  ASSUME LightTypeOK, Quiet => Unraced, NEW v \in Visits, Mounts(v), Quiet'
  PROVE  Unraced'
<1> USE DEF Mounts, LightTypeOK
<1>1. asking = {} /\ NobodyAsks
  BY DEF Quiet, Unraced
<1>2. EndsAt(UsersLevel) /\ answers' = <<>> /\ level' = level
  BY <1>1 DEF NobodyAsks
<1>3. /\ Len(native') = Len(native) + 2
      /\ native'[Len(native) + 1] = Call("get", v)
      /\ native'[Len(native) + 2] = Call("set", MaxLevel)
      /\ \A i \in 1 .. Len(native) : native'[i] = native[i]
  BY DEF AsksAndSets
<1>4. StillAsks(v)'
  <2>1. Len(native) \in Nat /\ Len(native') - 1 = Len(native) + 1 /\ Len(native') - 2 = Len(native)
    BY <1>3
  <2>2. native # <<>> <=> Len(native) > 0
    OBVIOUS
  <2>3. QED
    BY <1>2, <1>3, <2>1, <2>2 DEF StillAsks, EndsAt
<1>5. asking' = {v} /\ mounted' = {v} /\ prior'[v] = NoLevel
  BY <1>1
<1>6. QED
  BY <1>4, <1>5 DEF Unraced, OneAsks

\* A visit that leaves restores what it knows, or leaves it to its answer.
LEMMA UnmountStep ==
  ASSUME LightTypeOK, Quiet => Unraced, NEW v \in Visits, Unmounts(v), Quiet'
  PROVE  Unraced'
<1> USE DEF Unmounts, LightTypeOK
<1>1. Unraced /\ v \in mounted
  BY DEF Quiet
<1>2. CASE asking = {}
  <2>1. NobodyAsks
    BY <1>1, <1>2 DEF Unraced
  <2>2. prior[v] = UsersLevel /\ mounted # {} /\ EndsAt(MaxLevel)
    BY <1>1, <2>1 DEF NobodyAsks
  <2>3. native' = Append(native, Call("set", UsersLevel))
    BY <2>2 DEF UsersLevel, NoLevel
  <2>4. EndsAt(UsersLevel)'
    BY <2>2, <2>3, SetsLast DEF EndsAt
  <2>5. QED
    BY <1>2, <2>1, <2>4 DEF Unraced, NobodyAsks
<1>3. CASE asking # {}
  <2>1. PICK u \in Visits : OneAsks(u)
    BY <1>1, <1>3 DEF Unraced
  <2>2. u = v /\ prior[v] = NoLevel
    BY <1>1, <2>1 DEF OneAsks
  <2>3. UNCHANGED <<native, answers, level, asking, prior>> /\ mounted' = {}
    BY <2>2
  <2>4. OneAsks(u)'
    BY <2>1, <2>3 DEF OneAsks, StillAsks, IsTold, EndsAt
  <2>5. QED
    BY <1>3, <2>3, <2>4 DEF Unraced
<1>4. QED
  BY <1>2, <1>3

\* The native module sets a level, or reads one for the visit that asked.
LEMMA NativeStep ==
  ASSUME LightTypeOK, Quiet => Unraced, NativeCall, Quiet'
  PROVE  Unraced'
<1>1. Unraced /\ NativeRuns(Head(native)) /\ native # <<>> /\ native' = Tail(native)
      /\ UNCHANGED <<mounted, asking, prior>>
  <2>1. ~raced /\ ~refused /\ ~refused'
    <3>1. raced' = raced /\ (refused' = refused \/ refused' = TRUE)
      BY DEF NativeCall, NativeRuns, NativeRefuses
    <3>2. QED
      BY <3>1 DEF Quiet
  <2>2. ~NativeRefuses(Head(native))
    BY <2>1 DEF NativeRefuses
  <2>3. QED
    BY <2>1, <2>2 DEF NativeCall, Quiet
<1>2. /\ Head(native) = native[1] /\ Len(native) \in Nat /\ Len(native) > 0
      /\ Len(native') = Len(native) - 1
      /\ \A i \in 1 .. Len(native) - 1 : native'[i] = native[i + 1]
      /\ Len(native) > 1 => native' # <<>>
  <2>1. native \in Seq(SetCalls \cup GetCalls) /\ native # <<>> /\ native' = Tail(native)
    BY <1>1 DEF LightTypeOK
  <2>2. QED
    BY <2>1, TailFacts
<1>3. ASSUME NEW lv, EndsAt(lv) PROVE EndsAt(lv)' /\ answers' = answers
  <2>1. Head(native).op = "set"
    BY <1>2, <1>3 DEF EndsAt
  <2>2. level' = Head(native).arg /\ answers' = answers
    BY <1>1, <2>1 DEF NativeRuns
  <2>3. QED
    BY <1>1, <1>3, <2>2, SetRuns
<1>4. CASE asking = {}
  <2>1. NobodyAsks
    BY <1>1, <1>4 DEF Unraced
  <2>2. NobodyAsks'
    BY <1>1, <1>3, <2>1 DEF NobodyAsks
  <2>3. QED
    BY <1>1, <1>4, <2>2 DEF Unraced
<1>5. CASE asking # {}
  <2>1. PICK v \in Visits : OneAsks(v)
    BY <1>1, <1>5 DEF Unraced
  <2>2. CASE IsTold(v)
    BY <1>1, <1>3, <1>5, <2>1, <2>2 DEF OneAsks, IsTold, Unraced
  <2>3. CASE StillAsks(v) /\ Len(native) = 2
    <3>1. Head(native) = Call("get", v) /\ Len(native') = 1 /\ native'[1] = Call("set", MaxLevel)
      <4>1. native[1] = Call("get", v) /\ native[2] = Call("set", MaxLevel)
        BY <2>3 DEF StillAsks
      <4>2. Len(native') = 1
        BY <1>2, <2>3
      <4>3. native'[1] = native[1 + 1]
        BY <1>2, <2>3
      <4>4. Head(native) = native[1]
        BY <1>2
      <4>5. QED
        BY <4>1, <4>2, <4>3, <4>4
    <3>2. level' = level /\ answers' = <<[visit |-> v, level |-> UsersLevel]>>
      BY <1>1, <2>3, <3>1 DEF NativeRuns, StillAsks, Call
    <3>3. EndsAt(MaxLevel)'
      <4>1. Call("set", MaxLevel).op = "set" /\ Call("set", MaxLevel).arg = MaxLevel
        BY DEF Call
      <4>2. native' # <<>>
        BY <1>2, <2>3
      <4>3. QED
        BY <3>1, <4>1, <4>2 DEF EndsAt
    <3>4. QED
      BY <1>1, <1>5, <2>1, <3>2, <3>3 DEF OneAsks, IsTold, Unraced
  <2>4. CASE StillAsks(v) /\ Len(native) > 2
    <3>1. Head(native).op = "set"
      BY <1>2, <2>4 DEF StillAsks
    <3>2. level' = Head(native).arg /\ answers' = <<>>
      BY <1>1, <2>4, <3>1 DEF NativeRuns, StillAsks
    <3>3. StillAsks(v)'
      <4>1. Len(native) - 1 \in Nat /\ Len(native) - 1 >= 2
        BY <1>2, <2>4
      <4>2. /\ native'[Len(native) - 2] = native[Len(native) - 1]
            /\ native'[Len(native) - 1] = native[Len(native)]
            /\ \A i \in 1 .. Len(native) - 3 : native'[i].op = "set"
        <5>1. native'[Len(native) - 2] = native[Len(native) - 1]
          BY <1>2, <2>4, <4>1
        <5>2. native'[Len(native) - 1] = native[Len(native)]
          BY <1>2, <2>4, <4>1
        <5>3. \A i \in 1 .. Len(native) - 3 : native'[i] = native[i + 1]
          BY <1>2, <2>4, <4>1
        <5>4. \A i \in 1 .. Len(native) - 2 : native[i].op = "set"
          BY <2>4 DEF StillAsks
        <5>5. ASSUME NEW i \in 1 .. Len(native) - 3 PROVE native'[i].op = "set"
          <6>1. i + 1 \in 1 .. Len(native) - 2
            BY <1>2, <2>4
          <6>2. QED
            BY <5>3, <5>4, <6>1
        <5>6. QED
          BY <5>1, <5>2, <5>5
      <4>3. Len(native) = 3 => level' = UsersLevel
        BY <1>2, <2>4, <3>2 DEF StillAsks
      <4>4. Len(native) > 3 => native'[Len(native) - 3].arg = UsersLevel
        BY <1>2, <2>4 DEF StillAsks
      <4>5. QED
        BY <1>2, <2>4, <3>2, <4>1, <4>2, <4>3, <4>4 DEF StillAsks
    <3>4. QED
      BY <1>1, <1>5, <2>1, <3>3 DEF OneAsks, Unraced
  <2>5. StillAsks(v) => Len(native) = 2 \/ Len(native) > 2
    BY <1>2 DEF StillAsks
  <2>6. QED
    BY <2>1, <2>2, <2>3, <2>4, <2>5 DEF OneAsks
<1>6. QED
  BY <1>4, <1>5

\* The answer is kept for the end of the visit, or restored if that has come.
LEMMA AnsweredStep ==
  ASSUME LightTypeOK, Quiet => Unraced, LevelAnswered, Quiet'
  PROVE  Unraced'
<1> USE DEF LevelAnswered, LightTypeOK
<1>1. Unraced /\ answers # <<>>
  BY DEF Quiet
<1>2. asking # {}
  BY <1>1 DEF Unraced, NobodyAsks
<1>3. PICK v \in Visits : OneAsks(v)
  BY <1>1, <1>2 DEF Unraced
<1>4. IsTold(v)
  BY <1>1, <1>3 DEF OneAsks, StillAsks
<1>5. Head(answers).visit = v /\ Head(answers).level = UsersLevel /\ answers' = <<>>
  BY <1>4 DEF IsTold
<1>6. asking' = {} /\ prior'[v] = UsersLevel /\ mounted' = mounted /\ level' = level
  BY <1>3, <1>5 DEF OneAsks
<1>7. CASE v \in mounted
  <2>1. mounted = {v} /\ native' = native
    BY <1>3, <1>5, <1>7 DEF OneAsks
  <2>2. EndsAt(MaxLevel)'
    BY <1>4, <1>6, <2>1 DEF IsTold, EndsAt
  <2>3. QED
    BY <1>5, <1>6, <2>1, <2>2 DEF Unraced, NobodyAsks
<1>8. CASE v \notin mounted
  <2>1. mounted = {} /\ native' = Append(native, Call("set", UsersLevel))
    BY <1>3, <1>5, <1>8 DEF OneAsks, UsersLevel, NoLevel
  <2>2. EndsAt(UsersLevel)'
    BY <1>4, <2>1, SetsLast DEF IsTold, EndsAt
  <2>3. QED
    BY <1>5, <1>6, <2>1, <2>2 DEF Unraced, NobodyAsks
<1>9. QED
  BY <1>7, <1>8

\* LightIInv holds in every reachable state.
THEOREM LightIInvHolds == LightSpec => []LightIInv
<1>1. LightInit => LightIInv
  <2> SUFFICES ASSUME LightInit PROVE LightIInv
    OBVIOUS
  <2> USE DEF LightInit
  <2>1. LightTypeOK
    <3>1. raced \in BOOLEAN /\ refused \in BOOLEAN
      OBVIOUS
    <3>2. native \in Seq(SetCalls \cup GetCalls) /\ answers \in Seq(LevelAnswers)
      OBVIOUS
    <3>3. QED
      BY <3>1, <3>2 DEF LightTypeOK, Levels
  <2>2. NobodyAsks
    BY DEF NobodyAsks, EndsAt
  <2>3. QED
    BY <2>1, <2>2 DEF LightIInv, Unraced
<1>2. LightIInv /\ [LightNext]_lightVars => LightIInv'
  <2> SUFFICES ASSUME LightIInv, [LightNext]_lightVars, Quiet' PROVE Unraced'
    BY LightTypeStep DEF LightIInv
  <2> USE DEF LightIInv
  <2>1. CASE \E v \in Visits : Mounts(v) \/ Unmounts(v)
    BY <2>1, MountStep, UnmountStep
  <2>2. CASE NativeCall
    BY <2>2, NativeStep
  <2>3. CASE LevelAnswered
    BY <2>3, AnsweredStep
  <2>4. CASE UNCHANGED lightVars
    BY <2>4 DEF lightVars, Quiet, Unraced, NobodyAsks, OneAsks, StillAsks, IsTold, EndsAt
  <2>5. QED
    BY <2>1, <2>2, <2>3, <2>4 DEF LightNext
<1>3. QED
  BY <1>1, <1>2, PTL DEF LightSpec

\* Once the calls have run, the window is at its maximum on the light screen and
\* as it was before on every other, for any number of visits left at any moment,
\* unless two of them raced or a call was refused.
THEOREM BrightnessFollowsTheLightHolds == LightSpec => []BrightnessFollowsTheLight
<1>1. LightIInv => BrightnessFollowsTheLight
  <2> SUFFICES ASSUME LightIInv, BrightnessSettled, Quiet
               PROVE  level = IF mounted = {} THEN UsersLevel ELSE MaxLevel
    BY DEF BrightnessFollowsTheLight, Quiet
  <2>1. native = <<>> /\ answers = <<>> /\ Len(native) = 0
    BY DEF BrightnessSettled
  <2>2. asking = {}
    BY <2>1 DEF LightIInv, Unraced, OneAsks, StillAsks, IsTold
  <2>3. QED
    BY <2>1, <2>2 DEF LightIInv, Unraced, NobodyAsks, EndsAt
<1>2. QED
  BY <1>1, LightIInvHolds, PTL

-----------------------------------------------------------------------------
(***************************************************************************)
(* The connection.                                                         *)
(***************************************************************************)

\* ClientInv with what makes it inductive: a client that runs has a socket, and
\* the attempts since the last opening are among the drops so far.
ClientIInv ==
    /\ ClientInv
    /\ socket = NoSocket => stopped
    /\ attempt <= drops

USE WsClientAssumption DEF Off, Countdown, Pending, Due, Elapse, NoSocket

\* Each delay is one of the timer's type.
LEMMA BackoffType ==
  ASSUME NEW n \in Nat
  PROVE  NextBackoff(n) \in 1 .. 30
  BY DEF NextBackoff

\* The drops that await a reconnect can be counted.
LEMMA AwaitedFinite ==
  ASSUME ClientTypeOK
  PROVE  /\ IsFiniteSet(Awaited) /\ Cardinality(Awaited) \in Nat
         /\ Awaited \subseteq 1 .. MaxDrops
<1>1. Awaited \subseteq 1 .. MaxDrops
  BY DEF Awaited, ClientTypeOK
<1>2. IsFiniteSet(1 .. MaxDrops)
  BY FS_Interval
<1>3. QED
  BY <1>1, <1>2, FS_Subset, FS_CardinalityType

\* A reconnect that is due leaves room for the socket it creates.
LEMMA RoomForSocket ==
  ASSUME ClientInv, NEW d \in DOMAIN reconnect, Due(reconnect[d])
  PROVE  created + 1 \in Sockets /\ created <= drops
<1>1. d \in Awaited
  BY DEF Awaited
<1>2. Cardinality(Awaited) # 0
  BY <1>1, AwaitedFinite, FS_EmptySet DEF ClientInv
<1>3. created + Cardinality(Awaited) <= 1 + drops
  BY DEF ClientInv
<1>4. QED
  BY <1>2, <1>3, AwaitedFinite DEF ClientInv, ClientTypeOK, Sockets

\* Adding at most one reconnect, or taking one away, changes the count by as much.
LEMMA AwaitedGrows ==
  ASSUME ClientTypeOK, NEW d, Awaited' \subseteq Awaited \cup {d}
  PROVE  Cardinality(Awaited') <= Cardinality(Awaited) + 1
<1> DEFINE C == Cardinality(Awaited)
<1>a. IsFiniteSet(Awaited) /\ C \in Nat
  BY AwaitedFinite
<1>b. IsFiniteSet(Awaited \cup {d})
      /\ Cardinality(Awaited \cup {d}) = IF d \in Awaited THEN C ELSE C + 1
  BY <1>a, FS_AddElement
<1>1. /\ IsFiniteSet(Awaited \cup {d})
      /\ Cardinality(Awaited \cup {d}) <= Cardinality(Awaited) + 1
  <2> HIDE DEF C
  <2>1. Cardinality(Awaited \cup {d}) <= C + 1
    BY <1>a, <1>b
  <2>2. QED
    BY <1>b, <2>1 DEF C
<1>2. Cardinality(Awaited') <= Cardinality(Awaited \cup {d})
  BY <1>1, FS_Subset
<1>3. QED
  BY <1>1, <1>2, AwaitedFinite, FS_Subset, FS_CardinalityType

\* They are fewer once one of them has reconnected.
LEMMA AwaitedShrinks ==
  ASSUME ClientTypeOK, NEW d \in Awaited, Awaited' \subseteq Awaited \ {d}
  PROVE  Cardinality(Awaited') <= Cardinality(Awaited) - 1
<1>1. /\ IsFiniteSet(Awaited \ {d})
      /\ Cardinality(Awaited \ {d}) = Cardinality(Awaited) - 1
  BY AwaitedFinite, FS_RemoveElement
<1>2. QED
  BY <1>1, AwaitedFinite, FS_Subset, FS_CardinalityType

\* They are no more when none is added.
LEMMA AwaitedStays ==
  ASSUME ClientTypeOK, Awaited' \subseteq Awaited
  PROVE  Cardinality(Awaited') <= Cardinality(Awaited)
  BY AwaitedFinite, FS_Subset, FS_CardinalityType

\* A drop schedules one reconnect, unless the client is stopped.
LEMMA DropStep ==
  ASSUME ClientIInv, NEW reason \in ConnectionState, HandleDrop(reason)
  PROVE  /\ heartbeatTimer' \in Countdown(HeartbeatTimeout)
         /\ reported' \in ConnectionState
         /\ drops' \in 0 .. MaxDrops
         /\ attempt' \in 0 .. MaxDrops /\ attempt' <= drops'
         /\ reconnect' \in [1 .. MaxDrops -> Countdown(30)]
         /\ Cardinality(Awaited') - drops' <= Cardinality(Awaited) - drops
         /\ Cardinality(Awaited') \in Nat
<1> USE DEF ClientIInv, ClientInv, ClientTypeOK
<1>1. CASE stopped
  <2>1. UNCHANGED <<heartbeatTimer, reported, attempt, drops, reconnect>>
    BY <1>1 DEF HandleDrop
  <2>2. Awaited' = Awaited
    BY <2>1 DEF Awaited
  <2>3. QED
    BY <2>1, <2>2, AwaitedFinite
<1>2. CASE ~stopped
  <2>1. drops + 1 \in 1 .. MaxDrops /\ NextBackoff(attempt) \in 1 .. 30
    BY <1>2, BackoffType DEF HandleDrop
  <2>2. /\ drops' = drops + 1 /\ attempt' = attempt + 1 /\ heartbeatTimer' = Off
        /\ reported' = reason
        /\ reconnect' = [reconnect EXCEPT ![drops + 1] = NextBackoff(attempt)]
    BY <1>2 DEF HandleDrop
  <2>3. reconnect' \in [1 .. MaxDrops -> Countdown(30)]
    BY <2>1, <2>2
  <2>4. Awaited' \subseteq Awaited \cup {drops + 1}
    BY <2>1, <2>2 DEF Awaited
  <2>5. Cardinality(Awaited') <= Cardinality(Awaited) + 1
    BY <2>4, AwaitedGrows
  <2>6. Cardinality(Awaited') \in Nat
    BY <2>4, AwaitedFinite, FS_AddElement, FS_Subset, FS_CardinalityType
  <2>7. QED
    BY <2>1, <2>2, <2>3, <2>5, <2>6, AwaitedFinite
<1>3. QED
  BY <1>1, <1>2

\* What a step does not touch of the timers, it does not change in their count.
LEMMA SameAwaited ==
  ASSUME ClientTypeOK, UNCHANGED reconnect
  PROVE  Cardinality(Awaited') = Cardinality(Awaited)
  BY DEF Awaited

\* Every event, callback and tick keeps the invariant.
LEMMA ClientStep ==
  ASSUME ClientIInv, ClientNext
  PROVE  ClientIInv'
<1> DEFINE P == Cardinality(Awaited)
<1> USE DEF ClientIInv, ClientInv, ClientTypeOK, Sockets
<1>0. created + P <= 1 + drops /\ P \in Nat
  BY AwaitedFinite
<1>1. ASSUME NEW s \in Sockets, Opens(s) PROVE ClientIInv'
  <2>1. UNCHANGED <<reconnect, created, drops, socket, stopped>>
    BY <1>1 DEF Opens
  <2>2. ClientTypeOK'
    <3>1. phase' \in [Sockets -> Phases]
      BY <1>1 DEF Opens, Phases
    <3>2. hasOpened' \in BOOLEAN /\ attempt' = 0 /\ reported' \in ConnectionState
      BY <1>1 DEF Opens, ConnectionState
    <3>3. heartbeatTimer' \in Countdown(HeartbeatTimeout)
      BY <1>1 DEF Opens, ResetHeartbeatDeadline
    <3>4. greeted' \subseteq Sockets
      BY <1>1 DEF Opens
    <3>5. QED
      BY <2>1, <3>1, <3>2, <3>3, <3>4
  <2>3. attempt' = 0
    BY <1>1 DEF Opens
  <2>4. QED
    BY <1>0, <2>1, <2>2, <2>3, SameAwaited
<1>2. ASSUME NEW s \in Sockets, Closes(s) PROVE ClientIInv'
  <2>1. UNCHANGED <<created, socket, hasOpened, stopped, greeted>>
    BY <1>2 DEF Closes
  <2>2. phase' \in [Sockets -> Phases]
    BY <1>2 DEF Closes, Phases
  <2>3. PICK reason \in ConnectionState : HandleDrop(reason)
    BY <1>2 DEF Closes, ConnectionState
  <2>4. created' + Cardinality(Awaited') <= 1 + drops'
    BY <1>0, <2>1, <2>3, DropStep
  <2>5. ClientTypeOK'
    BY <2>1, <2>2, <2>3, DropStep
  <2>6. attempt' <= drops'
    BY <2>3, DropStep
  <2>7. QED
    BY <2>1, <2>4, <2>5, <2>6
<1>3. CASE HeartbeatTimerFires
  <2>1. UNCHANGED <<phase, created, socket, hasOpened, stopped, greeted>>
    BY <1>3 DEF HeartbeatTimerFires
  <2>2. PICK reason \in ConnectionState : HandleDrop(reason)
    BY <1>3 DEF HeartbeatTimerFires, ConnectionState
  <2>3. created' + Cardinality(Awaited') <= 1 + drops'
    BY <1>0, <2>1, <2>2, DropStep
  <2>4. ClientTypeOK'
    BY <2>1, <2>2, DropStep
  <2>5. attempt' <= drops'
    BY <2>2, DropStep
  <2>6. QED
    BY <2>1, <2>3, <2>4, <2>5
<1>4. ASSUME NEW s \in Sockets, Receives(s) PROVE ClientIInv'
  <2>1. UNCHANGED <<phase, created, socket, hasOpened, attempt, stopped, drops,
                    reconnect, reported, greeted>>
    BY <1>4 DEF Receives
  <2>2. heartbeatTimer' \in Countdown(HeartbeatTimeout)
    BY <1>4 DEF Receives, ResetHeartbeatDeadline
  <2>3. QED
    BY <1>0, <2>1, <2>2, SameAwaited
<1>5. ASSUME NEW d \in DOMAIN reconnect, Reconnects(d) PROVE ClientIInv'
  <2>1. created + 1 \in Sockets
    BY <1>5, RoomForSocket DEF Reconnects
  <2>2. /\ UNCHANGED <<attempt, heartbeatTimer, drops, greeted>>
        /\ created' = created + 1 /\ socket' = created + 1
        /\ stopped' = FALSE /\ hasOpened' = FALSE /\ reported' = "connecting"
    BY <1>5 DEF Reconnects
  <2>3. phase' \in [Sockets -> Phases]
    BY <1>5, <2>1 DEF Reconnects, Phases
  <2>4. reconnect' \in [1 .. MaxDrops -> Countdown(30)]
    BY <1>5 DEF Reconnects
  <2>5. d \in Awaited /\ Awaited' \subseteq Awaited \ {d}
    BY <1>5 DEF Reconnects, Awaited
  <2>6. Cardinality(Awaited') <= P - 1
    BY <2>5, AwaitedShrinks
  <2>7. Cardinality(Awaited') \in Nat
    BY <2>5, AwaitedFinite, FS_Subset, FS_CardinalityType
  <2>8. created' + Cardinality(Awaited') <= 1 + drops'
    BY <1>0, <2>2, <2>6, <2>7
  <2>9. ClientTypeOK'
    BY <2>1, <2>2, <2>3, <2>4 DEF ConnectionState
  <2>10. QED
    BY <2>1, <2>2, <2>8, <2>9
<1>6. CASE Disconnect
  <2>1. /\ UNCHANGED <<created, hasOpened, attempt, drops, reported, greeted>>
        /\ stopped' = TRUE /\ heartbeatTimer' = Off /\ socket' = NoSocket
    BY <1>6 DEF Disconnect
  <2>2. phase' \in [Sockets -> Phases]
    BY <1>6 DEF Disconnect, Phases
  <2>3. reconnect' \in [1 .. MaxDrops -> Countdown(30)] /\ Awaited' \subseteq Awaited
    BY <1>6 DEF Disconnect, Awaited
  <2>4. Cardinality(Awaited') <= P /\ Cardinality(Awaited') \in Nat
    BY <2>3, AwaitedStays, AwaitedFinite, FS_Subset, FS_CardinalityType
  <2>5. created' + Cardinality(Awaited') <= 1 + drops'
    BY <1>0, <2>1, <2>4
  <2>6. QED
    BY <2>1, <2>2, <2>3, <2>5
<1>7. CASE ClientTick
  <2>1. UNCHANGED <<phase, created, socket, hasOpened, attempt, stopped, drops, reported, greeted>>
    BY <1>7 DEF ClientTick
  <2>2. heartbeatTimer' \in Countdown(HeartbeatTimeout)
    BY <1>7 DEF ClientTick
  <2>3. reconnect' \in [1 .. MaxDrops -> Countdown(30)] /\ Awaited' \subseteq Awaited
    <3>1. reconnect' = [d \in DOMAIN reconnect |-> Elapse(reconnect[d])]
      BY <1>7 DEF ClientTick
    <3>2. DOMAIN reconnect' = DOMAIN reconnect
      BY <3>1
    <3>3. \A d \in DOMAIN reconnect : Pending(reconnect'[d]) => Pending(reconnect[d])
      BY <3>1
    <3>4. QED
      BY <3>1, <3>2, <3>3 DEF Awaited
  <2>4. Cardinality(Awaited') <= P /\ Cardinality(Awaited') \in Nat
    BY <2>3, AwaitedStays, AwaitedFinite, FS_Subset, FS_CardinalityType
  <2>5. QED
    BY <1>0, <2>1, <2>2, <2>3, <2>4
<1>8. QED
  BY <1>1, <1>2, <1>3, <1>4, <1>5, <1>6, <1>7 DEF ClientNext, SocketEvent

\* In every reachable state a socket is the answer to at most one drop, however
\* late the events of dropped sockets come.
THEOREM ClientIInvHolds == WsClientSpec => []ClientIInv
<1>1. ClientInit => ClientIInv
  <2> SUFFICES ASSUME ClientInit PROVE ClientIInv
    OBVIOUS
  <2>1. ClientTypeOK
    <3>1. phase \in [Sockets -> Phases]
      BY DEF ClientInit, Phases, Sockets
    <3>2. reconnect \in [1 .. MaxDrops -> Countdown(30)]
      BY DEF ClientInit
    <3>3. hasOpened \in BOOLEAN /\ stopped \in BOOLEAN
      BY DEF ClientInit
    <3>4. QED
      BY <3>1, <3>2, <3>3 DEF ClientInit, ClientTypeOK, ConnectionState, Sockets
  <2>2. Awaited = {}
    BY DEF ClientInit, Awaited
  <2>3. Cardinality(Awaited) = 0
    BY <2>2, FS_EmptySet
  <2>4. QED
    BY <2>1, <2>3 DEF ClientInit, ClientIInv, ClientInv
<1>2. ClientIInv /\ UNCHANGED wsClientVars => ClientIInv'
  BY DEF ClientIInv, ClientInv, ClientTypeOK, Awaited, wsClientVars
<1>3. QED
  BY <1>1, <1>2, ClientStep, PTL DEF WsClientSpec

\* Every socket after the first answers one drop: no drop ever starts two connections.
THEOREM ClientInvHolds == WsClientSpec => []ClientInv
<1>1. ClientIInv => ClientInv
  BY DEF ClientIInv
<1>2. QED
  BY <1>1, ClientIInvHolds, PTL

\* Nothing but a heartbeat deadline or stopping ends `connected'.
THEOREM ConnectedIsSupervisedHolds == WsClientSpec => []ConnectedIsSupervised
<1>1. ClientInit => ConnectedIsSupervised
  BY DEF ClientInit, ConnectedIsSupervised
<1>2. ConnectedIsSupervised /\ UNCHANGED wsClientVars => ConnectedIsSupervised'
  BY DEF ConnectedIsSupervised, wsClientVars
<1>3. ClientIInv /\ ConnectedIsSupervised /\ ClientNext => ConnectedIsSupervised'
  <2> SUFFICES ASSUME ClientIInv, ConnectedIsSupervised, ClientNext
               PROVE  ConnectedIsSupervised'
    OBVIOUS
  <2> USE DEF ConnectedIsSupervised
  <2>1. heartbeatTimer \in Countdown(HeartbeatTimeout)
    BY DEF ClientIInv, ClientInv, ClientTypeOK
  <2>2. ASSUME NEW s \in Sockets, Opens(s) \/ Receives(s) PROVE ConnectedIsSupervised'
    BY <2>2 DEF Opens, Receives, ResetHeartbeatDeadline
  <2>3. ASSUME NEW s \in Sockets, Closes(s) PROVE ConnectedIsSupervised'
    BY <2>3 DEF Closes, HandleDrop
  <2>4. CASE HeartbeatTimerFires
    BY <2>4 DEF HeartbeatTimerFires, HandleDrop
  <2>5. ASSUME NEW d \in DOMAIN reconnect, Reconnects(d) PROVE ConnectedIsSupervised'
    BY <2>5 DEF Reconnects
  <2>6. CASE Disconnect
    BY <2>6 DEF Disconnect
  <2>7. CASE ClientTick
    BY <2>1, <2>7 DEF ClientTick
  <2>8. QED
    BY <2>2, <2>3, <2>4, <2>5, <2>6, <2>7 DEF ClientNext, SocketEvent
<1>4. QED
  BY <1>1, <1>2, <1>3, ClientIInvHolds, PTL DEF WsClientSpec

\* A drop leaves a reconnect pending.
LEMMA DropAwaits ==
  ASSUME ClientIInv, ~stopped, NEW reason, HandleDrop(reason)
  PROVE  \E d \in DOMAIN reconnect' : Pending(reconnect'[d])
<1>1. attempt \in Nat /\ drops \in Nat /\ reconnect \in [1 .. MaxDrops -> Countdown(30)]
  BY DEF ClientIInv, ClientInv, ClientTypeOK
<1>2. PICK b \in 1 .. 30 : b = NextBackoff(attempt)
  BY <1>1, BackoffType
<1>3. drops + 1 \in 1 .. MaxDrops /\ reconnect' = [reconnect EXCEPT ![drops + 1] = b]
  BY <1>1, <1>2 DEF HandleDrop
<1>4. DOMAIN reconnect' = 1 .. MaxDrops /\ reconnect'[drops + 1] = b
  BY <1>1, <1>3
<1>5. Pending(reconnect'[drops + 1])
  BY <1>4
<1>6. QED
  BY <1>3, <1>4, <1>5 DEF Pending

\* A client that runs always has something left that will move it on.
THEOREM NeverStrandedHolds == WsClientSpec => []NeverStranded
<1>1. ClientInit => NeverStranded
  BY DEF ClientInit, NeverStranded, Sockets
<1>2. NeverStranded /\ UNCHANGED wsClientVars => NeverStranded'
  BY DEF NeverStranded, wsClientVars
<1>3. ClientIInv /\ NeverStranded /\ ClientNext => NeverStranded'
  <2> SUFFICES ASSUME ClientIInv, NeverStranded, ClientNext
               PROVE  NeverStranded'
    OBVIOUS
  <2>0. ClientTypeOK
    BY DEF ClientIInv, ClientInv
  <2>1. ASSUME NEW s \in Sockets, Opens(s) \/ Receives(s) PROVE NeverStranded'
    <3>1. Pending(heartbeatTimer')
      BY <2>1 DEF Opens, Receives, ResetHeartbeatDeadline
    <3>2. QED
      BY <3>1 DEF NeverStranded
  <2>2. ASSUME NEW s \in Sockets, Closes(s) PROVE NeverStranded'
    BY <2>2, DropAwaits DEF Closes, NeverStranded
  <2>3. CASE HeartbeatTimerFires
    BY <2>3, DropAwaits DEF HeartbeatTimerFires, NeverStranded
  <2>4. ASSUME NEW d \in DOMAIN reconnect, Reconnects(d) PROVE NeverStranded'
    <3>1. created + 1 \in Sockets
      BY <2>4, RoomForSocket DEF Reconnects, ClientIInv
    <3>2. phase'[socket'] = "connecting"
      BY <2>0, <2>4, <3>1 DEF Reconnects, ClientTypeOK
    <3>3. QED
      BY <3>2 DEF NeverStranded
  <2>5. CASE Disconnect
    BY <2>5 DEF Disconnect, NeverStranded
  <2>6. CASE ClientTick
    <3>1. UNCHANGED <<phase, socket, stopped>>
      BY <2>6 DEF ClientTick
    <3>2. Pending(heartbeatTimer) => Pending(heartbeatTimer')
      BY <2>0, <2>6 DEF ClientTick, ClientTypeOK
    <3>3. DOMAIN reconnect' = DOMAIN reconnect
      BY <2>6 DEF ClientTick
    <3>4. \A d \in DOMAIN reconnect : Pending(reconnect[d]) => Pending(reconnect'[d])
      BY <2>0, <2>6 DEF ClientTick, ClientTypeOK
    <3>5. QED
      BY <3>1, <3>2, <3>3, <3>4 DEF NeverStranded
  <2>7. QED
    BY <2>1, <2>2, <2>3, <2>4, <2>5, <2>6 DEF ClientNext, SocketEvent
<1>4. QED
  BY <1>1, <1>2, <1>3, ClientIInvHolds, PTL DEF WsClientSpec

\* The socket that frames go out on has had its hello, whichever socket's events
\* set it free.
THEOREM CurrentIsGreetedHolds == WsClientSpec => []CurrentIsGreeted
<1>1. ClientInit => CurrentIsGreeted
  BY DEF ClientInit, CurrentIsGreeted, Sockets
<1>2. CurrentIsGreeted /\ UNCHANGED wsClientVars => CurrentIsGreeted'
  BY DEF CurrentIsGreeted, wsClientVars
<1>3. ClientIInv /\ CurrentIsGreeted /\ ClientNext => CurrentIsGreeted'
  <2> SUFFICES ASSUME ClientIInv, CurrentIsGreeted, ClientNext
               PROVE  CurrentIsGreeted'
    OBVIOUS
  <2> USE DEF CurrentIsGreeted
  <2>0. phase \in [Sockets -> Phases] /\ socket \in Sockets \cup {NoSocket}
    BY DEF ClientIInv, ClientInv, ClientTypeOK
  <2>1. ASSUME NEW s \in Sockets, Opens(s) PROVE CurrentIsGreeted'
    BY <2>1 DEF Opens
  <2>2. ASSUME NEW s \in Sockets, Closes(s) PROVE CurrentIsGreeted'
    <3>1. UNCHANGED <<socket, greeted>> /\ phase' = [phase EXCEPT ![s] = "closed"]
      BY <2>2 DEF Closes
    <3>2. QED
      BY <2>0, <3>1
  <2>3. ASSUME NEW s \in Sockets, Receives(s) PROVE CurrentIsGreeted'
    BY <2>3 DEF Receives
  <2>4. ASSUME NEW d \in DOMAIN reconnect, Reconnects(d) PROVE CurrentIsGreeted'
    <3>1. created + 1 \in Sockets
      BY <2>4, RoomForSocket DEF Reconnects, ClientIInv
    <3>2. phase'[socket'] = "connecting"
      BY <2>0, <2>4, <3>1 DEF Reconnects
    <3>3. QED
      BY <3>2
  <2>5. CASE Disconnect
    BY <2>5 DEF Disconnect
  <2>6. CASE HeartbeatTimerFires \/ ClientTick
    BY <2>6 DEF HeartbeatTimerFires, ClientTick
  <2>7. QED
    BY <2>1, <2>2, <2>3, <2>4, <2>5, <2>6 DEF ClientNext, SocketEvent
<1>4. QED
  BY <1>1, <1>2, <1>3, ClientIInvHolds, PTL DEF WsClientSpec

\* The connection is kept, greeted and watched, for any deadline and number of drops.
THEOREM ConnectionInvHolds == WsClientSpec => []ConnectionInv
  BY ClientInvHolds, NeverStrandedHolds, ConnectedIsSupervisedHolds, CurrentIsGreetedHolds, PTL
     DEF ConnectionInv
=============================================================================
