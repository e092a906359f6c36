--------------------------- MODULE CameraPresence ---------------------------
(***************************************************************************)
(* The phone's camera in detail: the switch and the permission prompt      *)
(* (App.tsx, useCameraLifecycle.ts), the effect that announces the camera  *)
(* (CameraPresence.tsx), what is derived from a frame (signalDeriver.ts),  *)
(* the edges with their dwell time (edgeEmitter.ts), and the two places    *)
(* they are told to: the phone's own screen (sensorFrame.ts,               *)
(* derivePresence.ts) and, over a socket that may be closed or dead, the   *)
(* Mac.  It implements PhoneSensor.                                        *)
(***************************************************************************)
EXTENDS Naturals, Sequences

CONSTANTS
    SignalOrder,    \* the signals, in the order they are sent
    Scenes,         \* what the camera may see: [face, gaze, place]
    Dwell           \* MIN_DWELL_MS, in ticks

\* The signals a frame is reduced to.
FrameSignals == {"face_visible", "gaze_at_screen", "motion"}

\* A gaze is read off a face.
ASSUME CameraAssumption ==
    /\ \A i \in DOMAIN SignalOrder : SignalOrder[i] \in FrameSignals
    /\ Scenes \subseteq [face : BOOLEAN, gaze : BOOLEAN, place : Nat]
    /\ \A s \in Scenes : s.gaze => s.face
    /\ Dwell \in Nat

VARIABLES
    cameraOn,       \* the switch
    permission, prompted,   \* the system's answer; whether its prompt is open
    lifecycle, found,       \* of useCameraLifecycle; is there a front camera?
    epoch,          \* connectionEpoch # 0
    effectPending,  \* a dependency has changed since the effect last ran
    camera, connectedOnce, observed, lastEmitted, inFlight,     \* PhoneSensor
    dwell,          \* ticks in which each signal may not be emitted again
    previous,       \* motionStateRef: the scene of the last observation
    sensorFrame, frameCamera,   \* the phone's own view
    cameraLink,     \* the socket: "closed", "open", or "dead" and not known to be
    heard, heardCamera,     \* what the Mac was told last
    scene           \* what is in front of the camera

switchVars == <<cameraOn, permission, prompted, lifecycle, found>>
edgeVars == <<observed, lastEmitted, inFlight, dwell, previous>>
cameraVars == <<switchVars, epoch, effectPending, camera, connectedOnce, edgeVars,
                sensorFrame, frameCamera, cameraLink, heard, heardCamera, scene>>

PS == INSTANCE PhoneSensor WITH
    CameraStates <- {"active", "error", "released", "pending"}

Null == "null"
NoFace == [face |-> FALSE, gaze |-> FALSE, place |-> 0]
AllNull == [s \in PS!Signals |-> Null]

CameraInit ==
    /\ cameraOn = FALSE
    /\ permission \in {"undetermined", "authorized", "denied"} /\ prompted = FALSE
    /\ lifecycle = "idle" /\ found \in BOOLEAN
    /\ epoch = FALSE /\ effectPending = FALSE
    /\ camera = "released" /\ connectedOnce = FALSE
    /\ observed = FALSE /\ lastEmitted = PS!NothingEmitted /\ inFlight = FALSE
    /\ dwell = [s \in PS!Signals |-> 0] /\ previous = NoFace
    /\ sensorFrame = AllNull /\ frameCamera = Null
    /\ cameraLink = "closed" /\ heard = AllNull /\ heardCamera = Null
    /\ scene \in Scenes

-----------------------------------------------------------------------------
(* The camera effect of CameraPresence.tsx.                                *)

Ready(life) == life = "granted" /\ found

CameraOf(on, life) ==
    IF ~on THEN "released"
    ELSE IF life = "denied" THEN "error"
    ELSE IF Ready(life) THEN "active"
    ELSE "pending"

\* Mutant: an old edge memory survives the effect.
RunsKeepingEdges(on, life, connected) ==
    LET now == CameraOf(on, life)
        says == connected /\ now # "pending"
    IN /\ camera' = now /\ connectedOnce' = connected
       /\ previous' = NoFace
       /\ inFlight' = (now # "active" /\ (camera = "active" \/ inFlight))
       /\ frameCamera' = IF says THEN now ELSE frameCamera
       /\ heardCamera' = IF says /\ cameraLink = "open" THEN now ELSE heardCamera
       /\ UNCHANGED <<observed, lastEmitted, dwell>>

\* Motion and edge memory are reset; then the camera is announced, unless no
\* connection has been made yet or there is nothing to say.
Runs(on, life, connected) ==
    LET now == CameraOf(on, life)
        says == connected /\ now # "pending"
    IN /\ camera' = now /\ connectedOnce' = connected
       /\ previous' = NoFace
       /\ observed' = FALSE /\ lastEmitted' = PS!NothingEmitted
       /\ dwell' = [s \in PS!Signals |-> 0]
       /\ inFlight' = (now # "active" /\ (camera = "active" \/ inFlight))
       /\ frameCamera' = IF says THEN now ELSE frameCamera
       /\ heardCamera' = IF says /\ cameraLink = "open" THEN now ELSE heardCamera

EffectRuns ==
    /\ effectPending /\ effectPending' = FALSE
    /\ Runs(cameraOn, lifecycle, epoch)
    /\ UNCHANGED <<switchVars, epoch, sensorFrame, cameraLink, heard, scene>>

\* useCameraLifecycle, for a switch that is on.
LifecycleOf(status) ==
    CASE status = "authorized" -> "granted"
      [] status = "denied" -> "denied"
      [] status = "undetermined" -> "requesting"

\* The switch renders once with the lifecycle as it was and, if that changes,
\* again; with a connection that is new, or before it.
SwitchesOn(connected) ==
    /\ ~cameraOn /\ cameraOn' = TRUE
    /\ lifecycle' = LifecycleOf(permission)
    /\ prompted' = (prompted \/ permission = "undetermined")
    /\ Runs(TRUE, lifecycle, connected) /\ effectPending' = TRUE
    /\ UNCHANGED <<permission, found, epoch, sensorFrame, cameraLink, heard, scene>>

SwitchesOff(connected) ==
    /\ cameraOn /\ cameraOn' = FALSE
    /\ lifecycle' = "idle"
    /\ sensorFrame' = AllNull
    /\ Runs(FALSE, lifecycle, connected)
    /\ effectPending' = (effectPending \/ lifecycle # "idle")
    /\ UNCHANGED <<permission, prompted, found, epoch, cameraLink, heard, scene>>

\* The system's prompt: granted, refused, or closed without an answer.
PromptAnswered(status) ==
    /\ prompted /\ prompted' = FALSE
    /\ permission' = status
    /\ IF cameraOn
       THEN /\ lifecycle' = IF status = "authorized" THEN "granted" ELSE "denied"
            /\ effectPending' = TRUE
       ELSE UNCHANGED <<lifecycle, effectPending>>
    /\ UNCHANGED <<cameraOn, found, epoch, camera, connectedOnce, edgeVars, sensorFrame,
                   frameCamera, cameraLink, heard, heardCamera, scene>>

-----------------------------------------------------------------------------
(* The socket.                                                             *)

SocketOpens ==
    /\ cameraLink = "closed" /\ cameraLink' = "open"
    /\ epoch' = TRUE /\ effectPending' = TRUE
    /\ UNCHANGED <<switchVars, camera, connectedOnce, edgeVars, sensorFrame, frameCamera,
                   heard, heardCamera, scene>>

SocketDies ==
    /\ cameraLink = "open" /\ cameraLink' = "dead"
    /\ UNCHANGED <<switchVars, epoch, effectPending, camera, connectedOnce, edgeVars,
                   sensorFrame, frameCamera, heard, heardCamera, scene>>

\* The core may have been restarted, and have heard nothing then.
SocketCloses(coreToo) ==
    /\ cameraLink # "closed" /\ cameraLink' = "closed"
    /\ IF coreToo THEN heard' = AllNull /\ heardCamera' = Null
       ELSE UNCHANGED <<heard, heardCamera>>
    /\ UNCHANGED <<switchVars, epoch, effectPending, camera, connectedOnce, edgeVars,
                   sensorFrame, frameCamera, scene>>

-----------------------------------------------------------------------------
(* A frame.                                                                *)

\* deriveMotion: a face came, went or moved.
Moved(now) == now.face # previous.face \/ (now.face /\ now.place # previous.place)

DeriveSignals(now) ==
    [s \in PS!Signals |-> CASE s = "face_visible" -> now.face
                            [] s = "gaze_at_screen" -> now.gaze
                            [] s = "motion" -> Moved(now)]

\* deriveEdges.
Emits(seen) ==
    IF observed THEN {s \in PS!Signals : seen[s] # lastEmitted[s] /\ dwell[s] = 0}
    ELSE PS!Signals

\* Mutant: a change that dwells is taken for emitted.
RemembersAll(seen, edges) ==
    /\ lastEmitted' = seen
    /\ dwell' = [s \in PS!Signals |-> IF s \in edges THEN Dwell ELSE dwell[s]]

Remembers(seen, edges) ==
    /\ lastEmitted' = [s \in PS!Signals |-> IF s \in edges THEN seen[s] ELSE lastEmitted[s]]
    /\ dwell' = [s \in PS!Signals |-> IF s \in edges THEN Dwell ELSE dwell[s]]

Told(view, seen, edges) ==
    [s \in PS!Signals |-> IF s \in edges THEN PS!AsText(seen[s]) ELSE view[s]]

\* handleObservation: also of a frame that was on its way when the camera went.
Observes ==
    /\ camera = "active" \/ inFlight
    /\ inFlight' = FALSE /\ previous' = scene /\ observed' = TRUE
    /\ LET seen == DeriveSignals(scene)
           edges == Emits(seen)
       IN /\ Remembers(seen, edges)
          /\ sensorFrame' = Told(sensorFrame, seen, edges)
          /\ heard' = IF cameraLink = "open" THEN Told(heard, seen, edges) ELSE heard
    /\ UNCHANGED <<switchVars, epoch, effectPending, camera, connectedOnce, frameCamera,
                   cameraLink, heardCamera, scene>>

SceneBecomes(now) ==
    /\ scene' = now
    /\ UNCHANGED <<switchVars, epoch, effectPending, camera, connectedOnce, edgeVars,
                   sensorFrame, frameCamera, cameraLink, heard, heardCamera>>

CameraTick ==
    /\ dwell' = [s \in PS!Signals |-> IF dwell[s] > 0 THEN dwell[s] - 1 ELSE 0]
    /\ UNCHANGED <<switchVars, epoch, effectPending, camera, connectedOnce, observed,
                   lastEmitted, inFlight, previous, sensorFrame, frameCamera, cameraLink, heard,
                   heardCamera, scene>>

CameraNext ==
    \/ \E connected \in {connectedOnce, epoch} :
          SwitchesOn(connected) \/ SwitchesOff(connected)
    \/ EffectRuns
    \/ \E status \in {"undetermined", "authorized", "denied"} : PromptAnswered(status)
    \/ SocketOpens \/ SocketDies \/ \E coreToo \in BOOLEAN : SocketCloses(coreToo)
    \/ Observes \/ \E now \in Scenes : SceneBecomes(now)
    \/ CameraTick

\* A camera that is on delivers frames, React runs its effects, and time passes.
CameraFairness == WF_cameraVars(Observes) /\ WF_cameraVars(EffectRuns) /\ WF_cameraVars(CameraTick)

CameraSpec == CameraInit /\ [][CameraNext]_cameraVars /\ CameraFairness

-----------------------------------------------------------------------------

\* Every behaviour of the camera is one of PhoneSensor, which the pipeline is
\* checked with: promptings, double effects, late frames and dwell times add
\* nothing the Mac could notice that is not accounted for there.
KeepsToSensor == PS!PhoneSpec

\* Once the effect has run and a frame been seen, the phone's screen and, over a
\* cameraLink that works, the Mac judge by the signals last emitted and the camera last
\* announced, whatever was sent into a closed or dead socket before
\* (CameraPresence.tsx:107-130).
Announced == connectedOnce /\ ~effectPending /\ camera # "pending"

BothHearTheSame ==
    Announced =>
        /\ frameCamera = camera
        /\ cameraLink = "open" => heardCamera = camera
        /\ camera = "active" /\ observed =>
              \A s \in PS!Signals : /\ sensorFrame[s] = PS!AsText(lastEmitted[s])
                                    /\ cameraLink = "open" => heard[s] = sensorFrame[s]

DerivePresence ==
    IF ~cameraOn \/ frameCamera # "active" THEN "UNKNOWN"
    ELSE IF "true" \in {sensorFrame["face_visible"], sensorFrame["motion"]} THEN "PRESENT"
    ELSE IF {sensorFrame["face_visible"], sensorFrame["motion"]} = {"false"} THEN "AWAY"
    ELSE "UNKNOWN"

\* The phone's screen claims presence or absence only while its camera runs, also
\* when a late frame fills the sensor frame that switching off has cleared
\* (derivePresence.ts:10-24, App.tsx:147-150).
JudgesRunningCameraOnly == DerivePresence # "UNKNOWN" => camera = "active"

\* The two readers of the camera are told the same, and neither is told of a camera
\* that does not run (CameraPresence.tsx:107-196, derivePresence.ts:10-24).
CameraInv == BothHearTheSame /\ JudgesRunningCameraOnly

\* A scene that stays is reported as it is and, for as long as it stays, at rest:
\* no dwell time, lost edge or reconnect leaves the Mac with an older one.
AtRest(now) ==
    [s \in PS!Signals |-> CASE s = "face_visible" -> PS!AsText(now.face)
                            [] s = "gaze_at_screen" -> PS!AsText(now.gaze)
                            [] s = "motion" -> "false"]

StillSceneIsHeard ==
    \A now \in Scenes :
        <>[](scene = now /\ camera = "active" /\ connectedOnce /\ cameraLink = "open")
            => []<>(heard = AtRest(now))
=============================================================================
