--------------------------- MODULE PresenceEngine ---------------------------
(***************************************************************************)
(* The Mac-side presence engine, packages/core/src/presenceEngine.ts.      *)
(* One action per public operation and one per timer callback.  The engine *)
(* calls back into the event bus synchronously; `published' holds what the *)
(* last step handed to EventBus.publish (packages/core/src/main.ts wires   *)
(* onPresenceChange and onGenuineReturn to it), so a composing module can  *)
(* feed it to the subscribers in the same step.                            *)
(*                                                                         *)
(* main.ts runs onLinkResumed and then the frame's own handler in one turn *)
(* of the event loop.  The handlers therefore read linkAlive' : on their   *)
(* own they leave linkAlive alone, and a composing module sets it first.   *)
(***************************************************************************)
EXTENDS Timer

CONSTANTS
    AbsenceTimeout,     \* config.presence.absenceTimeoutMs, in ticks
    BootTimeout,        \* config.presence.bootConfirmationTimeoutMs, in ticks
    GazeIsKeepAwake     \* config.presence.gazeIsKeepAwake

ASSUME PresenceAssumption ==
    /\ AbsenceTimeout \in Nat
    /\ BootTimeout \in Nat
    /\ GazeIsKeepAwake \in BOOLEAN

VARIABLES
    state,                  \* present, maybe-absent or absent
    cameraReportedHealthy,  \* the phone's last word on its own camera
    linkAlive,              \* false from a watchdog timeout to the next traffic
    absenceTimer,
    bootTimer,
    lastFaceVisible,
    lastMotion,
    published               \* events handed to the event bus by the last step

vars == <<state, cameraReportedHealthy, linkAlive, absenceTimer, bootTimer,
          lastFaceVisible, lastMotion, published>>

PresenceState == {"present", "maybe-absent", "absent"}
CameraState == {"active", "error", "released"}

\* The events the engine's callbacks publish: person_present with its payload,
\* and presence.returned.
PersonPresent == "person_present(true)"
PersonAbsent == "person_present(false)"
Returned == "presence.returned"
PresenceEvent == {PersonPresent, PersonAbsent, Returned}

CameraHealthy == cameraReportedHealthy /\ linkAlive

Init ==
    /\ state = "present"
    /\ cameraReportedHealthy = FALSE
    /\ linkAlive = TRUE
    /\ absenceTimer = Off
    /\ bootTimer = BootTimeout
    /\ lastFaceVisible = FALSE
    /\ lastMotion = FALSE
    /\ published = {}

-----------------------------------------------------------------------------
(* The private helpers: each fixes state, the absence timer and published. *)

\* Mutants: a forced return that announces itself like a genuine one, and one
\* that leaves the absence timer running.
ForceFailAnnounced ==
    /\ absenceTimer' = Off
    /\ bootTimer' = Off
    /\ state' = "present"
    /\ published' = IF state = "present" THEN {} ELSE {PersonPresent, Returned}

ForceFailKeepingTimer ==
    /\ absenceTimer' = absenceTimer
    /\ bootTimer' = Off
    /\ state' = "present"
    /\ published' = IF state = "present" THEN {} ELSE {PersonPresent}

ForceFailToPresent ==
    /\ absenceTimer' = Off
    /\ bootTimer' = Off
    /\ state' = "present"
    /\ published' = IF state = "present" THEN {} ELSE {PersonPresent}

\* Mutant: evidence that does not stop the absence timer.
RefreshKeepingTimer ==
    /\ absenceTimer' = absenceTimer
    /\ state' = "present"
    /\ published' = IF state = "present" THEN {} ELSE {PersonPresent, Returned}

RefreshKeepAwake ==
    /\ absenceTimer' = Off
    /\ state' = "present"
    /\ published' = IF state = "present" THEN {} ELSE {PersonPresent, Returned}

\* Mutant: a running timer is started again.
CanArmAgain ==
    /\ (cameraReportedHealthy /\ linkAlive')
    /\ ~lastFaceVisible' /\ ~lastMotion'
    /\ state # "absent"

CanArmAbsence ==
    /\ (cameraReportedHealthy /\ linkAlive')
    /\ ~lastFaceVisible' /\ ~lastMotion'
    /\ state # "absent" /\ ~Pending(absenceTimer)

\* Mutant: a window one tick too long.
MaybeArmLate ==
    /\ \/ /\ CanArmAbsence
          /\ state' = "maybe-absent"
          /\ absenceTimer' = AbsenceTimeout + 1
       \/ /\ ~CanArmAbsence
          /\ UNCHANGED <<state, absenceTimer>>
    /\ published' = {}

MaybeArmAbsence ==
    /\ \/ /\ CanArmAbsence
          /\ state' = "maybe-absent"
          /\ absenceTimer' = AbsenceTimeout
       \/ /\ ~CanArmAbsence
          /\ UNCHANGED <<state, absenceTimer>>
    /\ published' = {}

-----------------------------------------------------------------------------
(* The handlers, as main.ts runs them after the link has been resumed.     *)

FaceVisible(visible) ==
    /\ lastFaceVisible' = visible
    /\ UNCHANGED <<lastMotion, cameraReportedHealthy, bootTimer>>
    /\ IF visible THEN RefreshKeepAwake ELSE MaybeArmAbsence

Motion(active) ==
    /\ lastMotion' = active
    /\ UNCHANGED <<lastFaceVisible, cameraReportedHealthy, bootTimer>>
    /\ IF active THEN RefreshKeepAwake ELSE MaybeArmAbsence

Gaze(gazing) ==
    /\ UNCHANGED <<lastFaceVisible, lastMotion, cameraReportedHealthy, bootTimer>>
    /\ IF gazing /\ GazeIsKeepAwake /\ lastFaceVisible
       THEN RefreshKeepAwake
       ELSE UNCHANGED <<state, absenceTimer>> /\ published' = {}

\* onCameraState from the phone: any state other than active is a failure.
CameraReport(camera) ==
    /\ cameraReportedHealthy' = (camera = "active")
    /\ UNCHANGED <<lastFaceVisible, lastMotion>>
    /\ IF camera = "active"
       THEN bootTimer' = Off /\ published' = {} /\ UNCHANGED <<state, absenceTimer>>
       ELSE ForceFailToPresent

\* Traffic that carries no sensor event still resumes the link.
NoSensorEvent ==
    /\ published' = {}
    /\ UNCHANGED <<state, cameraReportedHealthy, absenceTimer, bootTimer,
                   lastFaceVisible, lastMotion>>

-----------------------------------------------------------------------------
(* The public operations and the two timer callbacks.                      *)

OnFaceVisible(visible) == UNCHANGED linkAlive /\ FaceVisible(visible)

OnMotion(active) == UNCHANGED linkAlive /\ Motion(active)

OnGaze(gazing) == UNCHANGED linkAlive /\ Gaze(gazing)

OnCameraState(camera) ==
    /\ CameraReport(camera)
    /\ linkAlive' = (linkAlive \/ camera = "active")

\* Mutant: the dead link is noted but presence is not forced.
OnlyMarkLinkDead == linkAlive' = FALSE /\ NoSensorEvent

\* onCameraState('error', 'watchdog-timeout'), the watchdog's onMissed.
OnWatchdogTimeout ==
    /\ linkAlive' = FALSE
    /\ ForceFailToPresent
    /\ UNCHANGED <<cameraReportedHealthy, lastFaceVisible, lastMotion>>

OnLinkResumed == linkAlive' = TRUE /\ NoSensorEvent

BootTimeoutFires ==
    /\ Due(bootTimer)
    /\ IF CameraHealthy
       THEN bootTimer' = Off /\ published' = {} /\ UNCHANGED <<state, absenceTimer>>
       ELSE ForceFailToPresent
    /\ UNCHANGED <<cameraReportedHealthy, linkAlive, lastFaceVisible, lastMotion>>

AbsenceTimeoutFires ==
    /\ Due(absenceTimer)
    /\ absenceTimer' = Off
    /\ state' = "absent"
    /\ published' = {PersonAbsent}
    /\ UNCHANGED <<cameraReportedHealthy, linkAlive, bootTimer,
                   lastFaceVisible, lastMotion>>

\* Time passes for the engine's timers.
Tick ==
    /\ absenceTimer' = Elapse(absenceTimer)
    /\ bootTimer' = Elapse(bootTimer)
    /\ published' = {}
    /\ UNCHANGED <<state, cameraReportedHealthy, linkAlive, lastFaceVisible, lastMotion>>

Operation ==
    \/ \E visible \in BOOLEAN : OnFaceVisible(visible)
    \/ \E active \in BOOLEAN : OnMotion(active)
    \/ \E gazing \in BOOLEAN : OnGaze(gazing)
    \/ \E camera \in CameraState : OnCameraState(camera)
    \/ OnWatchdogTimeout
    \/ OnLinkResumed
    \/ BootTimeoutFires
    \/ AbsenceTimeoutFires

Next == Operation \/ Tick

Spec == Init /\ [][Next]_vars

\* Node runs a due callback and time does not stand still; what the phone and
\* the watchdog do is theirs to choose.
FairSpec == Spec /\ WF_vars(Tick) /\ WF_vars(AbsenceTimeoutFires)

-----------------------------------------------------------------------------
(* Properties.                                                             *)

FlagsOK ==
    /\ cameraReportedHealthy \in BOOLEAN
    /\ linkAlive \in BOOLEAN
    /\ lastFaceVisible \in BOOLEAN
    /\ lastMotion \in BOOLEAN

StateOK ==
    /\ state \in PresenceState
    /\ absenceTimer \in Countdown(AbsenceTimeout)
    /\ bootTimer \in Countdown(BootTimeout)
    /\ published \in SUBSET PresenceEvent

TypeOK == FlagsOK /\ StateOK

\* Nothing the engine knows speaks for a person, and it can trust what it knows.
Clear == CameraHealthy /\ ~lastFaceVisible /\ ~lastMotion

\* Fail to present: whatever the order of sensor edges, camera reports, watchdog
\* timeouts and boot timeout, the engine only leaves `present' while the camera
\* is confirmed, the link is alive and neither face nor motion is reported.
FailToPresent == state # "present" => Clear

\* The intermediate state and its timer come and go together: maybe-absent
\* without a timer would never resolve, and a timer without it would declare
\* absence behind the engine's back (the handle cleared on one path only).
MaybeAbsentHasTimer == (state = "maybe-absent") <=> Pending(absenceTimer)

\* Gaze never changes what the engine believes, whatever gazeIsKeepAwake says:
\* the guard in onGaze demands a visible face, and a visible face has already
\* made the engine present with no timer pending (presenceEngine.ts:81-89).
GazeChangesNothing ==
    \A gazing \in BOOLEAN : OnGaze(gazing) =>
        UNCHANGED <<state, absenceTimer>> /\ published' = {}

GazeIsInert == [][GazeChangesNothing]_vars

\* A forced return to present publishes person_present but never
\* presence.returned: only a step that raises face or motion may announce a
\* return, so no camera error, watchdog or boot timeout wakes the display.
ReturnNeedsEvidence ==
    [][(Returned \in published') => lastFaceVisible' \/ lastMotion']_vars

\* maybe-absent never lasts: evidence, a failure or the timer ends it.
MaybeAbsentResolves == (state = "maybe-absent") ~> (state # "maybe-absent")
=============================================================================
