---------------------------- MODULE EngineProofs ----------------------------
(***************************************************************************)
(* What holds of the three timed components of the core for all values of  *)
(* their constants: of the presence engine for every timeout and setting   *)
(* of gazeIsKeepAwake, from HistoryInv; of the watchdog for every timeout, *)
(* from WatchdogInv; of the rule engine for every set of rules, condition  *)
(* (also one that throws) and debounce, from AutomationInv.                *)
(***************************************************************************)
EXTENDS PresenceHistory, WatchdogHistory, AutomationHistory, TLAPS

USE DEF Off, Countdown, Pending, Due, Elapse

\* The state the constructor leaves satisfies the inductive invariant.
LEMMA InitInv == HistoryInit => HistoryInv
<1> SUFFICES ASSUME HistoryInit PROVE HistoryInv
  OBVIOUS
<1> USE PresenceAssumption DEF HistoryInit, Init
<1>1. FlagsOK
  BY DEF FlagsOK
<1>2. StateOK /\ quiet \in 0 .. AbsenceTimeout
  BY DEF StateOK, PresenceState, PresenceEvent
<1>3. FailToPresent /\ MaybeAbsentHasTimer /\ TimerMeasuresQuiet
  BY DEF FailToPresent, MaybeAbsentHasTimer, TimerMeasuresQuiet
<1>4. QED
  BY <1>1, <1>2, <1>3 DEF HistoryInv, HistoryTypeOK, TypeOK

\* The four flags stay Boolean under every operation.
LEMMA OperationFlags == ASSUME FlagsOK, Operation PROVE FlagsOK'
<1> USE DEF FlagsOK
<1>1. ASSUME NEW visible \in BOOLEAN, OnFaceVisible(visible) PROVE FlagsOK'
  BY <1>1 DEF OnFaceVisible, FaceVisible
<1>2. ASSUME NEW active \in BOOLEAN, OnMotion(active) PROVE FlagsOK'
  BY <1>2 DEF OnMotion, Motion
<1>3. ASSUME NEW gazing \in BOOLEAN, OnGaze(gazing) PROVE FlagsOK'
  BY <1>3 DEF OnGaze, Gaze
<1>4. ASSUME NEW camera \in CameraState, OnCameraState(camera) PROVE FlagsOK'
  BY <1>4 DEF OnCameraState, CameraReport
<1>5. CASE OnWatchdogTimeout
  BY <1>5 DEF OnWatchdogTimeout
<1>6. CASE OnLinkResumed
  BY <1>6 DEF OnLinkResumed, NoSensorEvent
<1>7. CASE BootTimeoutFires
  BY <1>7 DEF BootTimeoutFires
<1>8. CASE AbsenceTimeoutFires
  BY <1>8 DEF AbsenceTimeoutFires
<1>9. QED
  BY <1>1, <1>2, <1>3, <1>4, <1>5, <1>6, <1>7, <1>8 DEF Operation

\* So do the three-valued state, the timers and the published events.
LEMMA OperationState == ASSUME StateOK, Operation PROVE StateOK'
<1> USE PresenceAssumption DEF StateOK, PresenceState, PresenceEvent
<1>1. ASSUME NEW visible \in BOOLEAN, OnFaceVisible(visible) PROVE StateOK'
  BY <1>1 DEF OnFaceVisible, FaceVisible, RefreshKeepAwake, MaybeArmAbsence
<1>2. ASSUME NEW active \in BOOLEAN, OnMotion(active) PROVE StateOK'
  BY <1>2 DEF OnMotion, Motion, RefreshKeepAwake, MaybeArmAbsence
<1>3. ASSUME NEW gazing \in BOOLEAN, OnGaze(gazing) PROVE StateOK'
  BY <1>3 DEF OnGaze, Gaze, RefreshKeepAwake
<1>4. ASSUME NEW camera \in CameraState, OnCameraState(camera) PROVE StateOK'
  BY <1>4 DEF OnCameraState, CameraReport, ForceFailToPresent
<1>5. CASE OnWatchdogTimeout
  BY <1>5 DEF OnWatchdogTimeout, ForceFailToPresent
<1>6. CASE OnLinkResumed
  BY <1>6 DEF OnLinkResumed, NoSensorEvent
<1>7. CASE BootTimeoutFires
  BY <1>7 DEF BootTimeoutFires, ForceFailToPresent
<1>8. CASE AbsenceTimeoutFires
  BY <1>8 DEF AbsenceTimeoutFires
<1>9. QED
  BY <1>1, <1>2, <1>3, <1>4, <1>5, <1>6, <1>7, <1>8 DEF Operation

\* Fail to present is preserved by every operation, together with the bond
\* between maybe-absent and its timer: each needs the other.
LEMMA OperationInv ==
  ASSUME TypeOK, FailToPresent, MaybeAbsentHasTimer, Operation
  PROVE  FailToPresent' /\ MaybeAbsentHasTimer'
<1> USE PresenceAssumption
    DEF TypeOK, FlagsOK, StateOK, PresenceState, FailToPresent, MaybeAbsentHasTimer,
        Clear, CameraHealthy
<1>1. ASSUME NEW visible \in BOOLEAN, OnFaceVisible(visible)
      PROVE  FailToPresent' /\ MaybeAbsentHasTimer'
  BY <1>1 DEF OnFaceVisible, FaceVisible, RefreshKeepAwake, MaybeArmAbsence, CanArmAbsence
<1>2. ASSUME NEW active \in BOOLEAN, OnMotion(active)
      PROVE  FailToPresent' /\ MaybeAbsentHasTimer'
  BY <1>2 DEF OnMotion, Motion, RefreshKeepAwake, MaybeArmAbsence, CanArmAbsence
<1>3. ASSUME NEW gazing \in BOOLEAN, OnGaze(gazing)
      PROVE  FailToPresent' /\ MaybeAbsentHasTimer'
  BY <1>3 DEF OnGaze, Gaze, RefreshKeepAwake
<1>4. ASSUME NEW camera \in CameraState, OnCameraState(camera)
      PROVE  FailToPresent' /\ MaybeAbsentHasTimer'
  BY <1>4 DEF OnCameraState, CameraReport, ForceFailToPresent
<1>5. CASE OnWatchdogTimeout
  BY <1>5 DEF OnWatchdogTimeout, ForceFailToPresent
<1>6. CASE OnLinkResumed
  BY <1>6 DEF OnLinkResumed, NoSensorEvent
<1>7. CASE BootTimeoutFires
  BY <1>7 DEF BootTimeoutFires, ForceFailToPresent
<1>8. CASE AbsenceTimeoutFires
  BY <1>8 DEF AbsenceTimeoutFires
<1>9. QED
  BY <1>1, <1>2, <1>3, <1>4, <1>5, <1>6, <1>7, <1>8 DEF Operation

\* An operation clears the absence timer, keeps it, or sets it to the whole window.
LEMMA TimerChoices ==
  ASSUME Operation
  PROVE  absenceTimer' \in {Off, absenceTimer, AbsenceTimeout}
<1>1. ASSUME NEW visible \in BOOLEAN, OnFaceVisible(visible)
      PROVE  absenceTimer' \in {Off, absenceTimer, AbsenceTimeout}
  BY <1>1 DEF OnFaceVisible, FaceVisible, RefreshKeepAwake, MaybeArmAbsence
<1>2. ASSUME NEW active \in BOOLEAN, OnMotion(active)
      PROVE  absenceTimer' \in {Off, absenceTimer, AbsenceTimeout}
  BY <1>2 DEF OnMotion, Motion, RefreshKeepAwake, MaybeArmAbsence
<1>3. ASSUME NEW gazing \in BOOLEAN, OnGaze(gazing)
      PROVE  absenceTimer' \in {Off, absenceTimer, AbsenceTimeout}
  BY <1>3 DEF OnGaze, Gaze, RefreshKeepAwake
<1>4. ASSUME NEW camera \in CameraState, OnCameraState(camera)
      PROVE  absenceTimer' \in {Off, absenceTimer, AbsenceTimeout}
  BY <1>4 DEF OnCameraState, CameraReport, ForceFailToPresent
<1>5. QED
  BY <1>1, <1>2, <1>3, <1>4
  DEF Operation, OnWatchdogTimeout, OnLinkResumed, NoSensorEvent, BootTimeoutFires,
      AbsenceTimeoutFires, ForceFailToPresent

\* Every operation, with the history it makes, preserves the inductive invariant.
LEMMA OperationStep == ASSUME HistoryInv, HistoryOperation PROVE HistoryInv'
<1> USE DEF HistoryInv, HistoryTypeOK, HistoryOperation
<1>1. TypeOK'
  BY OperationFlags, OperationState DEF TypeOK
<1>2. FailToPresent' /\ MaybeAbsentHasTimer'
  BY OperationInv
<1>3. quiet' \in 0 .. AbsenceTimeout /\ (~Clear => quiet = 0)'
  BY PresenceAssumption
<1>4. ASSUME Pending(absenceTimer)' PROVE quiet' + absenceTimer' >= AbsenceTimeout
  <2>1. Clear'
    BY <1>2, <1>4 DEF FailToPresent, MaybeAbsentHasTimer
  <2>2. quiet' = quiet
    BY <2>1
  <2>3. CASE absenceTimer' = absenceTimer
    BY <1>4, <2>2, <2>3 DEF TimerMeasuresQuiet
  <2>4. CASE absenceTimer' = AbsenceTimeout
    BY <2>2, <2>4, PresenceAssumption
  <2>5. QED
    BY <1>4, <2>3, <2>4, TimerChoices
<1>5. TimerMeasuresQuiet'
  BY <1>4 DEF TimerMeasuresQuiet
<1>6. QED
  BY <1>1, <1>2, <1>3, <1>5

\* So does time: a tick brings quiet and timer together.
LEMMA TickStep == ASSUME HistoryInv, HistoryTick PROVE HistoryInv'
<1> USE DEF HistoryInv, HistoryTypeOK, HistoryTick, Tick
<1>1. FlagsOK'
  BY DEF TypeOK, FlagsOK
<1>2. StateOK'
  BY PresenceAssumption DEF TypeOK, StateOK
<1>3. Clear' = Clear
  BY DEF Clear, CameraHealthy
<1>4. quiet' \in 0 .. AbsenceTimeout /\ (~Clear => quiet = 0)'
  BY <1>3, PresenceAssumption
<1>5. MaybeAbsentHasTimer'
  BY DEF MaybeAbsentHasTimer, TypeOK, StateOK
<1>6. FailToPresent'
  BY <1>3 DEF FailToPresent
<1>7. ASSUME Pending(absenceTimer)' PROVE quiet' + absenceTimer' >= AbsenceTimeout
  <2>1. Pending(absenceTimer) /\ Clear
    BY <1>7 DEF FailToPresent, MaybeAbsentHasTimer, TypeOK, StateOK
  <2>2. QED
    BY <2>1, PresenceAssumption DEF TimerMeasuresQuiet, TypeOK, StateOK
<1>8. QED
  BY <1>1, <1>2, <1>4, <1>5, <1>6, <1>7 DEF TimerMeasuresQuiet, TypeOK

\* A step that changes nothing preserves it too.
LEMMA StutterStep == ASSUME HistoryInv, UNCHANGED historyVars PROVE HistoryInv'
<1> USE DEF HistoryInv, HistoryTypeOK, historyVars, vars
<1>1. TypeOK' /\ (quiet \in 0 .. AbsenceTimeout)'
  BY DEF TypeOK, FlagsOK, StateOK
<1>2. Clear' = Clear
  BY DEF Clear, CameraHealthy
<1>3. QED
  BY <1>1, <1>2 DEF FailToPresent, MaybeAbsentHasTimer, TimerMeasuresQuiet

\* HistoryInv holds in every reachable state: in particular the engine has left
\* present only with trusted evidence and nobody in it (FailToPresent), and its
\* absence timer never runs ahead of the quiet it stands for.
THEOREM HistoryInvHolds == HistorySpec => []HistoryInv
<1>1. HistoryInv /\ [HistoryNext]_historyVars => HistoryInv'
  BY OperationStep, TickStep, StutterStep DEF HistoryNext
<1>2. QED
  BY InitInv, <1>1, PTL DEF HistorySpec

\* The engine fails to present: for every timeout it has left `present' only with
\* a confirmed camera, a live link and neither face nor motion reported.
THEOREM FailToPresentHolds == HistorySpec => []FailToPresent
<1>1. HistoryInv => FailToPresent
  BY DEF HistoryInv
<1>2. QED
  BY <1>1, HistoryInvHolds, PTL

\* While some doubt remains after an operation nobody is absent; while none does,
\* only the absence timer changes whether someone is.
LEMMA AbsenceChanges ==
  ASSUME TypeOK, FailToPresent, MaybeAbsentHasTimer, Operation, Clear'
  PROVE  \/ AbsenceTimeoutFires
         \/ (state' = "absent") = (state = "absent")
<1> USE DEF Clear, CameraHealthy
<1>1. ASSUME NEW visible \in BOOLEAN, OnFaceVisible(visible)
      PROVE  (state' = "absent") = (state = "absent")
  BY <1>1 DEF OnFaceVisible, FaceVisible, RefreshKeepAwake, MaybeArmAbsence, CanArmAbsence
<1>2. ASSUME NEW active \in BOOLEAN, OnMotion(active)
      PROVE  (state' = "absent") = (state = "absent")
  BY <1>2 DEF OnMotion, Motion, RefreshKeepAwake, MaybeArmAbsence, CanArmAbsence
<1>3. ASSUME NEW gazing \in BOOLEAN, OnGaze(gazing)
      PROVE  (state' = "absent") = (state = "absent")
  BY <1>3 DEF OnGaze, Gaze, RefreshKeepAwake
<1>4. ASSUME NEW camera \in CameraState, OnCameraState(camera)
      PROVE  (state' = "absent") = (state = "absent")
  BY <1>4 DEF OnCameraState, CameraReport, ForceFailToPresent
<1>5. CASE OnWatchdogTimeout
  BY <1>5 DEF OnWatchdogTimeout
<1>6. CASE OnLinkResumed
  BY <1>6 DEF OnLinkResumed, NoSensorEvent
<1>7. CASE BootTimeoutFires
  BY <1>7 DEF BootTimeoutFires, ForceFailToPresent
<1>8. QED
  BY <1>1, <1>2, <1>3, <1>4, <1>5, <1>6, <1>7 DEF Operation

\* Every operation is a step of the promise, or none of its business.
LEMMA OperationKeepsPromise ==
  ASSUME HistoryInv, HistoryOperation, TypeOK'
  PROVE  [Promise!PromiseNext]_(Promise!promiseVars)
<1> USE DEF Promise!promiseVars, Promise!PromiseNext
<1>1. FailToPresent' /\ Operation
  BY OperationInv DEF HistoryInv, HistoryTypeOK, HistoryOperation
<1>2. Clear \in BOOLEAN /\ Clear' \in BOOLEAN
  BY DEF Clear, CameraHealthy, HistoryInv, HistoryTypeOK, TypeOK, FlagsOK
<1>3. CASE ~Clear'
  <2>1. (state = "absent")' = FALSE
    BY <1>1, <1>3 DEF FailToPresent
  <2>2. Clear' = FALSE
    BY <1>2, <1>3
  <2>3. quiet' = 0
    BY <1>3 DEF HistoryOperation
  <2>4. QED
    BY <2>1, <2>2, <2>3 DEF Promise!Doubt
<1>4. CASE Clear' /\ AbsenceTimeoutFires
  <2>1. Clear' = Clear /\ Clear
    BY <1>2, <1>4 DEF AbsenceTimeoutFires, Clear, CameraHealthy
  <2>2. quiet = AbsenceTimeout /\ quiet' = quiet
    BY <1>4, PresenceAssumption
    DEF HistoryInv, HistoryTypeOK, TimerMeasuresQuiet, AbsenceTimeoutFires, HistoryOperation
  <2>3. (state = "absent")' = TRUE
    BY <1>4 DEF AbsenceTimeoutFires
  <2>4. QED
    BY <2>1, <2>2, <2>3 DEF Promise!DeclareAbsent
<1>5. CASE Clear' /\ ~AbsenceTimeoutFires
  <2>1. (state = "absent")' = (state = "absent")
    BY <1>1, <1>5, AbsenceChanges DEF HistoryInv, HistoryTypeOK
  <2>2. quiet' = quiet /\ Clear' = TRUE
    BY <1>2, <1>5 DEF HistoryOperation
  <2>3. CASE Clear
    BY <1>2, <2>1, <2>2, <2>3
  <2>4. CASE ~Clear
    BY <2>1, <2>2, <2>4 DEF Promise!BecomeClear
  <2>5. QED
    BY <2>3, <2>4
<1>6. QED
  BY <1>3, <1>4, <1>5

\* A tick is a quiet tick of the promise, or none of its business.
LEMMA TickKeepsPromise ==
  ASSUME HistoryInv, HistoryTick
  PROVE  [Promise!PromiseNext]_(Promise!promiseVars)
<1> USE DEF Promise!promiseVars, Promise!PromiseNext
<1>1. Clear' = Clear /\ (state = "absent")' = (state = "absent")
  BY DEF HistoryTick, Tick, Clear, CameraHealthy
<1>2. CASE Clear
  BY <1>1, <1>2 DEF HistoryTick, Promise!QuietTick
<1>3. CASE ~Clear
  <2>1. quiet' = quiet
    BY <1>3 DEF HistoryTick, HistoryInv
  <2>2. QED
    BY <1>1, <2>1
<1>4. QED
  BY <1>2, <1>3

\* The detailed engine implements the abstract promise: an absence is declared
\* only after a whole window of trusted quiet, and ends with the first doubt.
THEOREM EngineKeepsPromise == HistorySpec => KeepsPromise
<1>1. HistoryInit => Promise!PromiseInit
  <2> SUFFICES ASSUME HistoryInit PROVE Promise!PromiseInit
    OBVIOUS
  <2>1. (state = "absent") = FALSE
    BY DEF HistoryInit, Init
  <2>2. Clear = FALSE
    BY DEF HistoryInit, Init, Clear, CameraHealthy
  <2>3. QED
    BY <2>1, <2>2 DEF HistoryInit, Promise!PromiseInit
<1>2. HistoryInv /\ HistoryInv' /\ [HistoryNext]_historyVars
        => [Promise!PromiseNext]_(Promise!promiseVars)
  <2> SUFFICES ASSUME HistoryInv, HistoryInv', [HistoryNext]_historyVars
               PROVE  [Promise!PromiseNext]_(Promise!promiseVars)
    OBVIOUS
  <2>1. CASE HistoryOperation
    BY <2>1, OperationKeepsPromise DEF HistoryInv, HistoryTypeOK
  <2>2. CASE HistoryTick
    BY <2>2, TickKeepsPromise
  <2>3. CASE UNCHANGED historyVars
    BY <2>3 DEF historyVars, vars, Promise!promiseVars, Clear, CameraHealthy
  <2>4. QED
    BY <2>1, <2>2, <2>3 DEF HistoryNext
<1>3. QED
  BY <1>1, <1>2, HistoryInvHolds, PTL
  DEF HistorySpec, KeepsPromise, Promise!PromiseSpec

\* Gaze frames change nothing the engine believes, with the option on or off.
THEOREM GazeIsInertHolds == HistorySpec => GazeIsInert
<1>1. HistoryInv => GazeChangesNothing
  <2> SUFFICES ASSUME HistoryInv, NEW gazing \in BOOLEAN, OnGaze(gazing)
               PROVE  UNCHANGED <<state, absenceTimer>> /\ published' = {}
    BY DEF GazeChangesNothing
  <2>1. lastFaceVisible => state = "present" /\ absenceTimer = Off
    BY DEF HistoryInv, FailToPresent, MaybeAbsentHasTimer, Clear
  <2>2. QED
    BY <2>1 DEF OnGaze, Gaze, RefreshKeepAwake
<1>2. QED
  BY <1>1, HistoryInvHolds, PTL DEF GazeIsInert

\* No forced return to present announces a return: presence.returned is published
\* only by a step that raises face or motion.
THEOREM ReturnNeedsEvidenceHolds == HistorySpec => ReturnNeedsEvidence
<1>1. Operation /\ Returned \in published' => lastFaceVisible' \/ lastMotion'
  <2> SUFFICES ASSUME Operation, Returned \in published'
               PROVE  lastFaceVisible' \/ lastMotion'
    OBVIOUS
  <2> USE DEF Returned, PersonPresent, PersonAbsent
  <2>1. ASSUME NEW visible \in BOOLEAN, OnFaceVisible(visible)
        PROVE  lastFaceVisible' \/ lastMotion'
    BY <2>1 DEF OnFaceVisible, FaceVisible, MaybeArmAbsence
  <2>2. ASSUME NEW active \in BOOLEAN, OnMotion(active)
        PROVE  lastFaceVisible' \/ lastMotion'
    BY <2>2 DEF OnMotion, Motion, MaybeArmAbsence
  <2>3. ASSUME NEW gazing \in BOOLEAN, OnGaze(gazing)
        PROVE  lastFaceVisible' \/ lastMotion'
    BY <2>3 DEF OnGaze, Gaze
  <2>4. ASSUME NEW camera \in CameraState, OnCameraState(camera) PROVE FALSE
    BY <2>4 DEF OnCameraState, CameraReport, ForceFailToPresent
  <2>5. QED
    BY <2>1, <2>2, <2>3, <2>4
    DEF Operation, OnWatchdogTimeout, OnLinkResumed, NoSensorEvent, BootTimeoutFires,
        AbsenceTimeoutFires, ForceFailToPresent
<1>2. [HistoryNext]_historyVars
        => [(Returned \in published') => lastFaceVisible' \/ lastMotion']_vars
  BY <1>1 DEF HistoryNext, HistoryOperation, HistoryTick, Tick, historyVars, vars
<1>3. QED
  BY <1>2, PTL DEF HistorySpec, ReturnNeedsEvidence

-----------------------------------------------------------------------------
(* The watchdog.                                                           *)

USE WatchdogAssumption

\* The two flags stay Boolean under every operation, callback and tick.
LEMMA WatchdogFlags ==
  ASSUME firedThisSilence \in BOOLEAN, missed \in BOOLEAN, WatchdogHistoryNext
  PROVE  firedThisSilence' \in BOOLEAN /\ missed' \in BOOLEAN
  BY DEF WatchdogHistoryNext, StartsAnew, Start, Stops, Stop, IsPulsed, Pulse, Expires, WatchdogFires,
         WatchdogTimePasses, WatchdogTick

\* Each of them keeps the timer behind the silence it measures.
LEMMA SilenceStep ==
  ASSUME WatchdogInv, WatchdogHistoryNext
  PROVE  /\ watchdogTimer' \in Countdown(WatchdogTimeout)
         /\ silence' \in 0 .. WatchdogTimeout
         /\ Pending(watchdogTimer') => silence' + watchdogTimer' >= WatchdogTimeout
<1> USE DEF WatchdogInv, WatchdogTypeOK
<1>1. CASE StartsAnew
  BY <1>1 DEF StartsAnew, Start
<1>2. CASE Stops
  BY <1>2 DEF Stops, Stop
<1>3. CASE IsPulsed
  BY <1>3 DEF IsPulsed, Pulse
<1>4. CASE Expires
  BY <1>4 DEF Expires, WatchdogFires
<1>5. CASE WatchdogTimePasses
  BY <1>5 DEF WatchdogTimePasses, WatchdogTick
<1>6. QED
  BY <1>1, <1>2, <1>3, <1>4, <1>5 DEF WatchdogHistoryNext

\* Each of them keeps count of the reports.
LEMMA ReportsStep ==
  ASSUME reports = IF firedThisSilence THEN 1 ELSE 0, WatchdogHistoryNext
  PROVE  reports' = IF firedThisSilence' THEN 1 ELSE 0
<1>1. CASE StartsAnew \/ Stops \/ WatchdogTimePasses
  BY <1>1 DEF StartsAnew, Start, Stops, Stop, WatchdogTimePasses, WatchdogTick
<1>2. CASE IsPulsed
  BY <1>2 DEF IsPulsed, Pulse
<1>3. CASE Expires
  <2>1. firedThisSilence'
    BY <1>3 DEF Expires, WatchdogFires
  <2>2. firedThisSilence => ~missed'
    BY <1>3 DEF Expires, WatchdogFires
  <2>3. ~firedThisSilence => missed'
    BY <1>3 DEF Expires, WatchdogFires
  <2>4. reports' = IF missed' THEN reports + 1 ELSE reports
    BY <1>3 DEF Expires
  <2>5. CASE firedThisSilence
    BY <2>1, <2>2, <2>4, <2>5
  <2>6. CASE ~firedThisSilence
    BY <2>1, <2>3, <2>4, <2>6
  <2>7. QED
    BY <2>5, <2>6
<1>4. QED
  BY <1>1, <1>2, <1>3 DEF WatchdogHistoryNext

\* A watchdog that is wanted keeps its timer, or has reported.
LEMMA WatchingStep ==
  ASSUME WatchdogTypeOK, watching \in BOOLEAN, WatchdogHistoryNext,
         watching => Pending(watchdogTimer) \/ firedThisSilence
  PROVE  watching' \in BOOLEAN /\ (watching' => Pending(watchdogTimer') \/ firedThisSilence')
<1> USE DEF WatchdogTypeOK
<1>1. CASE StartsAnew \/ IsPulsed
  <2>1. watching' = TRUE /\ watchdogTimer' = WatchdogTimeout
    BY <1>1 DEF StartsAnew, Start, IsPulsed, Pulse
  <2>2. QED
    BY <2>1
<1>2. CASE Stops
  BY <1>2 DEF Stops
<1>3. CASE Expires
  BY <1>3 DEF Expires, WatchdogFires
<1>4. CASE WatchdogTimePasses
  <2>1. watching' = watching /\ firedThisSilence' = firedThisSilence
    BY <1>4 DEF WatchdogTimePasses, WatchdogTick
  <2>2. Pending(watchdogTimer) => Pending(watchdogTimer')
    BY <1>4 DEF WatchdogTimePasses, WatchdogTick
  <2>3. QED
    BY <2>1, <2>2, Zenon
<1>5. QED
  BY <1>1, <1>2, <1>3, <1>4 DEF WatchdogHistoryNext

\* WatchdogInv holds in every reachable state.
THEOREM WatchdogInvHolds == WatchdogSpec => []WatchdogInv
<1>1. WatchdogHistoryInit => WatchdogInv
  <2> SUFFICES ASSUME WatchdogHistoryInit PROVE WatchdogInv
    OBVIOUS
  <2>1. firedThisSilence = FALSE /\ missed = FALSE
    BY DEF WatchdogHistoryInit, WatchdogInit
  <2>2. watchdogTimer = Off /\ silence = 0 /\ reports = 0
    BY DEF WatchdogHistoryInit, WatchdogInit
  <2>3. WatchdogTypeOK
    <3>1. firedThisSilence \in BOOLEAN /\ missed \in BOOLEAN
      BY <2>1
    <3>2. watchdogTimer \in Countdown(WatchdogTimeout)
      BY <2>2
    <3>3. QED
      BY <3>1, <3>2 DEF WatchdogTypeOK
  <2>4. reports = IF firedThisSilence THEN 1 ELSE 0
    BY <2>1, <2>2
  <2>5. watching \in BOOLEAN /\ ~watching
    BY DEF WatchdogHistoryInit
  <2>6. /\ silence \in 0 .. WatchdogTimeout
        /\ Pending(watchdogTimer) => silence + watchdogTimer >= WatchdogTimeout
    BY <2>2
  <2>7. QED
    BY <2>3, <2>4, <2>5, <2>6, Zenon DEF WatchdogInv
<1>2. WatchdogInv /\ UNCHANGED watchdogHistoryVars => WatchdogInv'
  BY DEF WatchdogInv, WatchdogTypeOK, watchdogHistoryVars, watchdogVars
<1>3. WatchdogInv /\ WatchdogHistoryNext => WatchdogInv'
  BY WatchdogFlags, SilenceStep, ReportsStep, WatchingStep DEF WatchdogInv, WatchdogTypeOK
<1>4. QED
  BY <1>1, <1>2, <1>3, PTL DEF WatchdogSpec

\* A silence is reported at most once, with restarts of the watchdog in between.
THEOREM ReportedOnceHolds == WatchdogSpec => []ReportedOnce
<1>1. WatchdogInv => ReportedOnce
  BY DEF WatchdogInv, ReportedOnce
<1>2. QED
  BY <1>1, WatchdogInvHolds, PTL

\* onMissed runs only after a whole timeout of silence not reported before.
THEOREM ReportIsEarnedHolds == WatchdogSpec => ReportIsEarned
<1> DEFINE Earned == missed' => silence = WatchdogTimeout /\ ~firedThisSilence
<1>1. WatchdogHistoryNext => ~missed' \/ Expires
  BY DEF WatchdogHistoryNext, StartsAnew, Start, Stops, Stop, IsPulsed, Pulse, WatchdogTimePasses, WatchdogTick
<1>2. ASSUME WatchdogInv, Expires, missed' PROVE silence = WatchdogTimeout
  BY <1>2 DEF WatchdogInv, WatchdogTypeOK, Expires, WatchdogFires
<1>3. Expires /\ missed' => ~firedThisSilence
  BY DEF Expires, WatchdogFires
<1>4. WatchdogInv /\ [WatchdogHistoryNext]_watchdogHistoryVars => [Earned]_watchdogHistoryVars
  BY <1>1, <1>2, <1>3
<1>5. QED
  BY <1>4, WatchdogInvHolds, PTL DEF WatchdogSpec, ReportIsEarned

-----------------------------------------------------------------------------
(* The rule engine.                                                        *)

HIDE WatchdogAssumption
USE RulesAssumption DEF NoTimers

\* The timers after an event, rule by rule: cancelled, started, or as they were.
LEMMA EventTimers ==
  ASSUME NEW event \in Events, HandleEvents({event}), NEW r \in Rules
  PROVE  debounceTimers'[r] =
           IF r \in Contradicted(event) THEN Off
           ELSE IF r \in Confirmed(event) /\ ~Pending(debounceTimers[r]) THEN Debounce[r]
           ELSE debounceTimers[r]
<1>1. debounceTimers'[r] = IF Evaluates(r, {event})
                           THEN EvaluateRule(r, event) ELSE debounceTimers[r]
  BY DEF HandleEvents, Evaluates
<1>2. Condition[r] \cap Throws[r] = {}
  OBVIOUS
<1>3. QED
  BY <1>1, <1>2 DEF EvaluateRule, Contradicted, Confirmed

\* An event leaves only timers of rules that are on, each measuring its rule.
LEMMA EventStep ==
  ASSUME AutomationInv, NEW event \in Events, EventArrives(event)
  PROVE  AutomationInv'
<1> USE DEF AutomationInv, AutomationTypeOK, HeldOK, EventArrives
<1>1. /\ enabled' = enabled /\ disabledRuleIds' = disabledRuleIds /\ invoked' = {}
      /\ debounceTimers' \in [Rules -> Int] /\ held' \in [Rules -> Int]
  <2>1. \A r \in Rules : debounceTimers[r] \in Int
    OBVIOUS
  <2>2. \A r \in Rules, e \in Events : EvaluateRule(r, e) \in Int
    BY <2>1 DEF EvaluateRule
  <2>3. \A r \in Rules : Evaluates(r, {event}) =>
          (CHOOSE e \in {event} \cap Listens[r] : TRUE) \in Events
    BY DEF Evaluates
  <2>4. \A r \in Rules :
          (IF Evaluates(r, {event})
           THEN EvaluateRule(r, CHOOSE e \in {event} \cap Listens[r] : TRUE)
           ELSE debounceTimers[r]) \in Int
    BY <2>1, <2>2, <2>3
  <2>5. debounceTimers' \in [Rules -> Int]
    BY <2>4 DEF HandleEvents
  <2>6. held' \in [Rules -> Int]
    OBVIOUS
  <2>7. QED
    BY <2>5, <2>6 DEF HandleEvents
<1>2. ASSUME NEW r \in Rules
      PROVE  /\ debounceTimers'[r] \in Countdown(Debounce[r])
             /\ held'[r] \in Countdown(Debounce[r])
             /\ Pending(debounceTimers'[r]) => enabled' /\ r \notin disabledRuleIds'
             /\ Pending(debounceTimers'[r]) <=> held'[r] # Off
             /\ Pending(debounceTimers'[r]) => held'[r] + debounceTimers'[r] >= Debounce[r]
  <2>1. held'[r] = IF r \in Contradicted(event) THEN Off
                   ELSE IF r \in Confirmed(event) /\ held[r] = Off THEN 0 ELSE held[r]
    OBVIOUS
  <2>2. r \in Confirmed(event) => enabled /\ r \notin disabledRuleIds
    BY DEF Confirmed, Evaluates
  <2>3. QED
    BY <1>1, <2>1, <2>2, EventTimers DEF DisabledHoldsNoTimer, TimerMeasuresHeld
<1>3. QED
  BY <1>1, <1>2 DEF DisabledHoldsNoTimer, TimerMeasuresHeld

\* Switching the engine or a rule off takes its timers with it.
LEMMA SwitchStep ==
  ASSUME AutomationInv,
         \/ \E on \in BOOLEAN : Switched(on)
         \/ \E r \in Rules, on \in BOOLEAN : RuleSwitched(r, on)
  PROVE  AutomationInv'
<1> USE DEF AutomationInv, AutomationTypeOK, HeldOK, DisabledHoldsNoTimer, TimerMeasuresHeld
<1>1. ASSUME NEW on \in BOOLEAN, Switched(on) PROVE AutomationInv'
  BY <1>1 DEF Switched, SetEnabled
<1>2. ASSUME NEW r \in Rules, EnableRule(r), UNCHANGED held PROVE AutomationInv'
  BY <1>2 DEF EnableRule
<1>3. ASSUME NEW r \in Rules, DisableRule(r), held' = [held EXCEPT ![r] = Off]
      PROVE  AutomationInv'
  BY <1>3 DEF DisableRule
<1>4. QED
  BY <1>1, <1>2, <1>3 DEF RuleSwitched

\* A callback takes its own timer down; a tick brings all of them closer.
LEMMA RuleTimerStep ==
  ASSUME AutomationInv, RulesTimePass \/ \E r \in Rules : RuleFires(r)
  PROVE  AutomationInv'
<1> USE DEF AutomationInv, AutomationTypeOK, HeldOK, DisabledHoldsNoTimer, TimerMeasuresHeld
<1>1. ASSUME NEW r \in Rules, RuleFires(r) PROVE AutomationInv'
  BY <1>1 DEF RuleFires, DebounceFires
<1>2. CASE RulesTimePass
  BY <1>2 DEF RulesTimePass, AutomationTick
<1>3. QED
  BY <1>1, <1>2

\* AutomationInv holds in every reachable state.
THEOREM AutomationInvHolds == AutomationSpec => []AutomationInv
<1>1. AutomationHistoryInit => AutomationInv
  BY DEF AutomationHistoryInit, AutomationInit, AutomationInv, AutomationTypeOK, HeldOK,
         DisabledHoldsNoTimer, TimerMeasuresHeld
<1>2. AutomationInv /\ UNCHANGED automationHistoryVars => AutomationInv'
  BY DEF AutomationInv, AutomationTypeOK, HeldOK, DisabledHoldsNoTimer, TimerMeasuresHeld,
         automationHistoryVars, automationVars
<1>3. AutomationInv /\ AutomationHistoryNext => AutomationInv'
  BY EventStep, SwitchStep, RuleTimerStep DEF AutomationHistoryNext
<1>4. QED
  BY <1>1, <1>2, <1>3, PTL DEF AutomationSpec

\* No rule that is off holds a debounce that could still fire.
THEOREM DisabledHoldsNoTimerHolds == AutomationSpec => []DisabledHoldsNoTimer
<1>1. AutomationInv => DisabledHoldsNoTimer
  BY DEF AutomationInv
<1>2. QED
  BY <1>1, AutomationInvHolds, PTL

\* No action is invoked early, after a contradiction, or by a rule that is off.
THEOREM InvocationIsEarnedHolds == AutomationSpec => InvocationIsEarned
<1> DEFINE Earned == \A r \in invoked' : /\ enabled /\ r \notin disabledRuleIds
                                         /\ held[r] = Debounce[r]
<1>1. ASSUME AutomationInv, NEW r \in Rules, RuleFires(r) PROVE Earned
  BY <1>1 DEF RuleFires, DebounceFires, AutomationInv, AutomationTypeOK, HeldOK,
              DisabledHoldsNoTimer, TimerMeasuresHeld
<1>2. AutomationHistoryNext => invoked' = {} \/ \E r \in Rules : RuleFires(r)
  BY DEF AutomationHistoryNext, EventArrives, HandleEvents, Switched, SetEnabled, RuleSwitched, EnableRule,
         DisableRule, RulesTimePass, AutomationTick
<1>3. AutomationInv /\ [AutomationHistoryNext]_automationHistoryVars => [Earned]_automationHistoryVars
  BY <1>1, <1>2
<1>4. QED
  BY <1>3, AutomationInvHolds, PTL DEF AutomationSpec, InvocationIsEarned
=============================================================================
