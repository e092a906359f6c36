--------------------------- MODULE PipelineProofs ---------------------------
(***************************************************************************)
(* What holds of the whole pipeline, whatever the timeouts and the         *)
(* debounce, the signals a phone reports and the frames it sends, and      *)
(* however many may be under way.  The invariant says how the engine, the  *)
(* watchdog and the rule engine see one another.                           *)
(***************************************************************************)
EXTENDS PresencePipeline, ListProofs, SequenceTheorems, TLAPS

\* What the engine may be, and what it must know to be anything but present.
EngineInv ==
    /\ state \in PE!PresenceState /\ absenceTimer \in PE!Countdown(AbsenceTimeout)
    /\ bootTimer \in PE!Countdown(BootTimeout)
    /\ PE!FlagsOK /\ PE!FailToPresent /\ PE!MaybeAbsentHasTimer

\* The watchdog is running, or has reported the silence that goes on.
LinkInv ==
    /\ watchdogTimer \in WD!Countdown(WatchdogTimeout) /\ firedThisSilence \in BOOLEAN
    /\ Pending(watchdogTimer) \/ firedThisSilence
    /\ LinkViewsAgree

\* A rule that is off holds no timer, so that no event can pass it by.
RuleInv ==
    /\ debounceTimers \in [RuleIds -> Int] /\ enabled \in BOOLEAN
    /\ Pending(debounceTimers[SleepOnAbsent]) =>
          state = "absent" /\ enabled /\ SleepOnAbsent \notin disabledRuleIds

PipelineInv == EngineInv /\ LinkInv /\ RuleInv

\* What the rule engine is told of an absence: its beginning and its end.
Announced ==
    /\ published' \subseteq PE!PresenceEvent
    /\ PE!PersonAbsent \in published' => state' = "absent"
    /\ state = "absent" /\ state' # "absent" => PE!PersonPresent \in published'
    /\ PE!PersonPresent \in published' => PE!PersonAbsent \notin published'

\* Every frame, over a link that its arrival has resumed, keeps the engine's part.
LEMMA DispatchStep ==
  ASSUME EngineInv, NEW frame, linkAlive' = TRUE, Dispatch(frame)
  PROVE  EngineInv' /\ Announced
<1> USE PipelineAssumption
    DEF EngineInv, Announced, PE!PresenceState, PE!PresenceEvent, PE!FlagsOK, PE!FailToPresent,
        PE!MaybeAbsentHasTimer, PE!Clear, PE!CameraHealthy, PE!Countdown, PE!Off, PE!Pending,
        PE!PersonPresent, PE!PersonAbsent, PE!Returned
<1>1. CASE \E visible \in BOOLEAN : PE!FaceVisible(visible)
  BY <1>1 DEF PE!FaceVisible, PE!RefreshKeepAwake, PE!MaybeArmAbsence, PE!CanArmAbsence
<1>2. CASE \E active \in BOOLEAN : PE!Motion(active)
  BY <1>2 DEF PE!Motion, PE!RefreshKeepAwake, PE!MaybeArmAbsence, PE!CanArmAbsence
<1>3. CASE \E gazing \in BOOLEAN : PE!Gaze(gazing)
  BY <1>3 DEF PE!Gaze, PE!RefreshKeepAwake
<1>4. CASE PE!CameraReport(frame.arg)
  BY <1>4 DEF PE!CameraReport, PE!ForceFailToPresent
<1>5. CASE PE!NoSensorEvent
  BY <1>5 DEF PE!NoSensorEvent
<1>6. (frame.arg = "true") \in BOOLEAN
  OBVIOUS
<1>7. QED
  BY <1>1, <1>2, <1>3, <1>4, <1>5, <1>6 DEF Dispatch

\* The rule engine hears of what the engine announced in the same step.
LEMMA RulesHear ==
  ASSUME RuleInv, Announced, AE!HandleEvents(published')
  PROVE  RuleInv'
<1> DEFINE evaluated == AE!Evaluates(SleepOnAbsent, published')
           heard == published' \cap {PE!PersonPresent, PE!PersonAbsent}
<1>1. /\ SleepOnAbsent \in RuleIds
      /\ ByRule({PE!PersonPresent, PE!PersonAbsent}, {PE!Returned})[SleepOnAbsent]
            = {PE!PersonPresent, PE!PersonAbsent}
      /\ ByRule({PE!PersonAbsent}, IF WakeEnabled THEN {PE!Returned} ELSE {})[SleepOnAbsent]
            = {PE!PersonAbsent}
      /\ ByRule({}, {})[SleepOnAbsent] = {}
      /\ ByRule(PresenceDebounce, 0) \in [RuleIds -> Int]
  BY PipelineAssumption DEF RuleIds, ByRule
<1>2. UNCHANGED <<enabled, disabledRuleIds>>
  BY DEF AE!HandleEvents
<1>3. debounceTimers' \in [RuleIds -> Int]
  BY <1>1 DEF RuleInv, AE!HandleEvents, AE!EvaluateRule, AE!Off
<1>4. evaluated <=> enabled /\ SleepOnAbsent \notin disabledRuleIds /\ heard # {}
  BY <1>1 DEF AE!Evaluates
<1>5. CASE ~evaluated
  <2>1. debounceTimers'[SleepOnAbsent] = debounceTimers[SleepOnAbsent]
    BY <1>1, <1>5 DEF AE!HandleEvents
  <2>2. Pending(debounceTimers[SleepOnAbsent]) => state' = "absent"
    BY <1>4, <1>5 DEF RuleInv, Announced
  <2>3. QED
    BY <1>2, <1>3, <2>1, <2>2 DEF RuleInv
<1>6. CASE evaluated
  <2>1. PICK event \in heard : debounceTimers'[SleepOnAbsent] = AE!EvaluateRule(SleepOnAbsent, event)
    <3>1. debounceTimers'[SleepOnAbsent]
            = AE!EvaluateRule(SleepOnAbsent, CHOOSE event \in heard : TRUE)
      BY <1>1, <1>6 DEF AE!HandleEvents
    <3>2. (CHOOSE event \in heard : TRUE) \in heard
      BY <1>4, <1>6
    <3>3. QED
      BY <3>1, <3>2
  <2>2. CASE event = PE!PersonAbsent
    <3>1. state' = "absent"
      BY <2>2 DEF Announced
    <3>2. QED
      BY <1>2, <1>3, <1>4, <1>6, <3>1 DEF RuleInv
  <2>3. CASE event # PE!PersonAbsent
    <3>1. debounceTimers'[SleepOnAbsent] = Off
      BY <1>1, <2>1, <2>3 DEF AE!EvaluateRule, AE!Off, Off
    <3>2. QED
      BY <1>2, <1>3, <3>1 DEF RuleInv, Pending
  <2>4. QED
    BY <2>2, <2>3
<1>7. QED
  BY <1>5, <1>6

\* Nothing is announced, and the rule engine does nothing.
LEMMA RulesIdle ==
  ASSUME RuleInv, AE!AutomationIdle, state' = state
  PROVE  RuleInv'
<1>1. \A r \in RuleIds : ~AE!Evaluates(r, {})
  BY DEF AE!Evaluates
<1>2. debounceTimers' = [r \in RuleIds |-> debounceTimers[r]]
  BY <1>1 DEF AE!AutomationIdle, AE!HandleEvents
<1>3. debounceTimers' = debounceTimers /\ UNCHANGED <<enabled, disabledRuleIds>>
  BY <1>2 DEF AE!AutomationIdle, AE!HandleEvents, RuleInv
<1>4. QED
  BY <1>3 DEF RuleInv

\* What leaves the engine's variables alone leaves its part alone.
LEMMA EngineStays ==
  ASSUME EngineInv, EngineIdle
  PROVE  EngineInv' /\ state' = state /\ linkAlive' = linkAlive
  BY DEF EngineInv, EngineIdle, PE!NoSensorEvent, PE!FlagsOK, PE!FailToPresent,
         PE!MaybeAbsentHasTimer, PE!Clear, PE!CameraHealthy

\* The watchdog's part, when neither it nor the link moves.
LEMMA LinkStays ==
  ASSUME LinkInv, WD!WatchdogIdle, linkAlive' = linkAlive
  PROVE  LinkInv'
  BY DEF LinkInv, WD!WatchdogIdle, LinkViewsAgree

\* A step outside the core.
LEMMA OutsideStep ==
  ASSUME PipelineInv, CoreIdle
  PROVE  PipelineInv'
  BY EngineStays, LinkStays, RulesIdle DEF PipelineInv, CoreIdle

\* A message: the watchdog and the engine's link are reset together.
LEMMA DeliverStep ==
  ASSUME PipelineInv, Deliver
  PROVE  PipelineInv'
<1>1. linkAlive' = TRUE /\ Dispatch(Head(uplink)) /\ WD!Pulse
  BY DEF Deliver
<1>2. EngineInv' /\ Announced
  BY <1>1, DispatchStep DEF PipelineInv
<1>3. LinkInv'
  <2>1. watchdogTimer' = WatchdogTimeout /\ firedThisSilence' = FALSE
    BY <1>1 DEF WD!Pulse
  <2>2. WatchdogTimeout \in WD!Countdown(WatchdogTimeout)
    BY PipelineAssumption DEF WD!Countdown, WD!Off
  <2>3. Pending(watchdogTimer)'
    BY <2>1, PipelineAssumption DEF Pending, Off
  <2>4. LinkViewsAgree'
    BY <1>1, <2>1 DEF LinkViewsAgree
  <2>5. QED
    BY <2>1, <2>2, <2>3, <2>4 DEF LinkInv
<1>4. CASE Head(uplink).event = "automation.override"
  <2>1. AE!SetEnabled(Head(uplink).arg = "true")
    BY <1>4 DEF Deliver
  <2>2. state' = state
    BY <1>1, <1>4 DEF Dispatch, PE!NoSensorEvent
  <2>3. \/ debounceTimers' = debounceTimers /\ enabled' = TRUE
        \/ debounceTimers' = [r \in RuleIds |-> Off] /\ enabled' = FALSE
    BY <2>1 DEF AE!SetEnabled, AE!NoTimers, AE!Off, Off
  <2>4. disabledRuleIds' = disabledRuleIds /\ SleepOnAbsent \in RuleIds /\ Off \in Int
    BY <2>1 DEF AE!SetEnabled, RuleIds, Off
  <2>5. RuleInv'
    BY <2>2, <2>3, <2>4 DEF PipelineInv, RuleInv, Pending
  <2>6. QED
    BY <1>2, <1>3, <2>5 DEF PipelineInv
<1>5. CASE Head(uplink).event # "automation.override"
  <2>1. AE!HandleEvents(published')
    BY <1>5 DEF Deliver
  <2>2. QED
    BY <1>2, <1>3, <2>1, RulesHear DEF PipelineInv
<1>6. QED
  BY <1>4, <1>5

\* The watchdog reports a silence once, and the engine fails to present.
LEMMA WatchdogStep ==
  ASSUME PipelineInv, WatchdogFires
  PROVE  PipelineInv'
<1>1. WD!WatchdogFires /\ AE!HandleEvents(published')
  BY DEF WatchdogFires
<1>2. /\ watchdogTimer' = Off /\ firedThisSilence' = TRUE
      /\ (missed' <=> ~firedThisSilence)
  BY <1>1 DEF WD!WatchdogFires, WD!Off, Off
<1>3. EngineInv' /\ Announced /\ linkAlive' = FALSE
  <2>1. CASE missed'
    <3>1. PE!OnWatchdogTimeout
      BY <2>1 DEF WatchdogFires
    <3>2. /\ linkAlive' = FALSE /\ state' = "present" /\ absenceTimer' = PE!Off /\ bootTimer' = PE!Off
          /\ published' = IF state = "present" THEN {} ELSE {PE!PersonPresent}
          /\ UNCHANGED <<cameraReportedHealthy, lastFaceVisible, lastMotion>>
      BY <3>1 DEF PE!OnWatchdogTimeout, PE!ForceFailToPresent
    <3>3. PE!Off \in PE!Countdown(AbsenceTimeout) /\ PE!Off \in PE!Countdown(BootTimeout)
      BY PipelineAssumption DEF PE!Countdown, PE!Off
    <3>4. PE!FlagsOK' /\ PE!FailToPresent' /\ PE!MaybeAbsentHasTimer'
      BY <3>2
         DEF PipelineInv, EngineInv, PE!FlagsOK, PE!FailToPresent, PE!MaybeAbsentHasTimer, PE!Pending
    <3>5. EngineInv'
      BY <3>2, <3>3, <3>4 DEF EngineInv, PE!PresenceState
    <3>6. Announced
      BY <3>2 DEF Announced, PE!PresenceEvent, PE!PersonPresent, PE!PersonAbsent
    <3>7. QED
      BY <3>2, <3>5, <3>6
  <2>2. CASE ~missed'
    <3>1. EngineIdle /\ linkAlive = FALSE
      BY <1>2, <2>2 DEF WatchdogFires, PipelineInv, LinkInv, LinkViewsAgree, EngineInv, PE!FlagsOK
    <3>2. EngineInv' /\ state' = state /\ linkAlive' = FALSE
      BY <3>1, EngineStays DEF PipelineInv
    <3>3. Announced
      BY <3>1, <3>2 DEF Announced, EngineIdle, PE!NoSensorEvent
    <3>4. QED
      BY <3>2, <3>3
  <2>3. QED
    BY <2>1, <2>2
<1>4. LinkInv'
  <2>1. Off \in WD!Countdown(WatchdogTimeout)
    BY PipelineAssumption DEF WD!Countdown, WD!Off, Off
  <2>2. LinkViewsAgree'
    BY <1>2, <1>3 DEF LinkViewsAgree
  <2>3. QED
    BY <1>2, <2>1, <2>2 DEF LinkInv
<1>5. QED
  BY <1>1, <1>3, <1>4, RulesHear DEF PipelineInv

\* The engine's own two timers.
LEMMA EngineTimerStep ==
  ASSUME PipelineInv, BootTimeoutFires \/ AbsenceTimeoutFires
  PROVE  PipelineInv'
<1>1. AE!HandleEvents(published') /\ WD!WatchdogIdle
  BY DEF BootTimeoutFires, AbsenceTimeoutFires
<1>2. EngineInv' /\ Announced /\ linkAlive' = linkAlive
  <2> USE PipelineAssumption
      DEF PipelineInv, EngineInv, Announced, PE!PresenceState, PE!PresenceEvent, PE!FlagsOK,
          PE!FailToPresent, PE!MaybeAbsentHasTimer, PE!Clear, PE!CameraHealthy, PE!Countdown,
          PE!Off, PE!Pending, PE!Due, PE!PersonPresent, PE!PersonAbsent, PE!Returned
  <2>1. CASE BootTimeoutFires
    BY <2>1 DEF BootTimeoutFires, PE!BootTimeoutFires, PE!ForceFailToPresent
  <2>2. CASE AbsenceTimeoutFires
    BY <2>2 DEF AbsenceTimeoutFires, PE!AbsenceTimeoutFires
  <2>3. QED
    BY <2>1, <2>2
<1>3. QED
  BY <1>1, <1>2, LinkStays, RulesHear DEF PipelineInv

\* The callback of a debounce, and the switches of the Mac app.
LEMMA RuleStep ==
  ASSUME PipelineInv, (\E r \in RuleIds : DebounceFires(r)) \/ SwitchAutomation
  PROVE  PipelineInv'
<1>1. EngineIdle /\ WD!WatchdogIdle
  BY DEF DebounceFires, SwitchAutomation
<1>2. EngineInv' /\ LinkInv' /\ state' = state
  BY <1>1, EngineStays, LinkStays DEF PipelineInv
<1>3. SleepOnAbsent \in RuleIds /\ Off \in Int
  BY DEF RuleIds, Off
<1>4. ASSUME NEW r \in RuleIds, DebounceFires(r) PROVE RuleInv'
  BY <1>2, <1>3, <1>4
     DEF PipelineInv, RuleInv, DebounceFires, AE!DebounceFires, AE!Off, Off, Pending
<1>5. ASSUME NEW on \in BOOLEAN, AE!SetEnabled(on) PROVE RuleInv'
  <2>1. \/ debounceTimers' = debounceTimers /\ enabled' = TRUE
        \/ debounceTimers' = [r \in RuleIds |-> Off] /\ enabled' = FALSE
    BY <1>5 DEF AE!SetEnabled, AE!NoTimers, AE!Off, Off
  <2>2. disabledRuleIds' = disabledRuleIds
    BY <1>5 DEF AE!SetEnabled
  <2>3. QED
    BY <1>2, <1>3, <2>1, <2>2 DEF PipelineInv, RuleInv, Pending
<1>6. ASSUME NEW r \in RuleIds, AE!EnableRule(r) PROVE RuleInv'
  BY <1>2, <1>3, <1>6 DEF PipelineInv, RuleInv, AE!EnableRule
<1>7. ASSUME NEW r \in RuleIds, AE!DisableRule(r) PROVE RuleInv'
  BY <1>2, <1>3, <1>7 DEF PipelineInv, RuleInv, AE!DisableRule, AE!Off, Off, Pending
<1>8. QED
  BY <1>2, <1>4, <1>5, <1>6, <1>7 DEF SwitchAutomation, PipelineInv

\* Time passes; no timer is set or dropped.
LEMMA TickStep ==
  ASSUME PipelineInv, Tick
  PROVE  PipelineInv'
<1>1. /\ UNCHANGED <<state, cameraReportedHealthy, linkAlive, lastFaceVisible, lastMotion,
                     firedThisSilence, enabled, disabledRuleIds>>
      /\ absenceTimer' = PE!Elapse(absenceTimer) /\ bootTimer' = PE!Elapse(bootTimer)
      /\ watchdogTimer' = WD!Elapse(watchdogTimer)
      /\ debounceTimers' = [r \in RuleIds |-> AE!Elapse(debounceTimers[r])]
  BY DEF Tick, PE!Tick, WD!WatchdogTick, AE!AutomationTick
<1>2. /\ absenceTimer' \in PE!Countdown(AbsenceTimeout) /\ bootTimer' \in PE!Countdown(BootTimeout)
      /\ PE!Pending(absenceTimer') <=> PE!Pending(absenceTimer)
  BY <1>1, PipelineAssumption
     DEF PipelineInv, EngineInv, PE!Elapse, PE!Countdown, PE!Off, PE!Pending
<1>3. EngineInv'
  BY <1>1, <1>2
     DEF PipelineInv, EngineInv, PE!FlagsOK, PE!FailToPresent, PE!MaybeAbsentHasTimer, PE!Clear,
         PE!CameraHealthy
<1>4. /\ watchdogTimer' \in WD!Countdown(WatchdogTimeout)
      /\ Pending(watchdogTimer') <=> Pending(watchdogTimer)
  BY <1>1, PipelineAssumption
     DEF PipelineInv, LinkInv, WD!Elapse, WD!Countdown, WD!Off, Pending, Off
<1>5. LinkInv'
  BY <1>1, <1>4 DEF PipelineInv, LinkInv, LinkViewsAgree
<1>6. \A r \in RuleIds : /\ debounceTimers'[r] \in Int
                         /\ Pending(debounceTimers'[r]) <=> Pending(debounceTimers[r])
  BY <1>1 DEF PipelineInv, RuleInv, AE!Elapse, Pending, Off
<1>7. debounceTimers' \in [RuleIds -> Int] /\ SleepOnAbsent \in RuleIds
  BY <1>1, <1>6 DEF RuleIds
<1>8. RuleInv'
  BY <1>1, <1>6, <1>7 DEF PipelineInv, RuleInv
<1>9. QED
  BY <1>3, <1>5, <1>8 DEF PipelineInv

\* The components agree about one another in every state.
THEOREM PipelineInvHolds == Spec => []PipelineInv
<1>1. Init => PipelineInv
  <2> SUFFICES ASSUME Init PROVE PipelineInv
    OBVIOUS
  <2>1. EngineInv
    <3>1. PE!Off \in PE!Countdown(AbsenceTimeout) /\ BootTimeout \in PE!Countdown(BootTimeout)
      BY PipelineAssumption DEF PE!Countdown, PE!Off
    <3>2. PE!FlagsOK /\ PE!FailToPresent /\ PE!MaybeAbsentHasTimer
      BY DEF Init, PE!Init, PE!FlagsOK, PE!FailToPresent, PE!MaybeAbsentHasTimer, PE!Pending
    <3>3. QED
      BY <3>1, <3>2 DEF EngineInv, Init, PE!Init, PE!PresenceState
  <2>2. LinkInv
    <3>1. WatchdogTimeout \in WD!Countdown(WatchdogTimeout) /\ WatchdogTimeout # Off
      BY PipelineAssumption DEF WD!Countdown, WD!Off, Off
    <3>2. LinkViewsAgree
      BY DEF Init, PE!Init, LinkViewsAgree
    <3>3. QED
      BY <3>1, <3>2 DEF Init, LinkInv, Pending
  <2>3. RuleInv
    <3>1. debounceTimers = [r \in RuleIds |-> Off] /\ enabled = TRUE
      BY DEF Init, AE!AutomationInit, AE!NoTimers, AE!Off, Off
    <3>2. Off \in Int /\ SleepOnAbsent \in RuleIds
      BY DEF Off, RuleIds
    <3>3. QED
      BY <3>1, <3>2 DEF RuleInv, Pending
  <2>4. QED
    BY <2>1, <2>2, <2>3 DEF PipelineInv
<1>2. PipelineInv /\ UNCHANGED vars => PipelineInv'
  BY DEF vars, engineVars, watchdogVars, automationVars, PipelineInv, EngineInv, LinkInv, RuleInv,
         LinkViewsAgree, PE!FlagsOK, PE!FailToPresent, PE!MaybeAbsentHasTimer, PE!Clear,
         PE!CameraHealthy
<1>3. PipelineInv /\ Next => PipelineInv'
  <2> SUFFICES ASSUME PipelineInv, Next PROVE PipelineInv'
    OBVIOUS
  <2>1. CASE Core
    BY <2>1, DeliverStep, WatchdogStep, EngineTimerStep, RuleStep DEF Core
  <2>2. CASE Tick
    BY <2>2, TickStep
  <2>3. CASE Environment
    <3>1. CoreIdle \/ SwitchAutomation
      BY <2>3 DEF Environment, CameraBecomes, Observe, AckHeartbeat, Override, SocketOpens,
                  CameraEffect, SocketCloses, ExecFails, PhoneStep
    <3>2. QED
      BY <3>1, OutsideStep, RuleStep
  <2>4. CASE \E a \in ES!Actions : ExecSucceeds(a)
    BY <2>4, OutsideStep DEF ExecSucceeds
  <2>5. QED
    BY <2>1, <2>2, <2>3, <2>4 DEF Next
<1>4. QED
  BY <1>1, <1>2, <1>3, PTL DEF Spec

\* The engine and the watchdog never disagree about the link.
THEOREM LinkViewsAgreeHolds == Spec => []LinkViewsAgree
<1>1. PipelineInv => LinkViewsAgree
  BY DEF PipelineInv, LinkInv
<1>2. QED
  BY <1>1, PipelineInvHolds, PTL

\* Nobody is held absent without a watchdog that would notice a dead link.
THEOREM AbsenceIsSupervisedHolds == Spec => []AbsenceIsSupervised
<1>1. PipelineInv => AbsenceIsSupervised
  BY DEF PipelineInv, EngineInv, LinkInv, LinkViewsAgree, AbsenceIsSupervised, PE!FailToPresent,
         PE!Clear, PE!CameraHealthy
<1>2. QED
  BY <1>1, PipelineInvHolds, PTL

\* A sleep that is still debouncing belongs to an absence that still lasts.
THEOREM PendingSleepMeansAbsentHolds == Spec => []PendingSleepMeansAbsent
<1>1. PipelineInv => PendingSleepMeansAbsent
  BY DEF PipelineInv, RuleInv, PendingSleepMeansAbsent
<1>2. QED
  BY <1>1, PipelineInvHolds, PTL

\* An absence is known to every part it takes to end it, for all timeouts.
THEOREM AbsenceIsSharedHolds == Spec => []AbsenceIsShared
  BY LinkViewsAgreeHolds, AbsenceIsSupervisedHolds, PendingSleepMeansAbsentHolds, PTL
     DEF AbsenceIsShared

\* The display is put to sleep only on trusted evidence and with the rule on.
THEOREM SleepIsDeservedHolds == Spec => SleepIsDeserved
<1> DEFINE Deserved == SleepOnAbsent \in invoked' =>
                          /\ state = "absent" /\ PE!Clear
                          /\ enabled /\ SleepOnAbsent \notin disabledRuleIds
<1>1. PipelineInv /\ Next => Deserved
  <2> SUFFICES ASSUME PipelineInv, Next, SleepOnAbsent \in invoked'
               PROVE  /\ state = "absent" /\ PE!Clear
                      /\ enabled /\ SleepOnAbsent \notin disabledRuleIds
    OBVIOUS
  <2>1. CASE DebounceFires(SleepOnAbsent)
    <3>1. Pending(debounceTimers[SleepOnAbsent])
      BY <2>1 DEF DebounceFires, AE!DebounceFires, AE!Due, Pending, Off
    <3>2. QED
      BY <3>1 DEF PipelineInv, RuleInv, EngineInv, PE!FailToPresent
  <2>2. CASE DebounceFires(WakeOnReturn)
    BY <2>2 DEF DebounceFires, AE!DebounceFires, SleepOnAbsent, WakeOnReturn
  <2>3. CASE Deliver \/ WatchdogFires \/ BootTimeoutFires \/ AbsenceTimeoutFires
    BY <2>3 DEF Deliver, WatchdogFires, BootTimeoutFires, AbsenceTimeoutFires, AE!HandleEvents,
                AE!SetEnabled
  <2>4. CASE Tick
    BY <2>4 DEF Tick, AE!AutomationTick
  <2>5. CASE Environment \/ \E a \in ES!Actions : ExecSucceeds(a)
    <3>1. CoreIdle \/ SwitchAutomation
      BY <2>5 DEF Environment, CameraBecomes, Observe, AckHeartbeat, Override, SocketOpens,
                  CameraEffect, SocketCloses, ExecFails, ExecSucceeds, PhoneStep
    <3>2. QED
      BY <3>1 DEF CoreIdle, AE!AutomationIdle, AE!HandleEvents, SwitchAutomation, AE!SetEnabled,
                  AE!EnableRule, AE!DisableRule
  <2>6. QED
    BY <2>1, <2>2, <2>3, <2>4, <2>5 DEF Next, Core, RuleIds
<1>2. PipelineInv /\ [Next]_vars => [Deserved]_vars
  BY <1>1
<1>3. QED
  BY <1>2, PipelineInvHolds, PTL DEF Spec, SleepIsDeserved

-----------------------------------------------------------------------------
(***************************************************************************)
(* Types.  The uplink carries only frames that the gateway knows, and the  *)
(* most that one observation can add to it is one frame for each signal.   *)
(***************************************************************************)

\* A list of frames that is sent at once.
Burst(frames) == frames \in Seq(Frames) /\ Len(frames) <= Len(SignalOrder)

UplinkOK == uplink \in Seq(Frames) /\ Len(uplink) < UplinkBound + Len(SignalOrder)

SwitchesOK == enabled \in BOOLEAN /\ disabledRuleIds \in SUBSET RuleIds /\ invoked \in SUBSET RuleIds

RuleTimersOK ==
    /\ debounceTimers \in [RuleIds -> Int]
    /\ \A r \in RuleIds : debounceTimers[r] \in AE!Countdown(ByRule(PresenceDebounce, 0)[r])

PhoneOK == PS!PhoneTypeOK /\ socketOpen \in BOOLEAN /\ epochPending \in BOOLEAN

PipelineTypes ==
    /\ published \in SUBSET PE!PresenceEvent /\ missed \in BOOLEAN
    /\ SwitchesOK /\ RuleTimersOK /\ ES!SaverTypeOK /\ PhoneOK /\ UplinkOK

\* The signals are listed in an order, and there is one.
LEMMA SignalOrderFacts ==
  /\ SignalOrder \in Seq(PS!Signals) /\ Len(SignalOrder) \in Nat /\ Len(SignalOrder) >= 1
<1>1. SignalOrder \in Seq(STRING) /\ SignalOrder # <<>>
  BY PipelineAssumption
<1>2. Len(SignalOrder) \in Nat \ {0}
  BY <1>1, EmptySeq
<1>3. SignalOrder = [i \in 1 .. Len(SignalOrder) |-> SignalOrder[i]]
  BY <1>1
<1>4. \A i \in 1 .. Len(SignalOrder) : SignalOrder[i] \in PS!Signals
  BY <1>1 DEF PS!Signals
<1>5. SignalOrder \in Seq(PS!Signals)
  BY <1>2, <1>3, <1>4
<1>6. QED
  BY <1>2, <1>5

\* An observation sends at most one frame for each signal.
LEMMA EdgeFramesAreFrames ==
  ASSUME NEW seen \in [PS!Signals -> BOOLEAN], NEW edges
  PROVE  Burst(PS!EdgeFrames(seen, edges))
<1> DEFINE emitted == Without(SignalOrder, PS!Signals \ edges)
           frames == [i \in DOMAIN emitted |-> PS!Frame(emitted[i], PS!AsText(seen[emitted[i]]))]
<1>1. PS!EdgeFrames(seen, edges) = frames
  <2>1. PS!Without(SignalOrder, PS!Signals \ edges) = emitted
    BY DEF PS!Without, PS!KeptUpTo, Without, KeptUpTo
  <2> HIDE DEF emitted
  <2>2. QED
    BY <2>1 DEF PS!EdgeFrames
<1>2. emitted \in Seq(PS!Signals \ (PS!Signals \ edges)) /\ Len(emitted) <= Len(SignalOrder)
  BY SignalOrderFacts, WithoutFacts
<1> HIDE DEF emitted
<1>3. /\ Len(emitted) \in Nat /\ DOMAIN emitted = 1 .. Len(emitted)
      /\ \A i \in 1 .. Len(emitted) : emitted[i] \in PS!Signals
  BY <1>2
<1>4. ASSUME NEW i \in 1 .. Len(emitted)
      PROVE  PS!Frame(emitted[i], PS!AsText(seen[emitted[i]])) \in Frames
  <2>1. emitted[i] \in PS!Signals
    BY <1>3
  <2>2. PS!AsText(seen[emitted[i]]) \in {"true", "false"}
    BY DEF PS!AsText
  <2>3. QED
    BY <2>1, <2>2 DEF PS!Frame, Frames
<1>5. frames = [i \in 1 .. Len(emitted) |-> PS!Frame(emitted[i], PS!AsText(seen[emitted[i]]))]
  BY <1>3
<1>6. frames \in Seq(Frames) /\ Len(frames) = Len(emitted)
  <2>1. frames \in [1 .. Len(emitted) -> Frames]
    BY <1>4, <1>5
  <2> HIDE DEF frames
  <2>2. QED
    BY <1>3, <2>1
<1>7. QED
  BY <1>1, <1>2, <1>6 DEF Burst

\* One frame is few enough.
LEMMA OneFrame ==
  ASSUME NEW frame \in Frames
  PROVE  Burst(<<frame>>) /\ Burst(<<>>)
<1>1. <<frame>> \in Seq(Frames) /\ Len(<<frame>>) = 1
  OBVIOUS
<1>2. <<>> \in Seq(Frames) /\ Len(<<>>) = 0
  OBVIOUS
<1>3. QED
  BY <1>1, <1>2, SignalOrderFacts DEF Burst

LEMMA FrameKinds ==
  /\ \A c \in CameraStates : PS!Frame("camera_state", c) \in Frames
  /\ \A on \in BOOLEAN : PS!Frame("automation.override", PS!AsText(on)) \in Frames
  /\ PS!Frame("heartbeat", "") \in Frames /\ PS!Frame("hello", "") \in Frames
BY DEF PS!Frame, Frames, PS!AsText

LEMMA AnnouncementIsBurst ==
  ASSUME NEW c \in CameraStates
  PROVE  Burst(PS!Announcement(c)) /\ Burst(<<>>)
<1>1. PS!Frame("camera_state", c) \in Frames
  BY FrameKinds
<1>2. QED
  BY <1>1, OneFrame DEF PS!Announcement

\* What is sent is sent whole, or not at all.
LEMMA SendStep ==
  ASSUME UplinkOK, socketOpen \in BOOLEAN, NEW frames, Burst(frames), Send(frames)
  PROVE  UplinkOK' /\ socketOpen' \in BOOLEAN
<1>1. /\ uplink \in Seq(Frames) /\ frames \in Seq(Frames) /\ Len(uplink) \in Nat
      /\ Len(frames) \in Nat /\ Len(frames) <= Len(SignalOrder) /\ Len(SignalOrder) \in Nat
      /\ UplinkBound \in Nat
  BY SignalOrderFacts, PipelineAssumption DEF UplinkOK, Burst
<1>2. socketOpen' = socketOpen
  BY DEF Send
<1>3. CASE uplink' = uplink
  BY <1>2, <1>3 DEF UplinkOK
<1>4. CASE frames = <<>> /\ uplink' = uplink \o frames
  <2>1. uplink' = uplink
    BY <1>1, <1>4, ConcatEmptySeq
  <2>2. QED
    BY <1>2, <2>1 DEF UplinkOK
<1>5. CASE socketOpen /\ frames # <<>> /\ uplink' = uplink \o frames
  <2>1. Len(uplink) < UplinkBound
    BY <1>5 DEF Send, Room
  <2>2. uplink' \in Seq(Frames) /\ Len(uplink') = Len(uplink) + Len(frames)
    BY <1>1, <1>5, ConcatProperties
  <2>3. Len(uplink') < UplinkBound + Len(SignalOrder)
    BY <1>1, <2>1, <2>2
  <2>4. QED
    BY <1>2, <2>2, <2>3 DEF UplinkOK
<1>6. QED
  BY <1>3, <1>4, <1>5 DEF Send

\* The rule engine's timers are those of their rules, whatever events it hears.
LEMMA RuleTypesKept ==
  ASSUME SwitchesOK, RuleTimersOK,
         \/ \E events : AE!HandleEvents(events)
         \/ \E on \in BOOLEAN : AE!SetEnabled(on)
         \/ \E r \in RuleIds : AE!EnableRule(r) \/ AE!DisableRule(r) \/ AE!DebounceFires(r)
         \/ AE!AutomationTick
  PROVE  SwitchesOK' /\ RuleTimersOK'
<1> DEFINE limit == ByRule(PresenceDebounce, 0)
<1>0. limit \in [RuleIds -> Nat]
  BY PipelineAssumption DEF RuleIds, ByRule
<1> HIDE DEF limit
<1>1. /\ debounceTimers \in [RuleIds -> Int]
      /\ \A r \in RuleIds : debounceTimers[r] \in -1 .. limit[r]
  BY DEF RuleTimersOK, AE!Countdown, AE!Off, limit
<1>2. \A r \in RuleIds : -1 \in -1 .. limit[r] /\ limit[r] \in -1 .. limit[r]
  BY <1>0
<1>3. ASSUME NEW timers, timers = debounceTimers',
             timers \in [RuleIds -> Int], \A r \in RuleIds : timers[r] \in -1 .. limit[r]
      PROVE  RuleTimersOK'
  BY <1>3 DEF RuleTimersOK, AE!Countdown, AE!Off, limit
<1>4. ASSUME NEW events, AE!HandleEvents(events) PROVE SwitchesOK' /\ RuleTimersOK'
  <2>1. /\ \A r \in RuleIds : debounceTimers'[r] \in {debounceTimers[r], limit[r], -1}
        /\ debounceTimers' = [r \in RuleIds |-> debounceTimers'[r]]
        /\ invoked' = {} /\ UNCHANGED <<enabled, disabledRuleIds>>
    BY <1>4 DEF AE!HandleEvents, AE!EvaluateRule, AE!Off, limit
  <2>2. \A r \in RuleIds : debounceTimers'[r] \in -1 .. limit[r] /\ debounceTimers'[r] \in Int
    BY <1>0, <1>1, <1>2, <2>1
  <2>3. debounceTimers' \in [RuleIds -> Int]
    BY <2>1, <2>2
  <2>4. QED
    BY <1>3, <2>1, <2>2, <2>3 DEF SwitchesOK
<1>5. ASSUME NEW on \in BOOLEAN, AE!SetEnabled(on) PROVE SwitchesOK' /\ RuleTimersOK'
  <2>1. /\ debounceTimers' \in {debounceTimers, [r \in RuleIds |-> -1]}
        /\ invoked' = {} /\ enabled' \in BOOLEAN /\ UNCHANGED disabledRuleIds
    BY <1>5 DEF AE!SetEnabled, AE!NoTimers, AE!Off
  <2>2. /\ debounceTimers' \in [RuleIds -> Int]
        /\ \A r \in RuleIds : debounceTimers'[r] \in -1 .. limit[r]
    BY <1>1, <1>2, <2>1
  <2>3. QED
    BY <1>3, <2>1, <2>2 DEF SwitchesOK
<1>6. ASSUME NEW r \in RuleIds, AE!EnableRule(r) \/ AE!DisableRule(r) \/ AE!DebounceFires(r)
      PROVE  SwitchesOK' /\ RuleTimersOK'
  <2>1. /\ debounceTimers' \in {debounceTimers, [debounceTimers EXCEPT ![r] = -1]}
        /\ invoked' \in SUBSET RuleIds /\ disabledRuleIds' \in SUBSET RuleIds
        /\ UNCHANGED enabled
    BY <1>6 DEF AE!EnableRule, AE!DisableRule, AE!DebounceFires, AE!Off, SwitchesOK
  <2>2. /\ debounceTimers' \in [RuleIds -> Int]
        /\ \A q \in RuleIds : debounceTimers'[q] \in -1 .. limit[q]
    BY <1>1, <1>2, <2>1
  <2>3. QED
    BY <1>3, <2>1, <2>2 DEF SwitchesOK
<1>7. ASSUME AE!AutomationTick PROVE SwitchesOK' /\ RuleTimersOK'
  <2>1. /\ debounceTimers' = [r \in RuleIds |-> AE!Elapse(debounceTimers[r])]
        /\ invoked' = {} /\ UNCHANGED <<enabled, disabledRuleIds>>
    BY <1>7 DEF AE!AutomationTick
  <2>2. \A r \in RuleIds : AE!Elapse(debounceTimers[r]) \in -1 .. limit[r]
    BY <1>0, <1>1 DEF AE!Elapse
  <2>3. /\ debounceTimers' \in [RuleIds -> Int]
        /\ \A r \in RuleIds : debounceTimers'[r] \in -1 .. limit[r]
    BY <2>1, <2>2
  <2>4. QED
    BY <1>3, <2>1, <2>3 DEF SwitchesOK
<1>8. QED
  BY <1>4, <1>5, <1>6, <1>7

\* Processes come and go.
LEMMA SaverStep ==
  ASSUME ES!SaverTypeOK,
         \/ UNCHANGED saverVars
         \/ \E a \in ES!Actions : ES!OnAction(a) \/ ES!ExecSucceeds(a) \/ ES!ExecFails(a)
  PROVE  ES!SaverTypeOK'
<1> USE DEF ES!SaverTypeOK
<1>1. CASE UNCHANGED saverVars
  BY <1>1 DEF saverVars
<1>2. ASSUME NEW a \in ES!Actions, ES!OnAction(a) \/ ES!ExecSucceeds(a) \/ ES!ExecFails(a)
      PROVE  ES!SaverTypeOK'
  <2>1. execs[a] \in 0 .. MaxExecs /\ MaxExecs \in Nat
    BY PipelineAssumption
  <2>2. PICK n \in 0 .. MaxExecs : execs' = [execs EXCEPT ![a] = n]
    <3>1. CASE ES!OnAction(a)
      <4>1. execs[a] + 1 \in 0 .. MaxExecs /\ execs' = [execs EXCEPT ![a] = execs[a] + 1]
        BY <2>1, <3>1 DEF ES!OnAction
      <4>2. QED
        BY <4>1
    <3>2. CASE ES!ExecSucceeds(a) \/ ES!ExecFails(a)
      <4>1. execs[a] - 1 \in 0 .. MaxExecs /\ execs' = [execs EXCEPT ![a] = execs[a] - 1]
        BY <2>1, <3>2 DEF ES!ExecSucceeds, ES!ExecFails
      <4>2. QED
        BY <4>1
    <3>3. QED
      BY <1>2, <3>1, <3>2
  <2>3. display' \in {"awake", "asleep"}
    BY <1>2 DEF ES!OnAction, ES!ExecSucceeds, ES!ExecFails, ES!Effect
  <2>4. QED
    BY <2>2, <2>3
<1>3. QED
  BY <1>1, <1>2

\* The phone and the socket: every frame they send is one of the kinds there are.
LEMMA PhoneTypesKept ==
  ASSUME PhoneOK, UplinkOK,
         \/ \E c \in CameraStates, new \in {FALSE, epochPending} : CameraBecomes(c, new)
         \/ \E seen \in [PS!Signals -> BOOLEAN], edges \in SUBSET PS!Signals : Observe(seen, edges)
         \/ AckHeartbeat
         \/ \E on \in BOOLEAN : Override(on)
         \/ SocketOpens \/ CameraEffect \/ SocketCloses
  PROVE  PhoneOK' /\ UplinkOK'
<1>1. PS!PhoneTypeOK /\ socketOpen \in BOOLEAN /\ epochPending \in BOOLEAN
  BY DEF PhoneOK
<1>2. ASSUME NEW c \in CameraStates, NEW new \in {FALSE, epochPending}, CameraBecomes(c, new)
      PROVE  PhoneOK' /\ UplinkOK'
  <2>1. /\ PS!CameraBecomes(c, new) /\ Send(PS!AnnouncedByChange(c))
        /\ epochPending' = (epochPending /\ ~new) /\ new \in BOOLEAN
    BY <1>1, <1>2 DEF CameraBecomes
  <2>2. PS!PhoneTypeOK'
    BY <1>1, <2>1
       DEF PS!PhoneTypeOK, PS!CameraBecomes, PS!ResetEdges, PS!NothingEmitted
  <2>3. Burst(PS!AnnouncedByChange(c))
    BY AnnouncementIsBurst DEF PS!AnnouncedByChange
  <2>4. UplinkOK' /\ socketOpen' \in BOOLEAN
    BY <1>1, <2>1, <2>3, SendStep
  <2>5. epochPending' \in BOOLEAN
    BY <1>1, <2>1
  <2>6. QED
    BY <2>2, <2>4, <2>5 DEF PhoneOK
<1>3. ASSUME NEW seen \in [PS!Signals -> BOOLEAN], NEW edges \in SUBSET PS!Signals,
             Observe(seen, edges)
      PROVE  PhoneOK' /\ UplinkOK'
  <2>1. PS!Observation(seen, edges) /\ Send(PS!EdgeFrames(seen, edges)) /\ UNCHANGED epochPending
    BY <1>3 DEF Observe
  <2>2. PS!PhoneTypeOK'
    BY <1>1, <2>1 DEF PS!PhoneTypeOK, PS!Observation
  <2>3. UplinkOK' /\ socketOpen' \in BOOLEAN
    BY <1>1, <2>1, SendStep, EdgeFramesAreFrames
  <2>4. QED
    BY <1>1, <2>1, <2>2, <2>3 DEF PhoneOK
<1>4. ASSUME NEW frame \in Frames, Send(<<frame>>), UNCHANGED <<phoneVars, epochPending>>
      PROVE  PhoneOK' /\ UplinkOK'
  <2>1. UplinkOK' /\ socketOpen' \in BOOLEAN
    BY <1>1, <1>4, SendStep, OneFrame
  <2>2. PS!PhoneTypeOK'
    BY <1>1, <1>4 DEF phoneVars, PS!PhoneTypeOK
  <2>3. QED
    BY <1>1, <1>4, <2>1, <2>2 DEF PhoneOK
<1>5. CASE AckHeartbeat
  BY <1>4, <1>5, FrameKinds DEF AckHeartbeat
<1>6. ASSUME NEW on \in BOOLEAN, Override(on) PROVE PhoneOK' /\ UplinkOK'
  BY <1>4, <1>6, FrameKinds DEF Override
<1>7. CASE SocketOpens
  <2>1. /\ socketOpen' = TRUE /\ epochPending' = TRUE /\ UNCHANGED phoneVars
        /\ Len(uplink) < UplinkBound /\ uplink' = Append(uplink, PS!Frame("hello", ""))
    BY <1>7 DEF SocketOpens
  <2>2. UplinkOK'
    <3>1. PS!Frame("hello", "") \in Frames /\ uplink \in Seq(Frames)
      BY FrameKinds DEF UplinkOK
    <3> DEFINE hello == PS!Frame("hello", "")
    <3> HIDE DEF hello
    <3>2. uplink' \in Seq(Frames) /\ Len(uplink') = Len(uplink) + 1 /\ Len(uplink) \in Nat
      <4>1. hello \in Frames /\ uplink \in Seq(Frames) /\ uplink' = Append(uplink, hello)
        BY <2>1, <3>1 DEF hello
      <4>2. Append(uplink, hello) \in Seq(Frames) /\ Len(Append(uplink, hello)) = Len(uplink) + 1
        BY <4>1
      <4>3. Len(uplink) \in Nat
        BY <4>1, LenProperties
      <4>4. QED
        BY <4>1, <4>2, <4>3
    <3>3. UplinkBound \in Nat /\ Len(SignalOrder) \in Nat /\ Len(SignalOrder) >= 1
      BY SignalOrderFacts, PipelineAssumption
    <3>4. Len(uplink) < UplinkBound
      BY <2>1
    <3>5. Len(uplink') < UplinkBound + Len(SignalOrder)
      BY <3>2, <3>3, <3>4
    <3>6. QED
      BY <3>2, <3>5 DEF UplinkOK
  <2>3. PS!PhoneTypeOK'
    BY <1>1, <2>1 DEF phoneVars, PS!PhoneTypeOK
  <2>4. QED
    BY <2>1, <2>2, <2>3 DEF PhoneOK
<1>8. CASE CameraEffect
  <2>1. epochPending' = FALSE /\ PS!NewEpoch /\ Send(PS!Announcement(camera))
    BY <1>8 DEF CameraEffect
  <2>2. camera \in CameraStates
    BY <1>1 DEF PS!PhoneTypeOK
  <2>3. UplinkOK' /\ socketOpen' \in BOOLEAN
    BY <1>1, <2>1, <2>2, SendStep, AnnouncementIsBurst
  <2>4. PS!PhoneTypeOK'
    BY <1>1, <2>1 DEF PS!PhoneTypeOK, PS!NewEpoch, PS!ResetEdges, PS!NothingEmitted
  <2>5. QED
    BY <2>1, <2>3, <2>4 DEF PhoneOK
<1>9. CASE SocketCloses
  <2>1. socketOpen' = FALSE /\ UNCHANGED <<phoneVars, epochPending>>
    BY <1>9 DEF SocketCloses
  <2>2. PICK n \in 0 .. Len(uplink) : uplink' = SubSeq(uplink, 1, n)
    BY <1>9 DEF SocketCloses
  <2>3. UplinkOK'
    <3>1. uplink \in Seq(Frames) /\ Len(uplink) \in Nat /\ n \in Int /\ 1 \in Int /\ n <= Len(uplink)
      BY <2>2 DEF UplinkOK
    <3>2. \A i \in 1 .. n : uplink[i] \in Frames
      BY <3>1
    <3>3. /\ uplink' \in Seq(Frames)
          /\ Len(uplink') = IF 1 <= n THEN n - 1 + 1 ELSE 0
      BY <2>2, <3>1, <3>2, SubSeqProperties
    <3>4. Len(uplink') <= Len(uplink)
      BY <2>2, <3>1, <3>3
    <3>5. Len(uplink) < UplinkBound + Len(SignalOrder)
      BY DEF UplinkOK
    <3>6. UplinkBound \in Nat /\ Len(SignalOrder) \in Nat /\ Len(uplink') \in Nat
      BY <3>3, SignalOrderFacts, PipelineAssumption
    <3>7. Len(uplink') < UplinkBound + Len(SignalOrder)
      BY <3>1, <3>4, <3>5, <3>6
    <3>8. QED
      BY <3>3, <3>7 DEF UplinkOK
  <2>4. PS!PhoneTypeOK'
    BY <1>1, <2>1 DEF phoneVars, PS!PhoneTypeOK
  <2>5. QED
    BY <1>1, <2>1, <2>3, <2>4 DEF PhoneOK
<1>10. QED
  BY <1>2, <1>3, <1>5, <1>6, <1>7, <1>8, <1>9

\* A step that leaves the phone's side alone, or takes one frame from it.
LEMMA PhoneSideStays ==
  ASSUME PhoneOK, UplinkOK, UNCHANGED <<phoneVars, socketOpen, epochPending>>,
         uplink' = uplink \/ (uplink # <<>> /\ uplink' = Tail(uplink))
  PROVE  PhoneOK' /\ UplinkOK'
<1>1. PhoneOK'
  BY DEF PhoneOK, phoneVars, PS!PhoneTypeOK
<1>2. CASE uplink' = uplink
  BY <1>1, <1>2 DEF UplinkOK
<1>3. CASE uplink # <<>> /\ uplink' = Tail(uplink)
  <2>1. /\ uplink \in Seq(Frames) /\ Len(uplink) \in Nat
        /\ Len(uplink) < UplinkBound + Len(SignalOrder)
        /\ UplinkBound \in Nat /\ Len(SignalOrder) \in Nat
    BY SignalOrderFacts, PipelineAssumption DEF UplinkOK
  <2>2. uplink' \in Seq(Frames) /\ Len(uplink') = Len(uplink) - 1
    BY <1>3, <2>1, HeadTailProperties
  <2>3. Len(uplink') < UplinkBound + Len(SignalOrder)
    BY <2>1, <2>2
  <2>4. QED
    BY <1>1, <2>2, <2>3 DEF UplinkOK
<1>4. QED
  BY <1>2, <1>3

LEMMA TypesInit == Init => PipelineTypes
<1> SUFFICES ASSUME Init PROVE PipelineTypes
  OBVIOUS
<1>1. published \in SUBSET PE!PresenceEvent /\ missed \in BOOLEAN
  BY DEF Init, PE!Init
<1>2. SwitchesOK /\ RuleTimersOK
  <2>1. \A r \in RuleIds : ByRule(PresenceDebounce, 0)[r] \in Nat
    BY PipelineAssumption DEF ByRule, RuleIds
  <2>2. \A r \in RuleIds : -1 \in AE!Countdown(ByRule(PresenceDebounce, 0)[r])
    BY <2>1 DEF AE!Countdown, AE!Off
  <2>3. debounceTimers = [r \in RuleIds |-> -1]
    BY DEF Init, AE!AutomationInit, AE!NoTimers, AE!Off
  <2>4. QED
    BY <2>2, <2>3 DEF Init, AE!AutomationInit, SwitchesOK, RuleTimersOK
<1>3. ES!SaverTypeOK
  BY PipelineAssumption DEF Init, ES!SaverInit, ES!SaverTypeOK
<1>4. PhoneOK
  BY DEF Init, PS!PhoneInit, PhoneOK, PS!PhoneTypeOK, PS!NothingEmitted
<1>5. UplinkOK
  <2>1. uplink = <<>> /\ <<>> \in Seq(Frames) /\ Len(<<>>) = 0
    BY DEF Init
  <2>2. 0 < UplinkBound + Len(SignalOrder)
    BY SignalOrderFacts, PipelineAssumption
  <2>3. QED
    BY <2>1, <2>2 DEF UplinkOK
<1>6. QED
  BY <1>1, <1>2, <1>3, <1>4, <1>5 DEF PipelineTypes

LEMMA TypesStep ==
  ASSUME PipelineInv, PipelineTypes, Next
  PROVE  PipelineTypes'
<1>1. SwitchesOK /\ RuleTimersOK /\ ES!SaverTypeOK /\ PhoneOK /\ UplinkOK
  BY DEF PipelineTypes
<1>2. ASSUME PhoneStep \/ (\E a \in ES!Actions : ExecSucceeds(a) \/ ExecFails(a))
      PROVE  /\ published' = {} /\ missed' = FALSE /\ SwitchesOK' /\ RuleTimersOK' /\ ES!SaverTypeOK'
  <2>1. CoreIdle
    BY <1>2 DEF PhoneStep, ExecSucceeds, ExecFails
  <2>2. published' = {} /\ missed' = FALSE
    BY <2>1 DEF CoreIdle, EngineIdle, PE!NoSensorEvent, WD!WatchdogIdle
  <2>3. SwitchesOK' /\ RuleTimersOK'
    BY <1>1, <2>1, RuleTypesKept DEF CoreIdle, AE!AutomationIdle
  <2>4. ES!SaverTypeOK'
    BY <1>1, <1>2, SaverStep DEF PhoneStep, ExecSucceeds, ExecFails
  <2>5. QED
    BY <2>2, <2>3, <2>4
<1>3. CASE Environment /\ PhoneStep
  <2>1. PhoneOK' /\ UplinkOK'
    <3>1. CASE \/ \E c \in CameraStates, new \in {FALSE, epochPending} : CameraBecomes(c, new)
               \/ \E seen \in [PS!Signals -> BOOLEAN], edges \in SUBSET PS!Signals :
                     Observe(seen, edges)
               \/ AckHeartbeat
               \/ \E on \in BOOLEAN : Override(on)
               \/ SocketOpens \/ CameraEffect \/ SocketCloses
      BY <1>1, <3>1, PhoneTypesKept
    <3>2. CASE SwitchAutomation \/ \E a \in ES!Actions : ExecFails(a)
      BY <1>1, <3>2, PhoneSideStays DEF SwitchAutomation, ExecFails, phoneSide
    <3>3. QED
      BY <1>3, <3>1, <3>2 DEF Environment
  <2>2. QED
    BY <1>2, <1>3, <2>1 DEF PipelineTypes
<1>4. CASE \E a \in ES!Actions : ExecSucceeds(a) \/ ExecFails(a)
  <2>1. PhoneOK' /\ UplinkOK'
    BY <1>1, <1>4, PhoneSideStays DEF ExecSucceeds, ExecFails, phoneSide
  <2>2. QED
    BY <1>2, <1>4, <2>1 DEF PipelineTypes
<1>5. CASE SwitchAutomation
  <2>1. published' = {} /\ missed' = FALSE
    BY <1>5 DEF SwitchAutomation, EngineIdle, PE!NoSensorEvent, WD!WatchdogIdle
  <2>2. SwitchesOK' /\ RuleTimersOK'
    BY <1>1, <1>5, RuleTypesKept DEF SwitchAutomation
  <2>3. ES!SaverTypeOK' /\ PhoneOK' /\ UplinkOK'
    BY <1>1, <1>5, SaverStep, PhoneSideStays DEF SwitchAutomation, phoneSide
  <2>4. QED
    BY <2>1, <2>2, <2>3 DEF PipelineTypes
<1>6. CASE Tick
  <2>1. published' = {} /\ missed' = FALSE
    BY <1>6 DEF Tick, PE!Tick, WD!WatchdogTick
  <2>2. SwitchesOK' /\ RuleTimersOK'
    BY <1>1, <1>6, RuleTypesKept DEF Tick
  <2>3. ES!SaverTypeOK' /\ PhoneOK' /\ UplinkOK'
    BY <1>1, <1>6, SaverStep, PhoneSideStays DEF Tick, phoneSide
  <2>4. QED
    BY <2>1, <2>2, <2>3 DEF PipelineTypes
<1>7. ASSUME NEW r \in RuleIds, DebounceFires(r) PROVE PipelineTypes'
  <2>1. published' = {} /\ missed' = FALSE
    BY <1>7 DEF DebounceFires, EngineIdle, PE!NoSensorEvent, WD!WatchdogIdle
  <2>2. SwitchesOK' /\ RuleTimersOK'
    BY <1>1, <1>7, RuleTypesKept DEF DebounceFires
  <2>3. ES!SaverTypeOK'
    <3>1. ActionOf(r) \in ES!Actions
      BY DEF ActionOf, ES!Actions
    <3>2. QED
      BY <1>1, <1>7, <3>1, SaverStep DEF DebounceFires
  <2>4. PhoneOK' /\ UplinkOK'
    BY <1>1, <1>7, PhoneSideStays DEF DebounceFires, phoneSide
  <2>5. QED
    BY <2>1, <2>2, <2>3, <2>4 DEF PipelineTypes
<1>8. CASE WatchdogFires \/ BootTimeoutFires \/ AbsenceTimeoutFires
  <2>1. published' \in SUBSET PE!PresenceEvent /\ missed' \in BOOLEAN
    <3>1. CASE WatchdogFires
      BY <3>1 DEF WatchdogFires, WD!WatchdogFires, EngineIdle, PE!NoSensorEvent, PipelineInv,
                  LinkInv, PE!OnWatchdogTimeout, PE!ForceFailToPresent, PE!PresenceEvent
    <3>2. CASE BootTimeoutFires
      BY <3>2 DEF BootTimeoutFires, PE!BootTimeoutFires, PE!ForceFailToPresent,
                  PE!PresenceEvent, WD!WatchdogIdle
    <3>3. CASE AbsenceTimeoutFires
      BY <3>3 DEF AbsenceTimeoutFires, PE!AbsenceTimeoutFires, PE!PresenceEvent, WD!WatchdogIdle
    <3>4. QED
      BY <1>8, <3>1, <3>2, <3>3
  <2>2. SwitchesOK' /\ RuleTimersOK'
    BY <1>1, <1>8, RuleTypesKept DEF WatchdogFires, BootTimeoutFires, AbsenceTimeoutFires
  <2>3. ES!SaverTypeOK' /\ PhoneOK' /\ UplinkOK'
    BY <1>1, <1>8, SaverStep, PhoneSideStays
       DEF WatchdogFires, BootTimeoutFires, AbsenceTimeoutFires, phoneSide
  <2>4. QED
    BY <2>1, <2>2, <2>3 DEF PipelineTypes
<1>9. CASE Deliver
  <2>1. linkAlive' = TRUE /\ Dispatch(Head(uplink)) /\ missed' = FALSE
    BY <1>9 DEF Deliver, WD!Pulse
  <2>2. published' \in SUBSET PE!PresenceEvent
    BY <2>1, DispatchStep DEF PipelineInv, Announced
  <2>3. SwitchesOK' /\ RuleTimersOK'
    <3>1. (Head(uplink).arg = "true") \in BOOLEAN
      OBVIOUS
    <3>2. QED
      BY <1>1, <1>9, <3>1, RuleTypesKept DEF Deliver
  <2>4. ES!SaverTypeOK' /\ PhoneOK' /\ UplinkOK'
    BY <1>1, <1>9, SaverStep, PhoneSideStays DEF Deliver
  <2>5. QED
    BY <2>1, <2>2, <2>3, <2>4 DEF PipelineTypes
<1>10. QED
  <2>1. Environment => PhoneStep \/ SwitchAutomation \/ \E a \in ES!Actions : ExecFails(a)
    BY DEF Environment, CameraBecomes, Observe, AckHeartbeat, Override, SocketOpens,
           CameraEffect, SocketCloses
  <2>2. QED
    BY <1>3, <1>4, <1>5, <1>6, <1>7, <1>8, <1>9, <2>1 DEF Next, Core

LEMMA TypesStutter ==
  ASSUME PipelineTypes, UNCHANGED vars
  PROVE  PipelineTypes'
<1>1. /\ UNCHANGED <<published, missed, enabled, disabledRuleIds, debounceTimers, invoked>>
      /\ UNCHANGED saverVars /\ UNCHANGED <<phoneVars, socketOpen, epochPending>> /\ uplink' = uplink
  BY DEF vars, engineVars, watchdogVars, automationVars, phoneSide
<1>2. SwitchesOK /\ RuleTimersOK /\ ES!SaverTypeOK /\ PhoneOK /\ UplinkOK
  BY DEF PipelineTypes
<1>3. SwitchesOK' /\ RuleTimersOK'
  BY <1>1, <1>2 DEF SwitchesOK, RuleTimersOK
<1>4. ES!SaverTypeOK' /\ PhoneOK' /\ UplinkOK'
  BY <1>1, <1>2, SaverStep, PhoneSideStays
<1>5. QED
  BY <1>1, <1>3, <1>4 DEF PipelineTypes

\* Every part of the pipeline stays within its types, and the uplink carries only
\* frames the gateway knows, at most a burst more than its bound
\* (wsGateway.ts, CameraPresence.tsx, main.ts:84-112).
THEOREM TypeOKHolds == Spec => []TypeOK
<1>1. PipelineInv /\ PipelineTypes => TypeOK
  <2> SUFFICES ASSUME PipelineInv, PipelineTypes PROVE TypeOK
    OBVIOUS
  <2>1. PE!TypeOK
    BY DEF PipelineInv, EngineInv, PipelineTypes, PE!TypeOK, PE!StateOK
  <2>2. WD!WatchdogTypeOK
    BY DEF PipelineInv, LinkInv, PipelineTypes, WD!WatchdogTypeOK
  <2>3. AE!AutomationTypeOK
    BY DEF PipelineTypes, SwitchesOK, RuleTimersOK, AE!AutomationTypeOK
  <2>4. \A i \in DOMAIN uplink : uplink[i] \in Frames
    BY DEF PipelineTypes, UplinkOK
  <2>5. QED
    BY <2>1, <2>2, <2>3, <2>4 DEF PipelineTypes, PhoneOK, UplinkOK, TypeOK
<1>2. PipelineInv /\ PipelineTypes /\ [Next]_vars => PipelineTypes'
  BY TypesStep, TypesStutter
<1>3. QED
  BY <1>1, <1>2, TypesInit, PipelineInvHolds, PTL DEF Spec

-----------------------------------------------------------------------------
(***************************************************************************)
(* A wake is armed by evidence only.                                       *)
(***************************************************************************)

\* The rule for the return is armed by the event of a return, and by nothing else.
LEMMA WakeArmedByReturn ==
  ASSUME NEW events, RuleTimersOK, AE!HandleEvents(events), WakeArmed
  PROVE  PE!Returned \in events
<1> DEFINE evaluated == AE!Evaluates(WakeOnReturn, events)
<1>1. /\ WakeOnReturn \in RuleIds
      /\ ByRule({PE!PersonPresent, PE!PersonAbsent}, {PE!Returned})[WakeOnReturn] = {PE!Returned}
  BY DEF RuleIds, ByRule, WakeOnReturn, SleepOnAbsent
<1>2. debounceTimers'[WakeOnReturn] # debounceTimers[WakeOnReturn]
  BY DEF WakeArmed
<1>3. evaluated
  BY <1>1, <1>2 DEF AE!HandleEvents
<1>4. events \cap {PE!Returned} # {}
  BY <1>1, <1>3 DEF AE!Evaluates
<1>5. QED
  BY <1>4

\* A return is announced by a frame that reports a face or motion, to an engine
\* that held the person absent or nearly so.
LEMMA ReturnIsSeen ==
  ASSUME EngineInv, NEW frame \in Frames, Dispatch(frame), PE!Returned \in published'
  PROVE  state # "present" /\ frame \in [event : PS!Signals, arg : {"true"}]
<1> USE DEF PE!Returned, PE!PersonPresent
<1>1. state # "present" /\ frame.event \in {"face_visible", "motion"} /\ frame.arg = "true"
  <2>1. CASE frame.event = "face_visible"
    <3>1. PE!FaceVisible(frame.arg = "true")
      BY <2>1 DEF Dispatch
    <3>2. QED
      BY <2>1, <3>1 DEF PE!FaceVisible, PE!RefreshKeepAwake, PE!MaybeArmAbsence
  <2>2. CASE frame.event = "motion"
    <3>1. PE!Motion(frame.arg = "true")
      BY <2>2 DEF Dispatch
    <3>2. QED
      BY <2>2, <3>1 DEF PE!Motion, PE!RefreshKeepAwake, PE!MaybeArmAbsence
  <2>3. CASE frame.event = "gaze_at_screen"
    <3>1. PE!Gaze(frame.arg = "true")
      BY <2>3 DEF Dispatch
    <3>2. lastFaceVisible /\ state # "present"
      BY <3>1 DEF PE!Gaze, PE!RefreshKeepAwake
    <3>3. QED
      BY <3>2 DEF EngineInv, PE!FailToPresent, PE!Clear
  <2>4. CASE frame.event = "camera_state"
    <3>1. PE!CameraReport(frame.arg)
      BY <2>4 DEF Dispatch
    <3>2. QED
      BY <3>1 DEF PE!CameraReport, PE!ForceFailToPresent
  <2>5. CASE frame.event \notin {"face_visible", "motion", "gaze_at_screen", "camera_state"}
    <3>1. PE!NoSensorEvent
      BY <2>5 DEF Dispatch
    <3>2. QED
      BY <3>1 DEF PE!NoSensorEvent
  <2>6. QED
    BY <2>1, <2>2, <2>3, <2>4, <2>5
<1>2. frame \in [event : PS!Signals, arg : {"true", "false"}]
  BY <1>1 DEF Frames
<1>3. QED
  BY <1>1, <1>2

\* A switch arms no debounce.
LEMMA SwitchArmsNothing ==
  ASSUME RuleTimersOK,
         \/ \E on \in BOOLEAN : AE!SetEnabled(on)
         \/ \E r \in RuleIds : AE!EnableRule(r) \/ AE!DisableRule(r) \/ AE!DebounceFires(r)
         \/ AE!AutomationTick
  PROVE  ~WakeArmed
<1>1. WakeOnReturn \in RuleIds /\ debounceTimers \in [RuleIds -> Int]
  BY DEF RuleIds, RuleTimersOK
<1>2. debounceTimers'[WakeOnReturn]
         \in {debounceTimers[WakeOnReturn], -1, AE!Elapse(debounceTimers[WakeOnReturn])}
  BY <1>1 DEF AE!SetEnabled, AE!EnableRule, AE!DisableRule, AE!DebounceFires, AE!AutomationTick,
              AE!NoTimers, AE!Off
<1>3. AE!Elapse(-1) = -1
  BY DEF AE!Elapse
<1>4. QED
  BY <1>2, <1>3 DEF WakeArmed, Pending, Off

\* The display is woken only for a person somebody saw: never by a watchdog, a boot
\* timeout, a camera's error or a switch, whatever the timeouts and whatever the
\* phone sends (presenceEngine.ts:61-99, 171-186, entrypoint.ts).
THEOREM WakeNeedsEvidenceHolds == Spec => WakeNeedsEvidence
<1> DEFINE Evident == WakeArmed =>
                          /\ state # "present"
                          /\ uplink # <<>> /\ uplink' = Tail(uplink)
                          /\ Head(uplink) \in [event : PS!Signals, arg : {"true"}]
<1>1. PipelineInv /\ PipelineTypes /\ Next => Evident
  <2> SUFFICES ASSUME PipelineInv, PipelineTypes, Next, WakeArmed
               PROVE  /\ state # "present"
                      /\ uplink # <<>> /\ uplink' = Tail(uplink)
                      /\ Head(uplink) \in [event : PS!Signals, arg : {"true"}]
    OBVIOUS
  <2>1. RuleTimersOK /\ EngineInv /\ uplink \in Seq(Frames)
    BY DEF PipelineTypes, PipelineInv, UplinkOK
  <2>2. CASE Deliver
    <3>1. uplink # <<>> /\ uplink' = Tail(uplink) /\ Dispatch(Head(uplink))
      BY <2>2 DEF Deliver
    <3>2. AE!HandleEvents(published')
      <4>1. AE!SetEnabled(Head(uplink).arg = "true") \/ AE!HandleEvents(published')
        BY <2>2 DEF Deliver
      <4>2. (Head(uplink).arg = "true") \in BOOLEAN
        OBVIOUS
      <4>3. QED
        BY <2>1, <4>1, <4>2, SwitchArmsNothing
    <3>3. PE!Returned \in published'
      BY <2>1, <3>2, WakeArmedByReturn
    <3>4. Head(uplink) \in Frames
      BY <2>1, <3>1, HeadTailProperties
    <3>5. QED
      BY <2>1, <3>1, <3>3, <3>4, ReturnIsSeen
  <2>3. CASE WatchdogFires \/ BootTimeoutFires \/ AbsenceTimeoutFires
    <3>1. AE!HandleEvents(published')
      BY <2>3 DEF WatchdogFires, BootTimeoutFires, AbsenceTimeoutFires
    <3>2. PE!Returned \notin published'
      BY <2>3 DEF WatchdogFires, BootTimeoutFires, AbsenceTimeoutFires, PE!OnWatchdogTimeout,
                  PE!BootTimeoutFires, PE!AbsenceTimeoutFires, PE!ForceFailToPresent, EngineIdle,
                  PE!NoSensorEvent, PE!Returned, PE!PersonPresent, PE!PersonAbsent
    <3>3. QED
      BY <2>1, <3>1, <3>2, WakeArmedByReturn
  <2>4. CASE (\E r \in RuleIds : DebounceFires(r)) \/ Tick \/ SwitchAutomation
    BY <2>1, <2>4, SwitchArmsNothing DEF DebounceFires, Tick, SwitchAutomation
  <2>5. CASE CoreIdle
    <3>1. AE!HandleEvents({})
      BY <2>5 DEF CoreIdle, AE!AutomationIdle
    <3>2. PE!Returned \in {}
      BY <2>1, <3>1, WakeArmedByReturn
    <3>3. QED
      BY <3>2
  <2>6. Environment \/ (\E a \in ES!Actions : ExecSucceeds(a)) => CoreIdle \/ SwitchAutomation
    BY DEF Environment, CameraBecomes, Observe, AckHeartbeat, Override, SocketOpens, CameraEffect,
           SocketCloses, ExecFails, ExecSucceeds, PhoneStep
  <2>7. QED
    BY <2>2, <2>3, <2>4, <2>5, <2>6 DEF Next, Core
<1>2. PipelineInv /\ PipelineTypes /\ [Next]_vars => [Evident]_vars
  BY <1>1
<1>3. PipelineInv /\ PipelineTypes /\ [Next]_vars => PipelineTypes'
  BY TypesStep, TypesStutter
<1>4. QED
  BY <1>2, <1>3, TypesInit, PipelineInvHolds, PTL DEF Spec, WakeNeedsEvidence
=============================================================================
