------------------------------ MODULE Watchdog ------------------------------
(***************************************************************************)
(* The link watchdog, packages/core/src/watchdog.ts: a one-shot timer that *)
(* every client message pushes back, and that reports a silence once.      *)
(* missed says whether the last step called onMissed.                      *)
(***************************************************************************)
EXTENDS Timer

CONSTANT WatchdogTimeout        \* config.watchdogTimeoutMs, in ticks

ASSUME WatchdogAssumption == WatchdogTimeout \in Nat \ {0}

VARIABLES watchdogTimer, firedThisSilence, missed

watchdogVars == <<watchdogTimer, firedThisSilence, missed>>

WatchdogInit == watchdogTimer = Off /\ firedThisSilence = FALSE /\ missed = FALSE

Start ==
    /\ watchdogTimer' = WatchdogTimeout
    /\ missed' = FALSE
    /\ UNCHANGED firedThisSilence

\* Not called by the core; firedThisSilence survives it.
Stop ==
    /\ watchdogTimer' = Off
    /\ missed' = FALSE
    /\ UNCHANGED firedThisSilence

\* Mutant: a pulse that does not start the timer again.
PulseWithoutArming ==
    /\ UNCHANGED watchdogTimer
    /\ firedThisSilence' = FALSE
    /\ missed' = FALSE

Pulse ==
    /\ watchdogTimer' = WatchdogTimeout
    /\ firedThisSilence' = FALSE
    /\ missed' = FALSE

\* Mutant: the flag is set before it is tested, so that no expiry is reported.
MarksFirst ==
    /\ Due(watchdogTimer)
    /\ watchdogTimer' = Off
    /\ firedThisSilence' = TRUE
    /\ missed' = ~firedThisSilence'

\* The timer is not armed again: only the next pulse does that.
WatchdogFires ==
    /\ Due(watchdogTimer)
    /\ watchdogTimer' = Off
    /\ firedThisSilence' = TRUE
    /\ missed' = ~firedThisSilence

\* A step of the rest of the core that says nothing to the watchdog.
WatchdogIdle == missed' = FALSE /\ UNCHANGED <<watchdogTimer, firedThisSilence>>

WatchdogTick ==
    /\ watchdogTimer' = Elapse(watchdogTimer)
    /\ missed' = FALSE
    /\ UNCHANGED firedThisSilence

WatchdogTypeOK ==
    /\ watchdogTimer \in Countdown(WatchdogTimeout)
    /\ firedThisSilence \in BOOLEAN
    /\ missed \in BOOLEAN
=============================================================================
