-------------------------- MODULE WatchdogHistory --------------------------
(***************************************************************************)
(* The watchdog on its own, with three history variables: how long it has  *)
(* been since the last pulse or (re)start, how often the silence since the *)
(* last pulse has been reported, and whether the watchdog is wanted.       *)
(***************************************************************************)
EXTENDS Watchdog

VARIABLES
    silence,        \* ticks since the timer was last armed, up to WatchdogTimeout
    reports,        \* calls of onMissed since the last pulse
    watching        \* started or pulsed, and not stopped since

watchdogHistoryVars == <<watchdogVars, silence, reports, watching>>

WatchdogHistoryInit == WatchdogInit /\ silence = 0 /\ reports = 0 /\ watching = FALSE

StartsAnew == Start /\ silence' = 0 /\ watching' = TRUE /\ UNCHANGED reports

Stops == Stop /\ watching' = FALSE /\ UNCHANGED <<silence, reports>>

IsPulsed == Pulse /\ silence' = 0 /\ reports' = 0 /\ watching' = TRUE

Expires ==
    /\ WatchdogFires
    /\ reports' = IF missed' THEN reports + 1 ELSE reports
    /\ UNCHANGED <<silence, watching>>

WatchdogTimePasses ==
    /\ WatchdogTick
    /\ silence' = IF silence < WatchdogTimeout THEN silence + 1 ELSE WatchdogTimeout
    /\ UNCHANGED <<reports, watching>>

WatchdogHistoryNext == StartsAnew \/ Stops \/ IsPulsed \/ Expires \/ WatchdogTimePasses

\* Time does not stand still and Node runs a due callback.
WatchdogSpec ==
    /\ WatchdogHistoryInit
    /\ [][WatchdogHistoryNext]_watchdogHistoryVars
    /\ WF_watchdogHistoryVars(WatchdogTimePasses)
    /\ WF_watchdogHistoryVars(Expires)

-----------------------------------------------------------------------------

\* The timer never runs ahead of the silence it measures, firedThisSilence remembers
\* across restarts that this silence has been reported, and a watchdog that is wanted
\* has its timer set until it has reported (watchdog.ts:7-34).
WatchdogInv ==
    /\ WatchdogTypeOK
    /\ silence \in 0 .. WatchdogTimeout
    /\ Pending(watchdogTimer) => silence + watchdogTimer >= WatchdogTimeout
    /\ reports = IF firedThisSilence THEN 1 ELSE 0
    /\ watching \in BOOLEAN
    /\ watching => Pending(watchdogTimer) \/ firedThisSilence

\* A silence is reported at most once, however often the watchdog is started
\* again before the next pulse (watchdog.ts:20-28).
ReportedOnce == reports <= 1

\* onMissed is called only after a whole timeout without a message: no pulse,
\* start or stop leaves an older, shorter deadline behind.
ReportIsEarned ==
    [][missed' => silence = WatchdogTimeout /\ ~firedThisSilence]_watchdogHistoryVars

\* A silence is reported in the end, by a call of onMissed: only a message, another
\* start or stop() ends the wait.  That the timer has expired is not enough, nor is the
\* flag that the callback sets (watchdog.ts:7-34).
SilenceIsReported ==
    (watching /\ silence > 0) ~> (reports = 1 \/ silence = 0 \/ ~watching)
=============================================================================
