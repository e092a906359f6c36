-------------------------- MODULE PresenceHistory --------------------------
(***************************************************************************)
(* The presence engine with one history variable, quiet: for how many      *)
(* ticks the engine has known of no person and trusted its evidence.  No   *)
(* action reads it; it is what the refinement of PresencePromise needs to  *)
(* see that an absence has been earned.                                    *)
(***************************************************************************)
EXTENDS PresenceEngine

VARIABLE quiet

historyVars == <<vars, quiet>>

HistoryInit == Init /\ quiet = 0

\* Any operation that ends with doubt starts the window afresh.
HistoryOperation ==
    /\ Operation
    /\ quiet' = IF Clear' THEN quiet ELSE 0

HistoryTick ==
    /\ Tick
    /\ quiet' = IF ~Clear THEN 0
                ELSE IF quiet < AbsenceTimeout THEN quiet + 1 ELSE AbsenceTimeout

HistoryNext == HistoryOperation \/ HistoryTick

HistorySpec ==
    /\ HistoryInit
    /\ [][HistoryNext]_historyVars
    /\ WF_historyVars(HistoryTick)
    /\ WF_historyVars(AbsenceTimeoutFires /\ quiet' = quiet)

-----------------------------------------------------------------------------

HistoryTypeOK == TypeOK /\ quiet \in 0 .. AbsenceTimeout

\* While the absence timer runs, the quiet so far and the ticks the timer still
\* wants make up the whole window: the timer was never set from a stale edge
\* or carried over a doubt.
TimerMeasuresQuiet == Pending(absenceTimer) => quiet + absenceTimer >= AbsenceTimeout

\* The inductive invariant of the proofs.
HistoryInv ==
    /\ HistoryTypeOK
    /\ FailToPresent
    /\ MaybeAbsentHasTimer
    /\ TimerMeasuresQuiet
    /\ ~Clear => quiet = 0

Promise == INSTANCE PresencePromise WITH
    Window <- AbsenceTimeout,
    absent <- state = "absent",
    clear <- Clear

\* The engine keeps the promise: every step is a step of PresencePromise or
\* leaves what the promise speaks of alone (presenceEngine.ts:154-185).
KeepsPromise == Promise!PromiseSpec
=============================================================================
