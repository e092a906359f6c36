---------------------------- MODULE EnergySaver ----------------------------
(***************************************************************************)
(* The energy-saver plugin, packages/plugins/energy-saver/src/index.ts,    *)
(* and the display it drives.  Each action message starts a child process  *)
(* and awaits it; messages are handled concurrently (workerEntry.ts), so   *)
(* several processes may be under way and finish in any order.  A process  *)
(* takes effect once or fails; a failure is only logged.                   *)
(***************************************************************************)
EXTENDS Naturals

CONSTANT MaxExecs       \* processes of one kind under way at once (a bound of the model)

VARIABLES
    execs,              \* execs[a]: child processes of action a under way
    display             \* the Mac's display: awake or asleep

saverVars == <<execs, display>>

SleepDisplay == "sleep-display"     \* pmset displaysleepnow
WakeDisplay == "wake-display"       \* caffeinate -u -t 2
Actions == {SleepDisplay, WakeDisplay}

Effect(a) == IF a = SleepDisplay THEN "asleep" ELSE "awake"

SaverInit == execs = [a \in Actions |-> 0] /\ display = "awake"

OnAction(a) ==
    /\ execs[a] < MaxExecs
    /\ execs' = [execs EXCEPT ![a] = @ + 1]
    /\ UNCHANGED display

ExecSucceeds(a) ==
    /\ execs[a] > 0
    /\ execs' = [execs EXCEPT ![a] = @ - 1]
    /\ display' = Effect(a)

ExecFails(a) ==
    /\ execs[a] > 0
    /\ execs' = [execs EXCEPT ![a] = @ - 1]
    /\ UNCHANGED display

SaverTypeOK ==
    /\ execs \in [Actions -> 0 .. MaxExecs]
    /\ display \in {"awake", "asleep"}

NoExecs == \A a \in Actions : execs[a] = 0
=============================================================================
