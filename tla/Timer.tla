------------------------------- MODULE Timer -------------------------------
(***************************************************************************)
(* One-shot JavaScript timers as countdowns.  A timer variable holds the   *)
(* ticks left before its callback may run, or Off when no callback is      *)
(* pending.  setTimeout promises "not before", never "at": a timer that    *)
(* has reached 0 is due but may stay due while time goes on.               *)
(***************************************************************************)
EXTENDS Integers

Off == -1                          \* no callback pending (never set, cleared, or fired)

Countdown(limit) == Off .. limit   \* the values of a timer set to at most limit ticks

Pending(timer) == timer # Off

Due(timer) == timer = 0

Elapse(timer) == IF timer > 0 THEN timer - 1 ELSE timer
=============================================================================
