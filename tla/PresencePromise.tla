-------------------------- MODULE PresencePromise --------------------------
(***************************************************************************)
(* What the presence engine promises the rest of the system, without its   *)
(* timers, its two health signals or its intermediate state: a person is   *)
(* declared absent only after a whole window in which nothing spoke for    *)
(* one and the evidence could be trusted, and any evidence or doubt ends   *)
(* the absence in the same step.                                           *)
(***************************************************************************)
EXTENDS Naturals

CONSTANT Window     \* ticks of unbroken quiet that an absence takes

VARIABLES
    absent,         \* is a person declared absent?
    clear,          \* trusted evidence, and none of it speaks for a person
    quiet           \* ticks for which clear has held, up to Window

promiseVars == <<absent, clear, quiet>>

PromiseInit == absent = FALSE /\ clear = FALSE /\ quiet = 0

\* A face, motion, a camera failure or a dead link.
Doubt ==
    /\ absent' = FALSE
    /\ clear' = FALSE
    /\ quiet' = 0

\* The last sign of a person goes, or the evidence becomes trustworthy.
BecomeClear ==
    /\ ~clear
    /\ clear' = TRUE
    /\ UNCHANGED <<absent, quiet>>

QuietTick ==
    /\ clear
    /\ quiet' = IF quiet < Window THEN quiet + 1 ELSE Window
    /\ UNCHANGED <<absent, clear>>

DeclareAbsent ==
    /\ clear /\ quiet = Window
    /\ absent' = TRUE
    /\ UNCHANGED <<clear, quiet>>

PromiseNext == Doubt \/ BecomeClear \/ QuietTick \/ DeclareAbsent

PromiseSpec == PromiseInit /\ [][PromiseNext]_promiseVars
=============================================================================
