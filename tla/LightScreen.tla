---------------------------- MODULE LightScreen -----------------------------
(***************************************************************************)
(* The brightness of the phone's window while LightScreen.tsx comes and    *)
(* goes: turned up on mounting and restored on unmounting, to a level that *)
(* the native module is asked for and may tell too late.                   *)
(*                                                                         *)
(* Calls of the native module run one by one, in the order made, and its   *)
(* promises are answered in that order.  PhoneScreens says when the screen *)
(* is mounted; here it is at any time.                                     *)
(***************************************************************************)
EXTENDS Naturals, Sequences

CONSTANTS
    Visits,         \* names for visits to the light screen
    NativeFails     \* may the activity be gone when brightness is asked for?

ASSUME LightAssumption == NativeFails \in BOOLEAN

VARIABLES
    mounted,        \* the visit on screen, if any
    asking,         \* visits whose getBrightnessLevel is not answered
    prior,          \* priorBrightnessRef of each visit
    native,         \* calls under way to the native module
    answers,        \* answers under way to JavaScript
    level,          \* the window's brightness
    raced, refused  \* history: a visit began before an earlier one had its
                    \* answer; the native module refused a call

lightVars == <<mounted, asking, prior, native, answers, level, raced, refused>>

NoLevel == "unknown"
MaxLevel == "max"
UsersLevel == "user"     \* whatever the phone's brightness is without this screen

Call(op, arg) == [op |-> op, arg |-> arg]

LightInit ==
    /\ mounted = {} /\ asking = {} /\ prior = [v \in Visits |-> NoLevel]
    /\ native = <<>> /\ answers = <<>> /\ level = UsersLevel
    /\ raced = FALSE /\ refused = FALSE

\* Mutant: the level is set before it is asked for.
SetsFirst(v) == native' = native \o <<Call("set", MaxLevel), Call("get", v)>>

AsksAndSets(v) == native' = native \o <<Call("get", v), Call("set", MaxLevel)>>

\* The mount effect.  A visit that has left keeps its name until it is answered.
Mounts(v) ==
    /\ mounted = {} /\ v \notin asking
    /\ mounted' = {v} /\ asking' = asking \cup {v}
    /\ prior' = [prior EXCEPT ![v] = NoLevel]
    /\ AsksAndSets(v)
    /\ raced' = (raced \/ asking # {})
    /\ UNCHANGED <<answers, level, refused>>

\* The cleanup: what is not known yet cannot be restored yet.
Unmounts(v) ==
    /\ v \in mounted /\ mounted' = {}
    /\ native' = IF prior[v] = NoLevel THEN native ELSE Append(native, Call("set", prior[v]))
    /\ UNCHANGED <<asking, prior, answers, level, raced, refused>>

\* BrightnessModule.kt, on the UI thread.
NativeRuns(call) ==
    IF call.op = "set"
    THEN level' = call.arg /\ UNCHANGED <<answers, refused>>
    ELSE /\ answers' = Append(answers, [visit |-> call.arg, level |-> level])
         /\ UNCHANGED <<level, refused>>

\* No current activity: get is rejected, set does nothing.
NativeRefuses(call) ==
    /\ NativeFails /\ refused' = TRUE /\ UNCHANGED level
    /\ answers' = IF call.op = "set" THEN answers
                  ELSE Append(answers, [visit |-> call.arg, level |-> NoLevel])

NativeCall ==
    /\ native # <<>> /\ native' = Tail(native)
    /\ NativeRuns(Head(native)) \/ NativeRefuses(Head(native))
    /\ UNCHANGED <<mounted, asking, prior, raced>>

\* The promise: the screen may be gone by then, and the level is restored at once.
LevelAnswered ==
    /\ answers # <<>> /\ answers' = Tail(answers)
    /\ LET visit == Head(answers).visit
           was == Head(answers).level
       IN /\ asking' = asking \ {visit}
          /\ prior' = [prior EXCEPT ![visit] = was]
          /\ native' = IF visit \in mounted \/ was = NoLevel
                       THEN native
                       ELSE Append(native, Call("set", was))
    /\ UNCHANGED <<mounted, level, raced, refused>>

LightNext ==
    \/ \E v \in Visits : Mounts(v) \/ Unmounts(v)
    \/ NativeCall
    \/ LevelAnswered

LightSpec == LightInit /\ [][LightNext]_lightVars

-----------------------------------------------------------------------------

\* Every call has run and every promise is answered.
BrightnessSettled == native = <<>> /\ answers = <<>>

\* Once things have settled the window is at its maximum on the light screen and
\* as it was before on every other, however quickly the screen is left, unless a
\* call was refused or a visit began while an earlier one awaited its answer
\* (LightScreen.tsx:46-73).
BrightnessFollowsTheLight ==
    BrightnessSettled /\ ~refused /\ ~raced => level = IF mounted = {} THEN UsersLevel ELSE MaxLevel

\* LightScreen.tsx:46-48: force OS brightness to max on mount, restore the phone's
\* own prior brightness on unmount.
BrightnessIsRestored == BrightnessSettled /\ mounted = {} => level = UsersLevel
=============================================================================
