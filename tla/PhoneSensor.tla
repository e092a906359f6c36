---------------------------- MODULE PhoneSensor ----------------------------
(***************************************************************************)
(* The phone's sensor side: CameraPresence.tsx announces the camera's      *)
(* state and reports signals as edges only, through edgeEmitter.ts.        *)
(*                                                                         *)
(* The dwell time of edgeEmitter.ts only delays a change to a later frame; *)
(* here a changed signal may or may not be emitted, except in the first    *)
(* observation after a reset, which emits every signal.  A frame that was  *)
(* on its way from the camera's thread when the camera went is still       *)
(* observed; of several, the dwell time keeps all but the first silent.    *)
(***************************************************************************)
EXTENDS Lists

CONSTANTS
    SignalOrder,    \* the reported signals, in the order handleObservation sends
    CameraStates    \* what the camera effect can find: subsets of
                    \* {"active", "error", "released", "pending"}

VARIABLES
    camera,         \* enabled, permission and device taken together; pending
                    \* is an enabled camera that is not ready yet
    connectedOnce,  \* connectionEpoch # 0
    observed,       \* FALSE while edgeStateRef.lastEmitted is null
    lastEmitted,    \* the value last emitted for each signal
    inFlight        \* an observation is still to come from a camera that is off

phoneVars == <<camera, connectedOnce, observed, lastEmitted, inFlight>>

Signals == {SignalOrder[i] : i \in DOMAIN SignalOrder}

Frame(event, arg) == [event |-> event, arg |-> arg]

AsText(b) == IF b THEN "true" ELSE "false"

NothingEmitted == [s \in Signals |-> FALSE]

PhoneInit ==
    /\ camera \in CameraStates
    /\ connectedOnce = FALSE
    /\ observed = FALSE
    /\ lastEmitted = NothingEmitted
    /\ inFlight = FALSE

\* What the camera effect announces for a camera in state c.
Announcement(c) ==
    IF c = "pending" THEN <<>> ELSE <<Frame("camera_state", c)>>

\* The effect of CameraPresence.tsx, re-run when the camera's state changes or
\* the connection is new: the edge memory is reset either way.
ResetEdges == observed' = FALSE /\ lastEmitted' = NothingEmitted

\* The effect runs twice when the switch is turned: for the switch, and for the
\* lifecycle that follows it.  React may render a new connection with the change.
CameraBecomes(c, epoch) ==
    /\ c # camera \/ c \in {"released", "pending"}
    /\ camera' = c
    /\ ResetEdges
    /\ inFlight' = (c # "active" /\ (camera = "active" \/ inFlight))
    /\ connectedOnce' = (connectedOnce \/ epoch)

AnnouncedByChange(c) == IF connectedOnce' THEN Announcement(c) ELSE <<>>

NewEpoch ==
    /\ connectedOnce' = TRUE
    /\ ResetEdges
    /\ UNCHANGED <<camera, inFlight>>

\* handleObservation: the signals in `edges' are emitted with the values seen.
Observation(seen, edges) ==
    /\ camera = "active" \/ inFlight
    /\ IF observed
       THEN edges \subseteq {s \in Signals : seen[s] # lastEmitted[s]}
       ELSE edges = Signals
    /\ observed' = TRUE
    /\ lastEmitted' = [s \in Signals |-> IF s \in edges THEN seen[s] ELSE lastEmitted[s]]
    /\ inFlight' = FALSE
    /\ UNCHANGED <<camera, connectedOnce>>

EdgeFrames(seen, edges) ==
    LET emitted == Without(SignalOrder, Signals \ edges)
    IN [i \in DOMAIN emitted |-> Frame(emitted[i], AsText(seen[emitted[i]]))]

PhoneNext ==
    \/ \E c \in CameraStates, epoch \in BOOLEAN : CameraBecomes(c, epoch)
    \/ NewEpoch
    \/ \E seen \in [Signals -> BOOLEAN], edges \in SUBSET Signals : Observation(seen, edges)

PhoneSpec == PhoneInit /\ [][PhoneNext]_phoneVars

PhoneTypeOK ==
    /\ camera \in CameraStates
    /\ connectedOnce \in BOOLEAN
    /\ observed \in BOOLEAN
    /\ lastEmitted \in [Signals -> BOOLEAN]
    /\ inFlight \in BOOLEAN
=============================================================================
