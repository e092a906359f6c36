-------------------------- MODULE TunnelSupervisor --------------------------
(***************************************************************************)
(* The tunnel supervisor and the adb runner below it                       *)
(* (packages/core/src/tunnelSupervisor.ts, adbRunner.ts), with the         *)
(* commands of the control channel (controlChannel.ts).  What the Device   *)
(* pane shows may be stale, so a command may come in any state.            *)
(*                                                                         *)
(* adb is external.  `adb track-devices' writes the whole list of devices  *)
(* at every change; a chunk the core reads may hold several lists.         *)
(* `adb reverse' names no device, so it works only when exactly one is     *)
(* plugged in; a reversed port is gone once the phone is unplugged.  Calls *)
(* overlap and end in any order: running counts the child processes.       *)
(***************************************************************************)
EXTENDS Integers, Sequences, FiniteSets, Functions

CONSTANTS
    Phones,         \* serials of the phones that may be plugged in
    None,           \* the null serial
    MaxLists,       \* bound: device lists written and not yet read
    MaxAdb          \* bound: adb child processes at a time

ASSUME TunnelAssumption ==
    /\ IsFiniteSet(Phones) /\ None \notin Phones
    /\ MaxLists \in Nat \ {0} /\ MaxAdb \in Nat \ {0}

VARIABLES
    plugged,        \* phones on the USB port
    tunnelled,      \* phones whose port is reversed to the Mac's
    pipe,           \* lists that adb has written and the core has not read
    previouslySeen,
    serial,
    tunnelStatus,
    appLaunchStatus,
    launchAppOnDock,
    running,        \* running[c]: child processes of call c
    hidden          \* history: phones whose unplugging a merged chunk hid

usbVars == <<plugged, tunnelled, pipe>>
readerVars == <<previouslySeen, hidden>>
statusVars == <<serial, tunnelStatus, appLaunchStatus, launchAppOnDock>>
tunnelVars == <<usbVars, readerVars, statusVars, running>>

Serials == Phones \cup {None}
ReverseCall(manual) == [cmd |-> "reverse", manual |-> manual, to |-> None]
LaunchCall(to) == [cmd |-> "launch", manual |-> FALSE, to |-> to]
ReverseCalls == {ReverseCall(m) : m \in BOOLEAN}
LaunchCalls == {LaunchCall(s) : s \in Serials}
AdbCalls == ReverseCalls \cup LaunchCalls

\* Room for n more child processes: the bound of the model.
RoomFor(n) == SumFunction(running) + n <= MaxAdb

TunnelInit ==
    /\ plugged = {} /\ tunnelled = {} /\ pipe = <<>>
    /\ previouslySeen = {} /\ hidden = {}
    /\ serial = None /\ tunnelStatus = "idle" /\ appLaunchStatus = "idle"
    /\ launchAppOnDock \in BOOLEAN
    /\ running = [c \in AdbCalls |-> 0]

-----------------------------------------------------------------------------
(* The USB port and the track-devices process. *)

WriteList == Len(pipe) < MaxLists /\ pipe' = Append(pipe, plugged')

PlugIn(p) ==
    /\ p \notin plugged
    /\ plugged' = plugged \cup {p}
    /\ WriteList
    /\ UNCHANGED <<tunnelled, readerVars, statusVars, running>>

Unplug(p) ==
    /\ p \in plugged
    /\ plugged' = plugged \ {p}
    /\ tunnelled' = tunnelled \ {p}
    /\ WriteList
    /\ UNCHANGED <<readerVars, statusVars, running>>

\* The lists of a chunk are taken as one.  Each line of a phone that was not
\* known before the chunk is an attach event, and starts a reissue; then a
\* detach event of any phone clears the serial.
\* Mutant: no reissue for a tunnel that is up.
AttachUnlessReissued(events) ==
    /\ RoomFor(events)
    /\ running' = [running EXCEPT ![ReverseCall(FALSE)] =
                      IF tunnelStatus = "reissued" THEN @ ELSE @ + events]

Attach(events) ==
    /\ RoomFor(events)
    /\ running' = [running EXCEPT ![ReverseCall(FALSE)] = @ + events]

NewSerial(last, gone) ==
    serial' \in IF gone # {} THEN {None} ELSE IF last # {} THEN last ELSE {serial}

ReadChunk(n) ==
    LET lists == {pipe[i] : i \in 1 .. n}
        seenNow == UNION lists
        attached == {a \in (1 .. n) \X Phones : a[2] \in pipe[a[1]] \ previouslySeen}
        last == {a[2] : a \in {b \in attached : \A c \in attached : c[1] <= b[1]}}
        gone == previouslySeen \ seenNow
    IN  /\ previouslySeen' = seenNow
        /\ pipe' = SubSeq(pipe, n + 1, Len(pipe))
        /\ Attach(Cardinality(attached))
        /\ NewSerial(last, gone)
        /\ hidden' = {p \in seenNow : p \notin pipe[n]} \cup
                     ((hidden \cup {p \in seenNow : \E list \in lists : p \notin list})
                        \ (gone \cup (seenNow \ previouslySeen)))
        /\ UNCHANGED <<plugged, tunnelled, tunnelStatus, appLaunchStatus, launchAppOnDock>>

-----------------------------------------------------------------------------
(* The adb child processes. *)

Starts(call) == RoomFor(1) /\ running' = [running EXCEPT ![call] = @ + 1]
Ends(call) == [running EXCEPT ![call] = @ - 1]

\* After a reissue that a dock started, however it ended, the app is launched on
\* the phone whose serial is known by now.
\* Mutant: the launch that waits for a tunnel that is up.
LaunchIfReissued(call, ok) ==
    running' = IF ~call.manual /\ launchAppOnDock /\ ok
               THEN [Ends(call) EXCEPT ![LaunchCall(serial)] = @ + 1]
               ELSE Ends(call)

OnAttachContinues(call, ok) ==
    running' = IF ~call.manual /\ launchAppOnDock
               THEN [Ends(call) EXCEPT ![LaunchCall(serial)] = @ + 1]
               ELSE Ends(call)

ReverseEnds(call, ok) ==
    /\ running[call] > 0
    /\ ok => Cardinality(plugged) = 1
    /\ tunnelled' = IF ok THEN plugged ELSE tunnelled
    /\ tunnelStatus' = IF ok THEN "reissued" ELSE "failed"
    /\ OnAttachContinues(call, ok)
    /\ UNCHANGED <<plugged, pipe, readerVars, serial, appLaunchStatus, launchAppOnDock>>

LaunchEnds(call, ok) ==
    /\ running[call] > 0
    /\ ok => IF call.to = None THEN Cardinality(plugged) = 1 ELSE call.to \in plugged
    /\ appLaunchStatus' = IF ok THEN "launched" ELSE "failed"
    /\ running' = Ends(call)
    /\ UNCHANGED <<usbVars, readerVars, serial, tunnelStatus, launchAppOnDock>>

-----------------------------------------------------------------------------
(* The commands of the control channel. *)

ReissueTunnel == Starts(ReverseCall(TRUE)) /\ UNCHANGED <<usbVars, readerVars, statusVars>>

LaunchApp == Starts(LaunchCall(serial)) /\ UNCHANGED <<usbVars, readerVars, statusVars>>

SetLaunchAppOnDock(enabled) ==
    /\ launchAppOnDock' = enabled
    /\ UNCHANGED <<usbVars, readerVars, serial, tunnelStatus, appLaunchStatus, running>>

-----------------------------------------------------------------------------

Usb == \E p \in Phones : PlugIn(p) \/ Unplug(p)

ReadsSome == \E n \in 1 .. Len(pipe) : ReadChunk(n)

SomeCallEnds ==
    \E ok \in BOOLEAN :
        \/ \E call \in ReverseCalls : ReverseEnds(call, ok)
        \/ \E call \in LaunchCalls : LaunchEnds(call, ok)

Commands ==
    \/ ReissueTunnel
    \/ LaunchApp
    \/ \E enabled \in BOOLEAN : SetLaunchAppOnDock(enabled)

TunnelNext == Usb \/ ReadsSome \/ SomeCallEnds \/ Commands

\* adb's processes end; nobody has to plug in, press or even read.
TunnelFairness ==
    /\ \A call \in ReverseCalls : WF_tunnelVars(\E ok \in BOOLEAN : ReverseEnds(call, ok))
    /\ \A call \in LaunchCalls : WF_tunnelVars(\E ok \in BOOLEAN : LaunchEnds(call, ok))

TunnelSpec == TunnelInit /\ [][TunnelNext]_tunnelVars /\ TunnelFairness

-----------------------------------------------------------------------------

TunnelTypeOK ==
    /\ plugged \subseteq Phones /\ tunnelled \subseteq plugged
    /\ pipe \in Seq(SUBSET Phones)
    /\ previouslySeen \subseteq Phones /\ hidden \subseteq previouslySeen
    /\ launchAppOnDock \in BOOLEAN
    /\ serial \in Serials
    /\ tunnelStatus \in {"idle", "reissued", "failed"}
    /\ appLaunchStatus \in {"idle", "launched", "failed"}
    /\ running \in [AdbCalls -> Nat]

\* adb is never sent to a phone the tracker does not list, whatever the order
\* of attaches, detaches and commands (tunnelSupervisor.ts:35-44, 91-93).
SerialIsListed == serial # None => serial \in previouslySeen

Settled == pipe = <<>> /\ \A c \in ReverseCalls : running[c] = 0

\* Once every list is read and every reissue has ended, `reissued' is true of
\* the phone that is docked alone, however its docking, other phones and other
\* reissues overlapped, unless a merged chunk hid that it was unplugged
\* (tunnelSupervisor.ts:50-85, adbRunner.ts:36-47).
ReissuedIsTrue ==
    Settled /\ tunnelStatus = "reissued"
        => \A p \in Phones \ hidden : plugged = {p} => p \in tunnelled

\* Without that exception: the tunnel is "re-issued automatically on every replug -- no
\* manual step" (SETUP.md:113-115; adbRunner.ts:35-47).
ReplugIsReissued ==
    Settled /\ tunnelStatus = "reissued"
        => \A p \in Phones : plugged = {p} => p \in tunnelled

\* While the switch stays on, the reissue of a docking leads to a launch, also
\* when it fails (tunnelSupervisor.ts:50-53).
DockLeadsToLaunch ==
    (running[ReverseCall(FALSE)] > 0)
        ~> (~launchAppOnDock \/ \E s \in Serials : running[LaunchCall(s)] > 0)

\* The supervisor's view of the phones is one that adb has had, and what it reports
\* of the tunnel is so (tunnelSupervisor.ts:35-93).
TunnelInv == TunnelTypeOK /\ SerialIsListed /\ ReissuedIsTrue
=============================================================================
