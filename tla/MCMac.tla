------------------------------- MODULE MCMac -------------------------------
(***************************************************************************)
(* Five components of the Mac side, and those of the core (MCCore), in one *)
(* run.  They share no state here: part picks, at the start, which of them *)
(* moves in a behaviour, and the others stay as they are.                  *)
(***************************************************************************)
EXTENDS MCCore, TunnelSupervisor, SettingsWindow, LogPane, TrayMenu, ConfigFile

Running == <<0, 2, 1>>
Reported == {<<0, 1, 9>>, <<0, 2, 1>>, <<0, 2, 2>>, <<1, 0, 0>>}

TwoPlugins == <<"stats", "saver">>
Widgets == <<"clock">>
ByHand ==
    { Config(<<"stats", "hello", "stats", "stats">>, Widgets, 6),
      Config(<<"saver">>, <<"clock", "clock">>, 1) }

restVars == <<logVars, trayVars, configFileVars>>
ownVars == <<tunnelVars, windowVars, restVars>>
macVars == <<part, corePartVars, ownVars>>

\* A part that does not move has one initial state only.
MacInit ==
    /\ part \in CoreParts \cup {"tunnel", "window", "log", "tray", "file"}
    /\ CoreInit
    /\ TunnelInit /\ WindowInit /\ LogInit /\ TrayInit
    /\ ConfigFileInit
    /\ part # "tunnel" => launchAppOnDock
    /\ part # "window" => installed = [s \in Switches |-> FALSE]

RestNext ==
    \/ part = "log" /\ LogNext /\ UNCHANGED <<trayVars, configFileVars>>
    \/ part = "tray" /\ TrayNext /\ UNCHANGED <<logVars, configFileVars>>
    \/ part = "file" /\ ConfigFileNext /\ UNCHANGED <<logVars, trayVars>>

OwnNext ==
    \/ part = "tunnel" /\ TunnelNext /\ UNCHANGED <<windowVars, restVars>>
    \/ part = "window" /\ WindowNext /\ UNCHANGED <<tunnelVars, restVars>>
    \/ RestNext /\ UNCHANGED <<tunnelVars, windowVars>>

MacNext ==
    \/ CoreNext /\ UNCHANGED <<part, ownVars>>
    \/ OwnNext /\ UNCHANGED <<part, corePartVars>>

\* The fairness of TunnelSpec and WindowSpec, for the part that moves.
MacFairness ==
    /\ \A call \in ReverseCalls :
          WF_tunnelVars(part = "tunnel" /\ \E ok \in BOOLEAN : ReverseEnds(call, ok))
    /\ \A call \in LaunchCalls :
          WF_tunnelVars(part = "tunnel" /\ \E ok \in BOOLEAN : LaunchEnds(call, ok))
    /\ WF_windowVars(part = "window" /\ MainHandles)
    /\ WF_windowVars(part = "window" /\ SnapshotInterval)

MacSpec == MacInit /\ [][MacNext]_macVars /\ CoreFairness /\ MacFairness
=============================================================================
