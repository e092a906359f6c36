------------------------------ MODULE MCCore ------------------------------
(***************************************************************************)
(* Components of the core that are checked on their own, for MCMac.  They  *)
(* share no state here: part says which of them moves in a behaviour, and  *)
(* the others stay as they are.                                            *)
(*                                                                         *)
(* The automation engine has three rules over two event names.  Two listen *)
(* to person_present with opposite conditions, one of which throws on      *)
(* malformed data, as the engine allows though no rule of main.ts does;    *)
(* the third listens to presence.returned and has no debounce.             *)
(***************************************************************************)
EXTENDS PresenceHistory, WatchdogHistory, AutomationHistory, WorkerHost,
        PluginPermissions

VARIABLE part

RuleSet == {"sleep", "greet", "wake"}
PersonPresentEvents == {"absent", "present", "malformed"}
EventSet == PersonPresentEvents \cup {"returned"}

ListensTo == [r \in RuleSet |-> IF r = "wake" THEN {"returned"} ELSE PersonPresentEvents]
HoldsOf == [sleep |-> {"absent"}, greet |-> {"present"}, wake |-> {"returned"}]
ThrowsOn == [sleep |-> {"malformed"}, greet |-> {}, wake |-> {}]
DebounceOf == [sleep |-> 6, greet |-> 3, wake |-> 0]

engineParts == <<historyVars, watchdogHistoryVars, automationHistoryVars>>
corePartVars == <<engineParts, workerHostVars, permissionVars>>

CoreParts == {"presence", "watchdog", "automation", "worker", "permissions"}

CoreInit ==
    /\ HistoryInit /\ WatchdogHistoryInit /\ AutomationHistoryInit
    /\ HostInit /\ PermissionsInit

EngineNext ==
    \/ /\ part = "presence" /\ HistoryNext
       /\ UNCHANGED <<watchdogHistoryVars, automationHistoryVars>>
    \/ /\ part = "watchdog" /\ WatchdogHistoryNext
       /\ UNCHANGED <<historyVars, automationHistoryVars>>
    \/ /\ part = "automation" /\ AutomationHistoryNext
       /\ UNCHANGED <<historyVars, watchdogHistoryVars>>

CoreNext ==
    \/ EngineNext /\ UNCHANGED <<workerHostVars, permissionVars>>
    \/ part = "worker" /\ HostNext /\ UNCHANGED <<engineParts, permissionVars>>
    \/ part = "permissions" /\ PermissionsNext /\ UNCHANGED <<engineParts, workerHostVars>>

\* The fairness of each component's own specification, for the part that moves.
PresenceFairness ==
    /\ WF_historyVars(part = "presence" /\ HistoryTick)
    /\ WF_historyVars(part = "presence" /\ AbsenceTimeoutFires /\ quiet' = quiet)

WatchdogFairness ==
    /\ WF_watchdogHistoryVars(part = "watchdog" /\ WatchdogTimePasses)
    /\ WF_watchdogHistoryVars(part = "watchdog" /\ Expires)

AutomationFairness ==
    /\ WF_automationHistoryVars(part = "automation" /\ RulesTimePass)
    /\ \A r \in Rules : WF_automationHistoryVars(part = "automation" /\ RuleFires(r))

WorkerFairness ==
    /\ \A w \in Workers :
          /\ WF_workerHostVars(part = "worker" /\ HandleMessage(w))
          /\ WF_workerHostVars(part = "worker" /\ HandleExit(w))
    /\ \A n \in 1 .. MaxRestarts : WF_workerHostVars(part = "worker" /\ Respawns(n))
    /\ \A c \in Calls : WF_workerHostVars(part = "worker" /\ DeadlineFires(c))
    /\ WF_workerHostVars(part = "worker" /\ HostTick)

CoreFairness ==
    PresenceFairness /\ WatchdogFairness /\ AutomationFairness /\ WorkerFairness
=============================================================================
