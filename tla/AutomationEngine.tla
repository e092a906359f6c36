-------------------------- MODULE AutomationEngine --------------------------
(***************************************************************************)
(* The rule engine, packages/core/src/automationEngine.ts: each rule       *)
(* listens to one event name and, when its condition holds of the event,   *)
(* arms a debounce timer whose callback invokes the rule's action.         *)
(*                                                                         *)
(* Conditions are closures over the event's data; here each rule comes     *)
(* with the events it is evaluated on and those its condition holds of.    *)
(* A step may publish several events, but a rule listens to one name and   *)
(* no step publishes a name twice, so the order in which one step's events *)
(* reach the engine cannot matter and HandleEvents takes them as a set.    *)
(***************************************************************************)
EXTENDS Timer

CONSTANTS
    Rules,          \* rule ids
    Events,         \* events, each a name with its data
    Listens,        \* Listens[r]: the events that carry rule r's eventName
    Condition,      \* Condition[r]: those of them rule r's condition holds of
    Throws,         \* Throws[r]: those on which evaluating the condition throws
    Debounce        \* Debounce[r]: rule r's debounceMs, in ticks

ASSUME RulesAssumption ==
    /\ Listens \in [Rules -> SUBSET Events]
    /\ Condition \in [Rules -> SUBSET Events]
    /\ Throws \in [Rules -> SUBSET Events]
    /\ \A r \in Rules : Condition[r] \cap Throws[r] = {}
    /\ Debounce \in [Rules -> Nat]

VARIABLES
    enabled,            \* the automation switch
    disabledRuleIds,
    debounceTimers,     \* debounceTimers[r]: Off when the map has no entry for r
    invoked             \* rules whose action the last step invoked

automationVars == <<enabled, disabledRuleIds, debounceTimers, invoked>>

NoTimers == [r \in Rules |-> Off]

AutomationInit ==
    /\ enabled = TRUE
    /\ disabledRuleIds = {}
    /\ debounceTimers = NoTimers
    /\ invoked = {}

\* Mutant: switching off leaves the debounces running.
SetEnabledOnly(on) ==
    /\ enabled' = on
    /\ invoked' = {}
    /\ UNCHANGED <<disabledRuleIds, debounceTimers>>

SetEnabled(on) ==
    /\ enabled' = on
    /\ debounceTimers' = IF on THEN debounceTimers ELSE NoTimers
    /\ invoked' = {}
    /\ UNCHANGED disabledRuleIds

EnableRule(r) ==
    /\ disabledRuleIds' = disabledRuleIds \ {r}
    /\ invoked' = {}
    /\ UNCHANGED <<enabled, debounceTimers>>

DisableRule(r) ==
    /\ disabledRuleIds' = disabledRuleIds \cup {r}
    /\ debounceTimers' = [debounceTimers EXCEPT ![r] = Off]
    /\ invoked' = {}
    /\ UNCHANGED enabled

-----------------------------------------------------------------------------

\* Mutants: a false condition does not cancel, a true one starts over.
NeverCancels(r, event) ==
    IF event \in Condition[r] /\ ~Pending(debounceTimers[r])
    THEN Debounce[r] ELSE debounceTimers[r]

StartsOver(r, event) ==
    IF event \in Condition[r] THEN Debounce[r]
    ELSE IF event \in Throws[r] THEN debounceTimers[r] ELSE Off

\* evaluateRule: a condition that fails cancels the debounce, one that holds
\* starts it unless it runs already, one that throws is logged and forgotten.
EvaluateRule(r, event) ==
    IF event \in Condition[r]
    THEN IF Pending(debounceTimers[r]) THEN debounceTimers[r] ELSE Debounce[r]
    ELSE IF event \in Throws[r] THEN debounceTimers[r] ELSE Off

\* Mutant: the per-rule switch read the wrong way round.
EvaluatesDisabled(r, events) == enabled /\ r \in disabledRuleIds /\ events \cap Listens[r] # {}

Evaluates(r, events) == enabled /\ r \notin disabledRuleIds /\ events \cap Listens[r] # {}

\* Mutant: an event cancels the debounces of the rules it does not concern.
HandleEventsAlone(events) ==
    /\ debounceTimers' =
         [r \in Rules |->
            IF Evaluates(r, events)
            THEN EvaluateRule(r, CHOOSE event \in events \cap Listens[r] : TRUE)
            ELSE IF events = {} THEN debounceTimers[r] ELSE Off]
    /\ invoked' = {}
    /\ UNCHANGED <<enabled, disabledRuleIds>>

HandleEvents(events) ==
    /\ debounceTimers' =
         [r \in Rules |->
            IF Evaluates(r, events)
            THEN EvaluateRule(r, CHOOSE event \in events \cap Listens[r] : TRUE)
            ELSE debounceTimers[r]]
    /\ invoked' = {}
    /\ UNCHANGED <<enabled, disabledRuleIds>>

DebounceFires(r) ==
    /\ Due(debounceTimers[r])
    /\ debounceTimers' = [debounceTimers EXCEPT ![r] = Off]
    /\ invoked' = {r}
    /\ UNCHANGED <<enabled, disabledRuleIds>>

AutomationTick ==
    /\ debounceTimers' = [r \in Rules |-> Elapse(debounceTimers[r])]
    /\ invoked' = {}
    /\ UNCHANGED <<enabled, disabledRuleIds>>

\* No event, no switch: nothing to do for the rule engine.
AutomationIdle == HandleEvents({})

AutomationTypeOK ==
    /\ enabled \in BOOLEAN
    /\ disabledRuleIds \in SUBSET Rules
    /\ debounceTimers \in [Rules -> Int]
    /\ \A r \in Rules : debounceTimers[r] \in Countdown(Debounce[r])
    /\ invoked \in SUBSET Rules

\* A switched-off engine and a disabled rule hold no debounce that could still
\* fire: switching off really cancels (automationEngine.ts:39-45, 61-74).
DisabledHoldsNoTimer ==
    \A r \in Rules :
        Pending(debounceTimers[r]) => enabled /\ r \notin disabledRuleIds
=============================================================================
