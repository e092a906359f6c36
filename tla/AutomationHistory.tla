------------------------- MODULE AutomationHistory -------------------------
(***************************************************************************)
(* The rule engine on its own, over any set of rules, with a history       *)
(* variable held: for how long each rule's condition has been known to     *)
(* hold without being contradicted or switched off.                        *)
(***************************************************************************)
EXTENDS AutomationEngine

VARIABLE held       \* held[r]: ticks up to Debounce[r], or Off

automationHistoryVars == <<automationVars, held>>

\* The rules an event contradicts: their condition is evaluated and is false.
Contradicted(event) ==
    {r \in Rules : /\ Evaluates(r, {event})
                   /\ event \notin Condition[r] \cup Throws[r]}

Confirmed(event) == {r \in Rules : Evaluates(r, {event}) /\ event \in Condition[r]}

AutomationHistoryInit == AutomationInit /\ held = NoTimers

EventArrives(event) ==
    /\ HandleEvents({event})
    /\ held' = [r \in Rules |->
                  IF r \in Contradicted(event) THEN Off
                  ELSE IF r \in Confirmed(event) /\ held[r] = Off THEN 0
                  ELSE held[r]]

Switched(on) ==
    /\ SetEnabled(on)
    /\ held' = IF on THEN held ELSE NoTimers

RuleSwitched(r, on) ==
    \/ on /\ EnableRule(r) /\ UNCHANGED held
    \/ ~on /\ DisableRule(r) /\ held' = [held EXCEPT ![r] = Off]

RuleFires(r) == DebounceFires(r) /\ held' = [held EXCEPT ![r] = Off]

RulesTimePass ==
    /\ AutomationTick
    /\ held' = [r \in Rules |->
                  IF held[r] # Off /\ held[r] < Debounce[r] THEN held[r] + 1 ELSE held[r]]

AutomationHistoryNext ==
    \/ \E event \in Events : EventArrives(event)
    \/ \E on \in BOOLEAN : Switched(on)
    \/ \E r \in Rules, on \in BOOLEAN : RuleSwitched(r, on)
    \/ \E r \in Rules : RuleFires(r)
    \/ RulesTimePass

\* Time does not stand still and Node runs a due callback; events and switches
\* come as they please.
AutomationSpec ==
    /\ AutomationHistoryInit
    /\ [][AutomationHistoryNext]_automationHistoryVars
    /\ WF_automationHistoryVars(RulesTimePass)
    /\ \A r \in Rules : WF_automationHistoryVars(RuleFires(r))

-----------------------------------------------------------------------------

HeldOK == \A r \in Rules : held[r] \in Countdown(Debounce[r])

\* A timer runs for a rule exactly while its condition is held, and never ahead
\* of the time for which it has been.
TimerMeasuresHeld ==
    \A r \in Rules :
        /\ Pending(debounceTimers[r]) <=> held[r] # Off
        /\ Pending(debounceTimers[r]) => held[r] + debounceTimers[r] >= Debounce[r]

\* The inductive invariant of the proofs.
AutomationInv ==
    /\ AutomationTypeOK
    /\ held \in [Rules -> Int] /\ HeldOK
    /\ DisabledHoldsNoTimer
    /\ TimerMeasuresHeld

\* A rule's action is invoked only when the rule and the engine are on and its
\* condition has gone uncontradicted for the whole debounce: a cancelled or
\* disabled debounce never fires late (automationEngine.ts:39-45, 61-74, 84-109).
InvocationIsEarned ==
    [][\A r \in invoked' :
          /\ enabled /\ r \notin disabledRuleIds
          /\ held[r] = Debounce[r]]_automationHistoryVars

\* A debounce comes to an end however often its event is repeated: a repeated
\* event does not start it again (automationEngine.ts:96).
DebounceEnds == \A r \in Rules : Pending(debounceTimers[r]) ~> ~Pending(debounceTimers[r])
=============================================================================
