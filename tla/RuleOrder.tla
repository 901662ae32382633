----------------------------- MODULE RuleOrder -----------------------------
(***************************************************************************)
(* The rule file as its maintainers change it, an entry at a time, with    *)
(* the engine the program builds from each version when it starts again.  *)
(* file is the list the loader accepted: ids are unique                    *)
(* (json_rule_repository.py 273-278).                                      *)
(***************************************************************************)
EXTENDS Integers, Sequences, SequencesExt

CONSTANTS RuleChoices,  \* the rules a file is made of
          Contexts,     \* the requests to compare
          MaxRules,     \* the length of a file
          MaxAmount,    \* the largest finite amount
          Precision     \* floats hold every number below it (2^53)

VARIABLE file

Engine == INSTANCE RuleEngine WITH Rules <- file

\* What the loader checks of a rule before it is in a file, as far as a result is
\* computed from it: it has lists of states and of actions, surcharges are no less
\* than zero, and an override is a state (json_rule_repository.py 47-100, 181-228).
IsLoadable(rule) ==
  /\ rule.fromStates \in Seq(Engine!States)
  /\ rule.actions \in Seq(Range(rule.actions))
  /\ \A action \in Range(rule.actions) :
       CASE action.type = "SET_FINAL_STATE" -> action.state \in Engine!States
         [] action.type = "ADD_TAX"         -> action.percentage \in Nat
         [] action.type = "ADD_FIXED_COST"  -> action.amount \in Nat
         [] OTHER -> action.type = "CREATE_SUPPORT_TICKET"

ASSUME RuleOrderAssumption ==
  /\ MaxAmount \in Nat
  /\ Precision \in 1 .. MaxAmount
  /\ \A rule \in RuleChoices : IsLoadable(rule)
  /\ \A context \in Contexts : context.order.amount \in 0 .. MaxAmount + 2

AddRule(rule) ==
  /\ Len(file) < MaxRules
  /\ \A i \in DOMAIN file : file[i].id # rule.id
  /\ file' = Append(file, rule)

\* Two neighbours change places: from these steps come all arrangements.
SwapRules(i) ==
  /\ i + 1 \in DOMAIN file
  /\ file' = [file EXCEPT ![i] = file[i + 1], ![i + 1] = file[i]]

Init == file = <<>>

Next ==
  \/ \E rule \in RuleChoices : AddRule(rule)
  \/ \E i \in DOMAIN file : SwapRules(i)

Spec == Init /\ [][Next]_file

-----------------------------------------------------------------------------
(* Amounts as the floats they are: each operation rounds its result *)

\* Between 2^k times Precision and twice that, floats are 2^(k + 1) apart.
Spacing[n \in Nat] == IF n < Precision THEN 1 ELSE 2 * Spacing[n \div 2]

\* To the nearest float, from half way to the one that is an even multiple.
Rounded[n \in Nat] ==
  IF n < Precision THEN n
  ELSE LET apart == Spacing[n]
           low   == n \div apart
           rest  == 2 * (n % apart)
       IN IF rest < apart \/ (rest = apart /\ low % 2 = 0)
          THEN low * apart ELSE (low + 1) * apart

\* The engine adds up action by action.
RunningTotal(context, type, quantity) ==
  FoldLeft(LAMBDA sum, action :
             IF action.type = type THEN Rounded[sum + action[quantity]] ELSE sum,
           0, Engine!MatchedActions(context))

\* Engine!FinalAmount with the roundings.
ChargedAmount(context) ==
  LET base    == context.order.amount
      tax     == RunningTotal(context, "ADD_TAX", "percentage")
      product == Rounded[base * tax]
      taxed   == Rounded[base + product \div 100]
      sum     == Rounded[taxed + RunningTotal(context, "ADD_FIXED_COST", "amount")]
  IN CASE base = Engine!NaN \/ (base = Engine!Infinity /\ tax = 0) -> Engine!NaN
       [] base <= MaxAmount /\ product <= MaxAmount /\ sum <= MaxAmount -> sum
       [] OTHER -> Engine!Infinity

-----------------------------------------------------------------------------
(* Properties *)

\* What the order service makes of a request, but for the amount.
Effects(context) ==
  IF Engine!OverridesConflict(context)
  THEN [refused |-> TRUE]
  ELSE [state  |-> Engine!FinalState(context),
        ticket |-> Engine!TicketContents(context)]

\* Nothing the amount is computed from is so large that it may be rounded.
IsExact(context) ==
  LET base    == context.order.amount
      tax     == Engine!TotalTaxPercentage(context)
      product == base * tax
  IN {base, tax, product, base + product \div 100 + Engine!TotalFixedCost(context)}
       \subseteq 0 .. Precision - 1

\* Conflicting overrides fail instead of depending on the order of the JSON file
\* (rule_engine.py 180), drafts make one ticket, and as long as nothing is rounded
\* amounts add up: then an event has the same state, amount and ticket, or is
\* refused, whatever the order of the rules.  Sums that are rounded depend on it.
OrderIsIrrelevant ==
  [][(\E i \in DOMAIN file : SwapRules(i)) =>
        \A context \in Contexts :
          /\ Effects(context)' = Effects(context)
          /\ IsExact(context) => ChargedAmount(context)' = ChargedAmount(context)]_file

\* What order_service.py 132-133 says, also of sums that are rounded: "All tax
\* percentages use the original amount so action order cannot influence monetary
\* results."  It can: the totals are running sums of floats.
OrderCannotInfluenceAmounts ==
  [][(\E i \in DOMAIN file : SwapRules(i)) =>
        \A context \in Contexts :
          ~Engine!OverridesConflict(context) =>
             ChargedAmount(context)' = ChargedAmount(context)]_file

\* A further rule only adds (rule_engine.py 112-122, 169-181): it never
\* settles a conflict that others have, takes back no ticket, and never lowers
\* an amount.  Of an infinite amount that is not true: zero percent of it are no
\* number, a surcharge makes it one again.
RulesOnlyAdd ==
  [][Len(file') > Len(file) =>
       \A context \in Contexts :
         /\ Engine!OverridesConflict(context) => Engine!OverridesConflict(context)'
         /\ Engine!TicketContents(context) # {} => Engine!TicketContents(context)' # {}
         /\ context.order.amount # Engine!Infinity =>
              Engine!FinalAmount(context)' >= Engine!FinalAmount(context)]_file
=============================================================================
