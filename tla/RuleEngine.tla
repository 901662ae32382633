----------------------------- MODULE RuleEngine -----------------------------
(***************************************************************************)
(* The business-rule engine: app/services/rule_engine.py, rule_actions.py  *)
(* and the part of order_service.py that turns a rule result into amounts  *)
(* and tickets.  Rules is the list JsonRuleRepository loaded, in file      *)
(* order.  A condition tree is a sequence of nodes, the root first; a      *)
(* group names its children by their position.                            *)
(*                                                                         *)
(* Money is a non-negative integer, or what float arithmetic yields past   *)
(* its range.  MaxAmount stands for the largest finite float: a product or *)
(* a sum beyond it is Infinity, and zero percent of Infinity is NaN.       *)
(***************************************************************************)
EXTENDS OrderStateMachine, Integers, Sequences, SequencesExt

CONSTANTS Rules, MaxAmount

Infinity == MaxAmount + 1
NaN == MaxAmount + 2
Money == (0 .. MaxAmount) \cup {Infinity, NaN}

MetadataFields == {"originCountry", "destinationCountry", "manualReviewRequired"}

(***************************************************************************)
(* Only what a JSON rule must have passed to be loaded and is relied upon: *)
(* known events and states, and actions of the four kinds.                 *)
(***************************************************************************)
ASSUME RulesAssumption ==
  /\ MaxAmount \in Nat
  /\ \A i \in DOMAIN Rules :
       /\ Rules[i].eventType \in Events
       /\ Range(Rules[i].fromStates) \subseteq States
       /\ \A a \in Range(Rules[i].actions) :
            a.type = "SET_FINAL_STATE" => a.state \in States

-----------------------------------------------------------------------------
(* RuleEvaluator *)

\* The default field resolvers.  A metadata field is absent when the request
\* did not carry its key.
Resolve(field, context) ==
  CASE field = "amount"        -> context.order.amount
    [] field = "productCount"  -> context.order.productCount
    [] field = "currentState"  -> context.fromState
    [] field = "proposedState" -> context.proposedState
    [] field = "eventType"     -> context.eventType
    [] OTHER                   -> context.metadata[field]

IsMissing(field, context) ==
  field \in MetadataFields /\ field \notin DOMAIN context.metadata

\* The loader admits the orderings on amount and productCount only.
IsFinite(field, value) == field = "amount" => value \notin {Infinity, NaN}

ConditionHolds(node, context) ==
  /\ ~IsMissing(node.field, context)
  /\ LET actual == Resolve(node.field, context)
     IN CASE node.operator = "EQUALS"       -> actual = node.value
          [] node.operator = "NOT_EQUALS"   -> actual # node.value
          [] node.operator = "GREATER_THAN" -> IsFinite(node.field, actual) /\ actual > node.value
          [] node.operator = "LESS_THAN"    -> IsFinite(node.field, actual) /\ actual < node.value
          [] node.operator = "IN"           -> actual \in Range(node.value)

\* The conditions that hold, wherever they are in the tree.
TrueConditions(condition, context) ==
  {n \in DOMAIN condition :
     condition[n].type = "CONDITION" /\ ConditionHolds(condition[n], context)}

RootHolds(condition, true) ==
  LET holds[n \in DOMAIN condition] ==
        IF condition[n].type = "CONDITION" THEN n \in true
        ELSE IF condition[n].operator = "AND"
             THEN \A c \in condition[n].children : holds[c]
             ELSE \E c \in condition[n].children : holds[c]
  IN holds[1]

Matches(condition, context) == RootHolds(condition, TrueConditions(condition, context))

-----------------------------------------------------------------------------
(* RuleEngine *)

\* The rules under an index key, by their position in the file.
IndexedRules(event, state) ==
  {i \in DOMAIN Rules : /\ Rules[i].enabled
                        /\ Rules[i].eventType = event
                        /\ state \in Range(Rules[i].fromStates)}

MatchedRuleNumbers(context) ==
  {i \in IndexedRules(context.eventType, context.fromState) :
     Matches(Rules[i].condition, context)}

\* In file order; the index holds a rule once for each time its fromStates
\* names the state.
RuleList(numbers, state) ==
  FoldLeft(LAMBDA list, i :
             IF i \in numbers
             THEN list \o [j \in 1 .. Cardinality({k \in DOMAIN Rules[i].fromStates :
                                                     Rules[i].fromStates[k] = state})
                             |-> Rules[i]]
             ELSE list,
           <<>>, [i \in DOMAIN Rules |-> i])

\* Mutant: the conditions are not evaluated.
UnconditionalRules(context) ==
  RuleList(IndexedRules(context.eventType, context.fromState), context.fromState)

MatchedRules(context) == RuleList(MatchedRuleNumbers(context), context.fromState)

\* The actions of the matched rules in the order their handlers run.
MatchedActions(context) ==
  FoldLeft(LAMBDA actions, rule : actions \o rule.actions,
           <<>>, MatchedRules(context))

\* The sums are exact here, as those of floats are while they are whole numbers
\* below 2^53; where a running sum is rounded on the way is in RuleOrder.
Total(context, type, quantity) ==
  FoldLeft(LAMBDA sum, action :
             IF action.type = type THEN sum + action[quantity] ELSE sum,
           0, MatchedActions(context))

TotalTaxPercentage(context) ==
  Total(context, "ADD_TAX", "percentage")

TotalFixedCost(context) ==
  Total(context, "ADD_FIXED_COST", "amount")

\* Drafts are not deduplicated here: two drafts make an aggregate ticket.
TicketDrafts(context) ==
  FoldLeft(LAMBDA drafts, rule :
             FoldLeft(LAMBDA more, action :
                        IF action.type = "CREATE_SUPPORT_TICKET"
                        THEN Append(more, [rule |-> rule.id, reason |-> action.reason])
                        ELSE more,
                      drafts, rule.actions),
           <<>>, MatchedRules(context))

\* Mutant: the first override in the file decides.
FirstOverride(context) ==
  LET overrides == SelectSeq(MatchedActions(context),
                             LAMBDA a : a.type = "SET_FINAL_STATE")
  IN IF overrides = <<>> THEN {} ELSE {overrides[1].state}

\* The distinct states that matched SET_FINAL_STATE actions ask for.
FinalStateOverrides(context) ==
  LET actions == UNION {Range(Rules[i].actions) : i \in MatchedRuleNumbers(context)}
  IN {a.state : a \in {b \in actions : b.type = "SET_FINAL_STATE"}}

\* Mutant: the first override wins.
NoOverridesConflict(context) == FALSE

\* Mutant: a pair of overrides conflicts, three do not.
PairOfOverrides(context) == Cardinality(FinalStateOverrides(context)) = 2

\* _resolve_final_state_override raises RuleStateOverrideConflictError.
OverridesConflict(context) == Cardinality(FinalStateOverrides(context)) > 1

FinalState(context) ==
  IF FinalStateOverrides(context) = {}
  THEN context.proposedState
  ELSE CHOOSE s \in FinalStateOverrides(context) : TRUE

-----------------------------------------------------------------------------
(* What order_service.py does with the result *)

\* Mutant: the percentage applies to the fixed costs, too.
TaxedCosts(context) ==
  LET base == context.order.amount + TotalFixedCost(context)
      sum  == base + (base * TotalTaxPercentage(context)) \div 100
  IN IF sum > MaxAmount THEN Infinity ELSE sum

\* Every percentage applies to the amount before the event.
FinalAmount(context) ==
  LET base    == context.order.amount
      tax     == TotalTaxPercentage(context)
      product == base * tax
      sum     == base + product \div 100 + TotalFixedCost(context)
  IN CASE base = NaN \/ (base = Infinity /\ tax = 0) -> NaN
       [] base \notin {Infinity, NaN} /\ {product, sum} \subseteq Money \ {Infinity, NaN}
                                                            -> sum
       [] OTHER -> Infinity

\* None without drafts; a single draft keeps its reason; several aggregate.
TicketContents(context) ==
  LET drafts == TicketDrafts(context)
  IN CASE drafts = <<>>    -> {}
       [] Len(drafts) = 1  -> {[reasons |-> {drafts[1].reason}, aggregate |-> FALSE]}
       [] OTHER            -> {[reasons |-> {d.reason : d \in Range(drafts)},
                                aggregate |-> TRUE]}
=============================================================================
