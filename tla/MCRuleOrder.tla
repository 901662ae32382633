---------------------------- MODULE MCRuleOrder ----------------------------
(***************************************************************************)
(* Rules that differ in what they ask for and in when they match, in every *)
(* order and combination.  One costs as much as floats are exact below.    *)
(***************************************************************************)
EXTENDS RuleOrder

AtLeast(n) ==
  [type |-> "CONDITION", field |-> "amount", operator |-> "GREATER_THAN", value |-> n]
ToUs ==
  [type |-> "CONDITION", field |-> "destinationCountry", operator |-> "NOT_EQUALS",
   value |-> "CA"]

Rule(id, condition, actions) ==
  [id |-> id, enabled |-> id # "disabled", eventType |-> "paymentSuccessful",
   fromStates |-> <<"PendingPayment">>, condition |-> condition, actions |-> actions]

Set(state) == [type |-> "SET_FINAL_STATE", state |-> state]
Tax(n)     == [type |-> "ADD_TAX", percentage |-> n]
Cost(n)    == [type |-> "ADD_FIXED_COST", amount |-> n]
Ticket(r)  == [type |-> "CREATE_SUPPORT_TICKET", reason |-> r]

MCRuleChoices ==
  {Rule("hold", <<AtLeast(0)>>, <<Set("OnHold"), Tax(50)>>),
   Rule("hold-again", <<ToUs>>, <<Ticket("Review"), Set("OnHold")>>),
   Rule("process", <<AtLeast(2)>>, <<Set("Processing")>>),
   Rule("cancel",
        <<[type |-> "GROUP", operator |-> "AND", children |-> {2, 3}], AtLeast(2), ToUs>>,
        <<Ticket("Cancelled"), Set("Cancelled"), Cost(3)>>),
   Rule("surcharge", <<AtLeast(2)>>, <<Tax(100), Cost(2), Tax(25), Ticket("Surcharge")>>),
   Rule("freight", <<ToUs>>, <<Cost(Precision)>>),
   Rule("disabled", <<AtLeast(0)>>, <<Set("Shipped")>>)}

MCContexts ==
  {[order |-> [amount |-> amount, productCount |-> 1], eventType |-> "paymentSuccessful",
    fromState |-> "PendingPayment", proposedState |-> "Confirmed", metadata |-> metadata] :
     amount \in {1, 4, MaxAmount - 10, MaxAmount + 1},
     metadata \in {[destinationCountry |-> "US"], [destinationCountry |-> "CA"]}}
=============================================================================
