--------------------------- MODULE MCDynamoOrders ---------------------------
EXTENDS DynamoOrders, TLC

Event(event) == [event |-> event, metadata |-> << >>]

\* A rule that keeps an order where it is, so that a stale load can meet the
\* state it was made in, draws a ticket and adds to the amount; and a rule that
\* disagrees with it on orders to review.
Rule(id, condition, state, others) ==
  [id |-> id, enabled |-> TRUE, eventType |-> "noVerificationNeeded",
   fromStates |-> <<"Pending">>, condition |-> <<condition>>,
   actions |-> <<[type |-> "SET_FINAL_STATE", state |-> state]>> \o others]

StayingRules ==
  <<Rule("stay",
         [type |-> "CONDITION", field |-> "productCount", operator |-> "GREATER_THAN",
          value |-> 0],
         "Pending",
         <<[type |-> "ADD_FIXED_COST", amount |-> 25],
           [type |-> "CREATE_SUPPORT_TICKET", reason |-> "review"]>>),
    Rule("hold",
         [type |-> "CONDITION", field |-> "manualReviewRequired", operator |-> "EQUALS",
          value |-> TRUE],
         "OnHold", <<>>)>>

StayingRequests == {Event("noVerificationNeeded")}

\* With a request on which the rules disagree, and one that ends the order.
MixedRequests ==
  StayingRequests
    \cup {Event("orderCancelled"),
          [event |-> "noVerificationNeeded", metadata |-> [manualReviewRequired |-> TRUE]]}

Interchangeable == Permutations(Handlers)
=============================================================================
