-------------------------- MODULE MCInMemoryOrders --------------------------
EXTENDS InMemoryOrders, DefaultRules, TLC

Event(event) == [event |-> event, metadata |-> << >>]

\* The loop PendingPayment -> OnHold -> PendingPayment brings an order back to a
\* state an older snapshot was taken in.
LoopRequests ==
  {Event("noVerificationNeeded"),
   [event |-> "paymentSuccessful", metadata |-> [manualReviewRequired |-> TRUE]],
   Event("biometricalVerificationSuccessful")}

\* The two rules of test_rule_engine.py whose overrides disagree, on a request
\* that marks the order for review in two countries.
Conditional(field, value) ==
  <<[type |-> "CONDITION", field |-> field, operator |-> "EQUALS", value |-> value]>>

Overriding(id, condition, state) ==
  [id |-> id, enabled |-> TRUE, eventType |-> "noVerificationNeeded",
   fromStates |-> <<"Pending">>, condition |-> condition,
   actions |-> <<[type |-> "SET_FINAL_STATE", state |-> state]>>]

DisagreeingRules ==
  <<Overriding("hold", Conditional("manualReviewRequired", TRUE), "OnHold"),
    Overriding("cancel", Conditional("destinationCountry", "US"), "Cancelled")>>

\* One event of an order both rules of which match, and one that draws a ticket.
MixedRequests ==
  {[event |-> "noVerificationNeeded",
    metadata |-> [manualReviewRequired |-> TRUE, destinationCountry |-> "US"]],
   Event("paymentFailed")}

\* The rules that can match them: those that disagree, and the default ones on
\* failed payments.
MixedRules ==
  SelectSeq(DefaultRules, LAMBDA rule : rule.eventType = "paymentFailed") \o DisagreeingRules

Interchangeable == Permutations(Threads) \cup Permutations(OrderIds)
=============================================================================
