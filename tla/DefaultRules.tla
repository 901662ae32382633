---------------------------- MODULE DefaultRules ----------------------------
(***************************************************************************)
(* app/rules/default_rules.json.                                           *)
(***************************************************************************)
HighValue ==
  [type |-> "CONDITION", field |-> "amount", operator |-> "GREATER_THAN",
   value |-> 1000]

DefaultRules ==
  << [id         |-> "high-value-payment-failure",
      enabled    |-> TRUE,
      eventType  |-> "paymentFailed",
      fromStates |-> <<"Pending">>,
      condition  |-> <<HighValue>>,
      actions    |-> <<[type   |-> "CREATE_SUPPORT_TICKET",
                        reason |-> "High-value order payment failed"]>>],
     [id         |-> "us-high-value-payment-surcharge",
      enabled    |-> TRUE,
      eventType  |-> "paymentSuccessful",
      fromStates |-> <<"PendingPayment">>,
      condition  |-> <<[type |-> "GROUP", operator |-> "AND", children |-> {2, 3}],
                       HighValue,
                       [type |-> "CONDITION", field |-> "destinationCountry",
                        operator |-> "EQUALS", value |-> "US"]>>,
      actions    |-> <<[type |-> "ADD_TAX", percentage |-> 10],
                       [type |-> "ADD_FIXED_COST", amount |-> 25]>>],
     [id         |-> "manual-review-payment-success",
      enabled    |-> TRUE,
      eventType  |-> "paymentSuccessful",
      fromStates |-> <<"PendingPayment">>,
      condition  |-> <<[type |-> "CONDITION", field |-> "manualReviewRequired",
                        operator |-> "EQUALS", value |-> TRUE]>>,
      actions    |-> <<[type |-> "SET_FINAL_STATE", state |-> "OnHold"]>>] >>
=============================================================================
