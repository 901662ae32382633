------------------------- MODULE OrderStateMachine -------------------------
(***************************************************************************)
(* The order lifecycle: the states and events of app/domain and the       *)
(* transition table of app/services/state_machine.py.  States and events   *)
(* carry the values of the Python enums, the strings the API exchanges.    *)
(***************************************************************************)
EXTENDS FiniteSets

States ==
  {"Pending", "OnHold", "PendingPayment", "Confirmed", "Processing", "Shipped",
   "Delivered", "Returning", "Returned", "Refunded", "Cancelled"}

Events ==
  {"init", "noVerificationNeeded", "pendingBiometricalVerification",
   "biometricalVerificationSuccessful", "verificationFailed", "paymentFailed",
   "orderCancelled", "orderCancelledByUser", "paymentSuccessful",
   "preparingShipment", "itemDispatched", "itemReceivedByCustomer",
   "deliveryIssue", "returnInitiatedByCustomer", "itemReceivedBack",
   "refundProcessed"}

(***************************************************************************)
(* The table: <<from_state, event_type, to_state>>.                        *)
(***************************************************************************)
SpecificTransitions ==
  { <<"Pending",        "pendingBiometricalVerification",    "OnHold">>,
    <<"Pending",        "noVerificationNeeded",              "PendingPayment">>,
    <<"Pending",        "paymentFailed",                     "Cancelled">>,
    <<"Pending",        "orderCancelled",                    "Cancelled">>,
    <<"OnHold",         "biometricalVerificationSuccessful", "PendingPayment">>,
    <<"OnHold",         "verificationFailed",                "Cancelled">>,
    <<"PendingPayment", "paymentSuccessful",                 "Confirmed">>,
    <<"Confirmed",      "preparingShipment",                 "Processing">>,
    <<"Processing",     "itemDispatched",                    "Shipped">>,
    <<"Shipped",        "itemReceivedByCustomer",            "Delivered">>,
    <<"Shipped",        "deliveryIssue",                     "OnHold">>,
    <<"Delivered",      "returnInitiatedByCustomer",         "Returning">>,
    <<"Returning",      "itemReceivedBack",                  "Returned">>,
    <<"Returned",       "refundProcessed",                   "Refunded">> }

\* Mutant: an order may be cancelled again after it ended.
CancellableFromAnywhere == States

CancellableStates ==
  {"Pending", "OnHold", "PendingPayment", "Confirmed", "Processing", "Shipped",
   "Returning"}

UserCancellationTransitions ==
  {<<s, "orderCancelledByUser", "Cancelled">> : s \in CancellableStates}

\* Mutant: a passed verification skips the wait for the payment.
UnpaidConfirmation ==
  LET verified(to) == <<"OnHold", "biometricalVerificationSuccessful", to>>
  IN ((SpecificTransitions \cup UserCancellationTransitions)
        \ {verified("PendingPayment")}) \cup {verified("Confirmed")}

\* No key is in both dictionaries, so that merging them overrides no row.
Transitions == SpecificTransitions \cup UserCancellationTransitions

Rows(state, event) == {t \in Transitions : t[1] = state /\ t[2] = event}

\* get_next_state raises InvalidOrderTransitionError where this is FALSE.
IsEnabled(state, event) == Rows(state, event) # {}

NextState(state, event) == (CHOOSE t \in Rows(state, event) : TRUE)[3]

\* "init" marks the opening of an order and is offered to nobody.
AvailableEvents(state) == {event \in Events \ {"init"} : IsEnabled(state, event)}

\* The states no event leaves.
TerminalStates == {state \in States : AvailableEvents(state) = {}}
=============================================================================
