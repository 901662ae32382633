----------------------- MODULE StateMachineDefinition -----------------------
(***************************************************************************)
(* What GET /state-machine and GET /orders/{id}/available-events answer:   *)
(* the lifecycle in the order its lists are sorted.                        *)
(* (services/state_machine.py, api/routers/state_machine.py)               *)
(***************************************************************************)
EXTENDS OrderStateMachine, Lists

\* The enums in the order of their declaration, which is the order of the lists.
StateOrder ==
  <<"Pending", "OnHold", "PendingPayment", "Confirmed", "Processing", "Shipped",
    "Delivered", "Returning", "Returned", "Refunded", "Cancelled">>

EventOrder ==
  <<"init", "pendingBiometricalVerification", "noVerificationNeeded", "paymentFailed",
    "orderCancelled", "biometricalVerificationSuccessful", "verificationFailed",
    "orderCancelledByUser", "paymentSuccessful", "preparingShipment",
    "itemDispatched", "itemReceivedByCustomer", "deliveryIssue",
    "returnInitiatedByCustomer", "itemReceivedBack", "refundProcessed">>

ASSUME OrdersAreComplete ==
  /\ ToSet(StateOrder) = States /\ Len(StateOrder) = Cardinality(States)
  /\ ToSet(EventOrder) = Events /\ Len(EventOrder) = Cardinality(Events)

AvailableEventList(state) == Among(EventOrder, AvailableEvents(state))

\* The rows of a state, in the order of its events.
TransitionsFrom(state) ==
  LET offered == AvailableEventList(state)
  IN [i \in DOMAIN offered |->
        [fromState |-> state, eventType |-> offered[i],
         toState |-> NextState(state, offered[i])]]

\* get_transition_definitions sorts by state, then event; the state reached
\* never decides, as the table is a function of the other two.
TransitionDefinitions ==
  Joined([i \in DOMAIN StateOrder |-> TransitionsFrom(StateOrder[i])])

Definition == [states |-> StateOrder, transitions |-> TransitionDefinitions]
=============================================================================
