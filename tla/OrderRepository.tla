-------------------------- MODULE OrderRepository ---------------------------
(***************************************************************************)
(* What every OrderRepository promises (app/ports/order_repository.py):    *)
(* orders advance one event at a time, each event judged against the order *)
(* as it is stored, and the order, its event and its ticket change         *)
(* together or not at all.  What an event makes of an order is left to the *)
(* service: it is a parameter here.                                        *)
(***************************************************************************)
CONSTANTS OrderIds, Amounts, ProductCounts, Requests, None, \* as in OrderService
          RequestIds,   \* the requests that may be recorded, for TLC a bound
          NewOrder(_, _), Context(_, _, _), Accepts(_, _, _),
          UpdatedOrder(_, _), SupportTickets(_, _, _)

VARIABLES orders,     \* OrderIds -> Order, or None
          tickets     \* the support tickets

vars == <<orders, tickets>>

RecordedIds ==
  UNION {{orders[o].history[i].id : i \in DOMAIN orders[o].history} :
           o \in {p \in OrderIds : orders[p] # None}}

Init ==
  /\ orders = [o \in OrderIds |-> None]
  /\ tickets = {}

Open(o, amount, count) ==
  /\ orders[o] = None
  /\ orders' = [orders EXCEPT ![o] = NewOrder(amount, count)]
  /\ UNCHANGED tickets

Advance(o, id, event, metadata) ==
  /\ orders[o] # None
  /\ id \notin RecordedIds
  /\ Accepts(orders[o], event, metadata)
  /\ LET context == Context(orders[o], event, metadata)
     IN /\ orders' = [orders EXCEPT ![o] = UpdatedOrder(id, context)]
        /\ tickets' = tickets \cup SupportTickets(id, o, context)

Next ==
  \/ \E o \in OrderIds, amount \in Amounts, count \in ProductCounts :
       Open(o, amount, count)
  \/ \E o \in OrderIds, r \in Requests, id \in RequestIds :
       Advance(o, id, r.event, r.metadata)

Spec == Init /\ [][Next]_vars
=============================================================================
