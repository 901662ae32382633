-------------------------- MODULE MCOrdersOverview --------------------------
(* OrdersOverview on an order that exists and an id that the API may create. *)
EXTENDS OrdersOverview

AsListed == [o \in Orders |-> o]

\* Everything the page offers around an order; what is done in it is left to
\* EventForm.
Dashboard == {"open", "back", "refresh", "relist", "create", "apply", "restart"}
=============================================================================
