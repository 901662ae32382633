----------------------------- MODULE MCEventForm -----------------------------
(* EventForm on an order that waits for its payment and an id that does not exist yet. *)
EXTENDS EventForm

AsListed == [o \in Orders |-> o]

\* Everything but refreshing.
Visits == {"open", "back", "retry", "apply", "create", "foreign", "restart", "choose", "type"}
=============================================================================
