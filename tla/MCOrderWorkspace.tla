-------------------------- MODULE MCOrderWorkspace --------------------------
(* OrderWorkspace on an order that exists and an id that does not yet.     *)
EXTENDS OrderWorkspace

\* Ids are taken from the list or from the API, or typed as they are there.
AsListed == [o \in Orders |-> o]

\* An id that is also typed in capitals.
InCapitals == [id \in {"a1", "A1"} |-> "a1"]

\* Everything but refreshing.
Visits == {"open", "back", "retry", "apply", "create", "foreign", "restart"}

\* Refreshing while the user visits, retries and applies; the second id stays
\* unknown to the API.
Refreshing == {"open", "back", "refresh", "retry", "apply"}
=============================================================================
