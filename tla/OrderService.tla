---------------------------- MODULE OrderService ----------------------------
(***************************************************************************)
(* What app/services/order_service.py computes, without the repository: a  *)
(* new order, and the order, event log entry and ticket that one accepted  *)
(* event makes of an order.  Every repository below persists these.        *)
(*                                                                         *)
(* Product ids never change and the rules only count them.  Timestamps are *)
(* left to the repository whose reads depend on them.  The event log entry *)
(* and the ticket of one request are named by the request: the uuids       *)
(* drawn for it are fresh.                                                 *)
(***************************************************************************)
EXTENDS RuleEngine

CONSTANTS OrderIds,       \* uuids of the orders clients create or guess
          Amounts,        \* amounts the schema accepts for a new order
          ProductCounts,  \* numbers of product ids it accepts
          Requests,       \* [event, metadata] bodies clients post
          None         \* get_by_id returned None

Metadata == {r.metadata : r \in Requests}

Override == [proposed : States, final : States]

Entry ==
  [id : Nat, event : Events, from : States, to : States, metadata : Metadata,
   override : SUBSET Override]

Order ==
  [amount : Money, productCount : ProductCounts, state : States,
   version : Nat, history : Seq(Entry)]

ASSUME ServiceAssumption ==
  /\ Amounts \subseteq 1 .. MaxAmount
  /\ ProductCounts \subseteq Nat \ {0}
  /\ \A r \in Requests : r.event \in Events
  /\ None \notin Order

NewOrder(amount, count) ==
  [amount |-> amount, productCount |-> count, state |-> "Pending",
   version |-> 0, history |-> <<>>]

Context(order, event, metadata) ==
  [order |-> order, eventType |-> event, metadata |-> metadata,
   fromState |-> order.state, proposedState |-> NextState(order.state, event)]

(***************************************************************************)
(* apply_event accepts the event: get_next_state finds a transition and    *)
(* the overrides of the matched rules agree.                               *)
(***************************************************************************)
Accepts(order, event, metadata) ==
  /\ IsEnabled(order.state, event)
  /\ ~OverridesConflict(Context(order, event, metadata))

\* Mutant: the history keeps the state the table proposed.
ProposedEntry(id, context) ==
  [id |-> id, event |-> context.eventType,
   from |-> context.fromState, to |-> context.proposedState,
   metadata |-> context.metadata, override |-> {}]

\* The persisted metadata names the override, if a rule asked for one.
EventEntry(id, context) ==
  [id |-> id, event |-> context.eventType,
   from |-> context.fromState, to |-> FinalState(context),
   metadata |-> context.metadata,
   override |-> IF FinalStateOverrides(context) = {} THEN {}
                ELSE {[proposed |-> context.proposedState,
                       final    |-> FinalState(context)]}]

\* Mutant: the version stays.
UncountedUpdate(id, context) ==
  [context.order EXCEPT !.amount  = FinalAmount(context),
                        !.state   = FinalState(context),
                        !.history = Append(@, EventEntry(id, context))]

UpdatedOrder(id, context) ==
  [amount       |-> FinalAmount(context),
   productCount |-> context.order.productCount,
   state        |-> FinalState(context),
   version      |-> context.order.version + 1,
   history      |-> Append(context.order.history, EventEntry(id, context))]

\* Mutant: the ticket names the order by its own id, and itself by the order's.
SwappedTickets(id, o, context) ==
  {[id |-> o, order |-> id, amount |-> FinalAmount(context), contents |-> c] :
     c \in TicketContents(context)}

\* _materialize_support_ticket: no ticket, or one, with the updated amount.
SupportTickets(id, o, context) ==
  {[id |-> id, order |-> o, amount |-> FinalAmount(context), contents |-> c] :
     c \in TicketContents(context)}

-----------------------------------------------------------------------------
\* Where the orders of a table record a request, for the properties of the
\* repositories.
RecordsIn(table, id) ==
  UNION {{<<o, n>> : n \in {m \in DOMAIN table[o].history : table[o].history[m].id = id}} :
           o \in {p \in OrderIds : table[p] # None}}

\* The order that a history makes of a new one, each event evaluated again on
\* what the events before it made.
Retraced(amount, count, history) ==
  FoldLeft(LAMBDA order, entry :
             UpdatedOrder(entry.id, Context(order, entry.event, entry.metadata)),
           NewOrder(amount, count), history)

\* An order is what its history makes of a new one, and every event of it was
\* one the state then took, with at most one state the matched rules asked for.
IsExplained(order) ==
  \E amount \in Amounts :
    /\ order = Retraced(amount, order.productCount, order.history)
    /\ \A n \in DOMAIN order.history :
         LET before == Retraced(amount, order.productCount,
                                SubSeq(order.history, 1, n - 1))
             entry  == order.history[n]
         IN /\ IsEnabled(before.state, entry.event)
            /\ Cardinality(FinalStateOverrides(
                             Context(before, entry.event, entry.metadata))) <= 1
=============================================================================
