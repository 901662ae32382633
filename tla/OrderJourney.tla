---------------------------- MODULE OrderJourney ----------------------------
(***************************************************************************)
(* The journey of an order as the workspace draws it, from three answers:  *)
(* the order, the events available to it and the definition of the state   *)
(* machine, which may be of different moments.                             *)
(* (frontend StateMachineDiagram/*.ts*, DashboardSummary.tsx)              *)
(***************************************************************************)
EXTENDS Lists

Edge(id, from, to, events, kind) ==
  [id |-> id, fromState |-> from, toState |-> to, eventTypes |-> events, kind |-> kind]

HistoricalEdges(order) ==
  [i \in DOMAIN order.history |->
     LET entry == order.history[i]
     IN Edge(<<"historical", i, entry.from, entry.event, entry.to>>,
             entry.from, entry.to, <<entry.event>>, "historical")]

LeadingTo(list, state) == Among(list, {x \in ToSet(list) : x.toState = state})

\* Mutant: a later event replaces the earlier ones to the same state.
LastEventTo(transitions, state) == <<Last(LeadingTo(transitions, state)).eventType>>

EventsTo(transitions, state) ==
  LET chosen == LeadingTo(transitions, state)
  IN [i \in DOMAIN chosen |-> chosen[i].eventType]

\* Each state they lead to, where the list first comes to it.
StatesReached(transitions) ==
  FoldLeft(LAMBDA states, t : IF Contains(states, t.toState) THEN states
                              ELSE Append(states, t.toState),
           <<>>, transitions)

\* One edge to each state some available event leads to, in the order in which
\* the definition comes to it.
GroupAvailableTransitions(transitions, currentState, availableEvents) ==
  LET Offered == Among(transitions,
                   {t \in ToSet(transitions) : /\ t.fromState = currentState
                                               /\ Contains(availableEvents, t.eventType)})
      Targets == StatesReached(Offered)
  IN [i \in DOMAIN Targets |->
        Edge(<<"available", currentState, Targets[i]>>, currentState, Targets[i],
             EventsTo(Offered, Targets[i]), "available")]

VisitedStates(order) ==
  {order.state} \cup UNION {{order.history[i].from, order.history[i].to} :
                              i \in DOMAIN order.history}

StatesTo(edges) == {edges[i].toState : i \in DOMAIN edges}

EndStates(definition) ==
  {s \in ToSet(definition.states) :
     \A t \in ToSet(definition.transitions) : t.fromState # s}

CreateOrderJourney(order, definition, availableEvents) ==
  LET historical == HistoricalEdges(order)
      available == GroupAvailableTransitions(definition.transitions, order.state,
                                             availableEvents)
  IN [availableEdges      |-> available,
      availableNextStates |-> StatesTo(available),
      currentState        |-> order.state,
      historicalEdges     |-> historical,
      terminalStates      |-> EndStates(definition),
      visibleEdges        |-> historical \o available,
      visitedStates       |-> VisitedStates(order)]

StateStatuses(state, model) ==
  {status \in {"Current", "Visited", "Available", "Terminal"} :
     CASE status = "Current"   -> state = model.currentState
       [] status = "Visited"   -> state \in model.visitedStates \ {model.currentState}
       [] status = "Available" -> state \in model.availableNextStates
       [] status = "Terminal"  -> state \in model.terminalStates}

-----------------------------------------------------------------------------
(* The drawing *)

Place(x, y) == [x |-> x, y |-> y]

STATE_POSITIONS ==
  [Pending        |-> Place(80, 160),
   OnHold         |-> Place(260, 70),
   PendingPayment |-> Place(260, 250),
   Confirmed      |-> Place(470, 250),
   Processing     |-> Place(680, 250),
   Shipped        |-> Place(890, 250),
   Delivered      |-> Place(1100, 250),
   Returning      |-> Place(1100, 70),
   Returned       |-> Place(890, 70),
   Refunded       |-> Place(680, 70),
   Cancelled      |-> Place(470, 430)]

HasPosition(state) == state \in DOMAIN STATE_POSITIONS

\* Mutant: the index moves nothing, curves between two states coincide.
StraightPath(edge, index, edgeCount) ==
  LET from == STATE_POSITIONS[edge.fromState]
      to   == STATE_POSITIONS[edge.toState]
  IN [from |-> from, to |-> to, isSeen |-> from # to,
      control |-> Place(from.x + to.x, from.y + to.y)]

\* A curve between the borders of two states, with its control point (in half
\* points) above or below the middle by its index among the visible edges; in the
\* middle between the borders is in the middle between the states.  Between two
\* states in one place the border points are no numbers, and nothing is seen.
PathFor(edge, index, edgeCount) ==
  LET from   == STATE_POSITIONS[edge.fromState]
      to     == STATE_POSITIONS[edge.toState]
      offset == 28 * (2 * (index - 1) - (edgeCount - 1))
  IN [from |-> from, to |-> to, isSeen |-> from # to,
      control |-> Place(from.x + to.x, from.y + to.y + offset)]

\* An edge at a state this version of the page does not know is not drawn.
DrawableEdges(model) ==
  LET edges == model.visibleEdges
      drawn(i) == [edge |-> edges[i], path |-> PathFor(edges[i], i, Len(edges))]
  IN {drawn(i) : i \in {j \in DOMAIN edges : /\ HasPosition(edges[j].fromState)
                                            /\ HasPosition(edges[j].toState)}}

DrawnStates(definition, model) ==
  {[state |-> s, statuses |-> StateStatuses(s, model)] :
     s \in {t \in ToSet(definition.states) : HasPosition(t)}}

-----------------------------------------------------------------------------
(* The cards on a narrow screen, and the lists below both *)

EventsOfEdges(edges) == Joined([i \in DOMAIN edges |-> edges[i].eventTypes])

\* Mutant: the card of a state shows the events that leave it.
DepartureItems(definition, model) ==
  [i \in DOMAIN definition.states |->
     LET state == definition.states[i]
         edges == Among(model.availableEdges,
                       {edge \in ToSet(model.availableEdges) : edge.fromState = state})
     IN [state |-> state, events |-> EventsOfEdges(edges),
         statuses |-> StateStatuses(state, model)]]

MobileJourneyItems(definition, model) ==
  [i \in DOMAIN definition.states |->
     LET state == definition.states[i]
         edges == LeadingTo(model.availableEdges, state)
     IN [state |-> state, events |-> EventsOfEdges(edges),
         statuses |-> StateStatuses(state, model)]]

MobileCards(definition, model) ==
  LET items == MobileJourneyItems(definition, model)
  IN Among(items, {item \in ToSet(items) : item.statuses # {} \/ item.events # <<>>})

\* The available transitions as a list: an event and where it leads.
AvailableList(model) ==
  Joined([i \in DOMAIN model.availableEdges |->
     LET edge == model.availableEdges[i]
     IN [j \in DOMAIN edge.eventTypes |-> <<edge.eventTypes[j], edge.toState>>]])

\* The historical path as a list, and the same in the mobile view.
HistoricalList(model) ==
  [i \in DOMAIN model.historicalEdges |->
     LET edge == model.historicalEdges[i]
     IN <<edge.fromState, edge.toState, edge.eventTypes>>]

TransitionInventory(definition) ==
  [i \in DOMAIN definition.transitions |->
     LET t == definition.transitions[i] IN <<t.fromState, t.eventType, t.toState>>]

-----------------------------------------------------------------------------
(* The counters of the overview *)

DASHBOARD_STATE_GROUPS ==
  [inProgress |-> {"Pending", "OnHold", "PendingPayment", "Confirmed", "Processing",
                   "Shipped"},
   returns    |-> {"Returning", "Returned"},
   completed  |-> {"Delivered", "Refunded"},
   cancelled  |-> {"Cancelled"}]

GroupsOf(state) ==
  {g \in DOMAIN DASHBOARD_STATE_GROUPS : state \in DASHBOARD_STATE_GROUPS[g]}
=============================================================================
