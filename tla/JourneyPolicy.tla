--------------------------- MODULE JourneyPolicy ----------------------------
(***************************************************************************)
(* What the journey on the page says of every order the ledger can hold,   *)
(* drawn with the events of its present state or with those of another     *)
(* one, as they are while newer ones are loaded.                           *)
(***************************************************************************)
EXTENDS OrderLedger, StateMachineDefinition

Page == INSTANCE OrderJourney

Drawn(o, state) ==
  Page!CreateOrderJourney(orders[o], Definition, AvailableEventList(state))

EveryJourney(Holds(_, _, _)) ==
  \A o \in {p \in OrderIds : orders[p] # None}, state \in States :
    Holds(orders[o], state, Drawn(o, state))

IsWithoutRepeats(seq) == Cardinality(ToSet(seq)) = Len(seq)

\* Whatever the age of the list of events, an edge that invites to go on is a
\* step the lifecycle takes from the state shown.  With the events of that state
\* each of them is on exactly one edge, also where several lead to one state,
\* and the page says that an order has ended only if it has.
\* (groupAvailableTransitions and createOrderJourney, orderJourney.ts)
DrawsWhatIsOffered ==
  EveryJourney(LAMBDA order, state, model :
    LET offered == Page!EventsOfEdges(model.availableEdges)
    IN /\ \A edge \in ToSet(model.availableEdges) :
            \A event \in ToSet(edge.eventTypes) :
              <<order.state, event, edge.toState>> \in Transitions
       /\ IsWithoutRepeats(offered)
       /\ state = order.state =>
            /\ ToSet(offered) = AvailableEvents(order.state)
            /\ order.state \in model.terminalStates <=> offered = <<>>)

\* The control point is in line with the ends.
IsStraight(path) ==
  (path.control.x - 2 * path.from.x) * (path.to.y - path.from.y)
    = (path.control.y - 2 * path.from.y) * (path.to.x - path.from.x)

\* One curve covers the other, or they run along the same straight line.
OnOneLine(p, q) ==
  /\ {p.from, p.to} = {q.from, q.to}
  /\ p.control = q.control \/ (IsStraight(p) /\ IsStraight(q))

\* However often an order went around, no edge is lost because a state has no
\* place, no two have the same key, and two run along one line only between states
\* of one column, where moving the control point up or down does not part them:
\* OnHold over PendingPayment, Confirmed over Cancelled, Returning over Delivered.
\* (pathFor and drawableEdges, DesktopOrderJourney.tsx)
LinesAreSharedInColumnsOnly ==
  EveryJourney(LAMBDA order, state, model :
    LET drawn == Page!DrawableEdges(model)
    IN /\ Cardinality({entry.edge.id : entry \in drawn}) = Len(model.visibleEdges)
       /\ \A entry \in drawn : entry.path.isSeen
       /\ \A one \in drawn :
            one.path.from.x # one.path.to.x =>
              \A other \in drawn \ {one} : ~OnOneLine(one.path, other.path))

\* The wide drawing, the cards of the narrow one, the lists and the inventory of
\* the backend tell the same, and the dashboard counts every order once.
\* (frontend/README.md 40-41; MobileOrderJourney.tsx, TransitionInventory.tsx)
ViewsAgree ==
  EveryJourney(LAMBDA order, state, model :
    LET cards  == ToSet(Page!MobileCards(Definition, model))
        listed == ToSet(Page!AvailableList(model))
        past   == Page!HistoricalList(model)
    IN /\ listed = UNION {{<<event, c.state>> : event \in ToSet(c.events)} : c \in cards}
       /\ {c.state : c \in cards} =
            model.visitedStates \cup model.availableNextStates \cup model.terminalStates
       /\ {[state |-> c.state, statuses |-> c.statuses] : c \in cards} =
            {d \in Page!DrawnStates(Definition, model) : d.statuses # {}}
       /\ {c.state : c \in {d \in cards : "Current" \in d.statuses}} = {order.state}
       /\ \A row \in listed :
            Contains(Page!TransitionInventory(Definition),
                     <<order.state, row[1], row[2]>>)
       /\ Len(past) = order.version
       /\ past # <<>> => Last(past)[2] = order.state
       /\ Cardinality(Page!GroupsOf(order.state)) = 1)
=============================================================================
