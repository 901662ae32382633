--------------------------- MODULE OrderWorkspace ---------------------------
(***************************************************************************)
(* The browser: the workspace that shows one order, the list of summaries  *)
(* and the calls in flight between them and the API.                       *)
(* (frontend useOrderWorkspace.ts, useOrders.ts, useOrdersOverview.ts)     *)
(*                                                                         *)
(* A step is a gesture of the user, the API serving a call, or the         *)
(* continuation of a call whose answer arrived: JavaScript runs each of    *)
(* them to its end.  Of an order only its version matters here.  EventForm *)
(* adds the form that applies an event, OrdersOverview the page around the *)
(* order; feedback and the texts of errors are left out.                   *)
(***************************************************************************)
EXTENDS Integers

CONSTANTS Orders,        \* order ids, as the API writes them
          Canonical,     \* the order each spelling of an id names: a UUID typed
                         \* in capitals is found, and answered in small letters
          Stored,        \* those the API has at the start
          NoOrder,       \* no order is selected, or shown
          Gestures,      \* what the user and the world may do
          MaxGestures    \* bound on how often

Absent == -1             \* version of an id that was not created yet
Lost   == -2             \* version of an order a restart of the API lost

Spellings == DOMAIN Canonical

ASSUME WorkspaceAssumption ==
  /\ Canonical \in [Spellings -> Orders] /\ Orders \subseteq Spellings
  /\ \A o \in Orders : Canonical[o] = o
  /\ Stored \subseteq Orders /\ NoOrder \notin Spellings
  /\ MaxGestures \in Nat

VARIABLES
  server,        \* version of each order at the API
  calls,         \* calls whose promise has not settled
  gestures,      \* number of gestures so far, which also names controllers
  generation,    \* selectionGeneration
  controllers,   \* the AbortController of the workspace and of the events; 0: null
  selected,      \* selectedOrderId, as it was spelled where it was opened
  detail,        \* selectedOrder: the order and the version shown
  events,        \* availableEvents: the order and the version they are for
  eventsError,   \* whether availableEventsError is set
  loading,       \* the flags of the spinners
  summaries      \* the version listed of each order

view == <<generation, controllers, selected, detail, events, eventsError,
          loading, summaries>>
vars == <<server, calls, gestures, view>>

\* The order an id names, if it is one.
Named(id) == IF id = NoOrder THEN NoOrder ELSE Canonical[id]

Nothing == [order |-> NoOrder, version |-> Absent]
Idle    == [detail |-> FALSE, events |-> FALSE, event |-> FALSE, create |-> FALSE]

\* A call of the API; controller is the gesture it came from, which names its
\* AbortController if it has one.  clears: the list that a missing order made necessary is
\* awaited before the spinner of the detail stops.
Call(kind, o, g, c, refresh, clears) ==
  [kind |-> kind, order |-> o, generation |-> g, controller |-> c,
   refresh |-> refresh, clears |-> clears, status |-> "pending",
   aborted |-> FALSE, answer |-> [p \in Orders |-> Absent]]

List(c, refresh) == Call("list", NoOrder, 0, c, refresh, FALSE)
Detail(o, g, c, refresh) == Call("detail", o, g, c, refresh, FALSE)
Events(o, g, c, refresh) == Call("events", o, g, c, refresh, FALSE)

\* GET calls of the workspace carry a signal; the others cannot be aborted.
HasSignal(r) == r.kind \in {"detail", "events"}

\* abort(): a call without an answer rejects, which changes nothing; one whose
\* answer is there may still resolve, and finds its signal aborted.
Aborted(rs, cs) ==
  LET Heard == {r \in rs : r.controller \in cs \ {0} /\ (HasSignal(r) \/ r.clears)}
      Ended == {r \in Heard : HasSignal(r) /\ r.status = "pending"}
  IN  (rs \ Heard) \cup {[r EXCEPT !.aborted = TRUE] : r \in Heard \ Ended}

BothControllers == {controllers.workspace, controllers.events}

\* Mutant: the generation is not compared.
IsSameOrder(r) == selected = r.order

\* Mutant: aborting is relied on alone.
IsNotAborted(r) == ~r.aborted

IsCurrent(r) == selected = r.order /\ generation = r.generation

\* upsertOrderSummary
Upsert(shown) == [summaries EXCEPT ![shown.order] = shown.version]

\* Mutant: an order that is gone stays listed.
ListedAsAnswered(answer) == answer

\* GET /orders lists the orders that exist.
Listed(answer) ==
  [o \in Orders |-> IF answer[o] = Lost THEN Absent ELSE answer[o]]

Init ==
  /\ server = [o \in Orders |-> IF o \in Stored THEN 0 ELSE Absent]
  /\ calls = {List(0, FALSE)}
  /\ gestures = 0
  /\ generation = 0
  /\ controllers = [workspace |-> 0, events |-> 0]
  /\ selected = NoOrder
  /\ detail = Nothing /\ events = Nothing /\ eventsError = FALSE
  /\ loading = Idle
  /\ summaries = [o \in Orders |-> Absent]

-----------------------------------------------------------------------------
(* What the user does, as far as the page lets them.                       *)

Gesture(g) ==
  /\ g \in Gestures /\ gestures < MaxGestures
  /\ gestures' = gestures + 1

LoadWorkspaceOrder(o, refresh) ==
  LET c == gestures + 1
      g == generation + 1
  IN  /\ generation' = g
      /\ controllers' = [workspace |-> c, events |-> 0]
      /\ loading' = [loading EXCEPT !.detail = TRUE, !.events = TRUE, !.event = FALSE]
      /\ eventsError' = FALSE
      /\ calls' = Aborted(calls, BothControllers)
                    \cup {Detail(o, g, c, refresh), Events(o, g, c, refresh)}
                    \cup IF refresh THEN {List(c, TRUE)} ELSE {}

\* The page offers to open an order only where none is open.
OpenOrder(id) ==
  /\ Gesture("open")
  /\ selected = NoOrder
  /\ selected' = id
  /\ detail' = Nothing /\ events' = Nothing
  /\ LoadWorkspaceOrder(id, FALSE)
  /\ UNCHANGED <<server, summaries>>

LeaveOrder ==
  /\ generation' = generation + 1
  /\ controllers' = [workspace |-> 0, events |-> 0]
  /\ selected' = NoOrder
  /\ detail' = Nothing /\ events' = Nothing /\ eventsError' = FALSE
  /\ loading' = [Idle EXCEPT !.create = loading.create]

BackToOrders ==
  /\ Gesture("back")
  /\ selected # NoOrder
  /\ LeaveOrder
  /\ calls' = Aborted(calls, BothControllers)
  /\ UNCHANGED <<server, summaries>>

\* The button waits until everything the last refresh started has settled.
RefreshDashboard ==
  /\ Gesture("refresh")
  /\ \A r \in calls : ~r.refresh
  /\ IF selected = NoOrder
     THEN /\ calls' = calls \cup {List(gestures + 1, TRUE)}
          /\ UNCHANGED view
     ELSE /\ LoadWorkspaceOrder(selected, TRUE)
          /\ UNCHANGED <<selected, detail, events, summaries>>
  /\ UNCHANGED server

StartAvailableEventsLoad(o, g, c) ==
  /\ controllers' = [controllers EXCEPT !.events = c]
  /\ eventsError' = FALSE
  /\ calls' = Aborted(calls, {controllers.events}) \cup {Events(o, g, c, FALSE)}

RetryAvailableEvents ==
  /\ Gesture("retry")
  /\ detail # Nothing /\ eventsError
  /\ StartAvailableEventsLoad(selected, generation, gestures + 1)
  /\ loading' = [loading EXCEPT !.events = TRUE]
  /\ UNCHANGED <<server, generation, selected, detail, events, summaries>>

\* The form is there when events were loaded; its button waits for the answer.
ApplyEvent ==
  /\ Gesture("apply")
  /\ detail # Nothing
  /\ ~loading.events /\ ~eventsError /\ events # Nothing
  /\ ~loading.event
  /\ loading' = [loading EXCEPT !.event = TRUE]
  /\ calls' = calls \cup
       {Call("apply", detail.order, generation, gestures + 1, FALSE, FALSE)}
  /\ UNCHANGED <<server, generation, controllers, selected, detail, events,
                 eventsError, summaries>>

CreateOrder ==
  /\ Gesture("create")
  /\ selected = NoOrder /\ ~loading.create
  /\ loading' = [loading EXCEPT !.create = TRUE]
  /\ calls' = calls \cup
       {Call("create", NoOrder, generation, gestures + 1, FALSE, FALSE)}
  /\ UNCHANGED <<server, generation, controllers, selected, detail, events,
                 eventsError, summaries>>

-----------------------------------------------------------------------------
(* The API, and what else happens to it.                                   *)

Exists(o) == server[o] >= 0

\* Another client advances an order.
Foreign(o) ==
  /\ Gesture("foreign")
  /\ Exists(o)
  /\ server' = [server EXCEPT ![o] = @ + 1]
  /\ UNCHANGED <<calls, view>>

\* The API restarts with its in-memory repository empty.
Restart ==
  /\ Gesture("restart")
  /\ server' = [o \in Orders |-> IF Exists(o) THEN Lost ELSE server[o]]
  /\ UNCHANGED <<calls, view>>

\* The answer is what the API has of the order after the call, or of them all.
Answered(r, status) ==
  calls' = (calls \ {r}) \cup
    {[r EXCEPT !.status = status,
               !.answer = [o \in Orders |-> IF r.kind = "list" \/ o = Named(r.order)
                                            THEN server'[o] ELSE Absent]]}

IsOpen(r) == r.status = "pending"

ServeRead(r) ==
  /\ IsOpen(r) /\ r.kind \in {"list", "detail", "events"}
  /\ UNCHANGED <<server, gestures, view>>
  /\ Answered(r, "answered")

\* The call fails once the API served a write, or without: it may have refused.
ServeApply(r) ==
  /\ IsOpen(r) /\ r.kind = "apply"
  /\ server' = IF Exists(r.order) THEN [server EXCEPT ![r.order] = @ + 1] ELSE server
  /\ \E status \in {"answered", "failed"} : Answered(r, status)
  /\ UNCHANGED <<gestures, view>>

ServeCreate(r) ==
  /\ IsOpen(r) /\ r.kind = "create"
  /\ \E o \in Orders, status \in {"answered", "failed"} :
       /\ server[o] = Absent
       /\ server' = [server EXCEPT ![o] = 0]
       /\ calls' = (calls \ {r}) \cup
            {[r EXCEPT !.status = status, !.order = o,
                       !.answer = [p \in Orders |-> IF p = o THEN 0 ELSE Absent]]}
  /\ UNCHANGED <<gestures, view>>

Fail(r) ==
  /\ IsOpen(r)
  /\ calls' = (calls \ {r}) \cup {[r EXCEPT !.status = "failed"]}
  /\ UNCHANGED <<server, gestures, view>>

-----------------------------------------------------------------------------
(* What the workspace does with an answer.                                 *)

Settles(r, kind) == r.kind = kind /\ r.status # "pending" /\ UNCHANGED <<server, gestures>>

Answer(r)    == [order |-> Named(r.order), version |-> r.answer[Named(r.order)]]
IsFound(r)   == r.status = "answered" /\ Answer(r).version >= 0
IsMissing(r) == r.status = "answered" /\ Answer(r).version < 0

\* The answer was on its way when the call was aborted.
Cancel(r) ==
  /\ HasSignal(r) /\ r.aborted
  /\ calls' = calls \ {r}
  /\ UNCHANGED <<server, gestures, view>>

\* finally: the spinner of a load stops unless the load was aborted or is stale.
StopSpinner(r, spinner) ==
  loading' = IF ~r.aborted /\ IsCurrent(r)
             THEN [loading EXCEPT ![spinner] = FALSE] ELSE loading

ReceiveList(r) ==
  /\ Settles(r, "list")
  /\ summaries' = IF r.status = "answered" THEN Listed(r.answer) ELSE summaries
  /\ IF r.clears THEN StopSpinner(r, "detail") ELSE UNCHANGED loading
  /\ calls' = calls \ {r}
  /\ UNCHANGED <<generation, controllers, selected, detail, events, eventsError>>

ReceiveDetail(r) ==
  /\ Settles(r, "detail")
  /\ IF IsFound(r) /\ IsCurrent(r)
     THEN detail' = Answer(r) /\ summaries' = Upsert(Answer(r))
     ELSE UNCHANGED <<detail, summaries>>
  /\ IF IsMissing(r) /\ ~r.aborted /\ IsCurrent(r)
     THEN /\ calls' = (calls \ {r}) \cup
               {Call("list", r.order, r.generation, r.controller, r.refresh, TRUE)}
          /\ UNCHANGED loading
     ELSE calls' = calls \ {r} /\ StopSpinner(r, "detail")
  /\ UNCHANGED <<generation, controllers, selected, events, eventsError>>

ReceiveEvents(r) ==
  /\ Settles(r, "events")
  /\ IF IsCurrent(r) /\ IsFound(r)
     THEN events' = Answer(r) /\ UNCHANGED eventsError
     ELSE IF IsCurrent(r) /\ ~r.aborted
     THEN events' = Nothing /\ eventsError' = TRUE
     ELSE UNCHANGED <<events, eventsError>>
  /\ StopSpinner(r, "events")
  /\ calls' = calls \ {r}
  /\ UNCHANGED <<generation, controllers, selected, detail, summaries>>

ReceiveApplied(r) ==
  /\ Settles(r, "apply") /\ IsFound(r)
  /\ summaries' = Upsert(Answer(r))
  /\ IF IsCurrent(r)
     THEN /\ detail' = Answer(r)
          /\ controllers' = [controllers EXCEPT !.events = r.controller]
          /\ eventsError' = FALSE
          /\ loading' = [loading EXCEPT !.events = TRUE, !.event = FALSE]
          /\ calls' = Aborted(calls \ {r}, {controllers.events}) \cup
               {Events(r.order, r.generation, r.controller, FALSE)}
     ELSE /\ calls' = calls \ {r}
          /\ UNCHANGED <<detail, controllers, eventsError, loading>>
  /\ UNCHANGED <<generation, selected, events>>

\* A missing order is left, and the list loaded again.
ReceiveNotApplied(r) ==
  /\ Settles(r, "apply") /\ ~IsFound(r)
  /\ IF IsCurrent(r) /\ IsMissing(r)
     THEN /\ LeaveOrder
          /\ calls' = Aborted(calls \ {r}, BothControllers) \cup {List(r.controller, FALSE)}
     ELSE /\ loading' = IF IsCurrent(r) THEN [loading EXCEPT !.event = FALSE] ELSE loading
          /\ calls' = calls \ {r}
          /\ UNCHANGED <<generation, controllers, selected, detail, events, eventsError>>
  /\ UNCHANGED summaries

\* Mutant: the created order is always selected.
IsWhoeverIsThere(r) == TRUE

\* selectCreatedOrderIfCurrent
IsStillThere(r) == generation = r.generation

ReceiveCreated(r) ==
  /\ Settles(r, "create") /\ IsFound(r)
  /\ summaries' = Upsert(Answer(r))
  /\ IF IsStillThere(r)
     THEN /\ generation' = generation + 1
          /\ controllers' = [workspace |-> 0, events |-> r.controller]
          /\ selected' = r.order
          /\ detail' = Answer(r) /\ events' = Nothing /\ eventsError' = FALSE
          /\ loading' = [loading EXCEPT !.detail = FALSE, !.events = TRUE, !.create = FALSE]
          /\ calls' = Aborted(calls \ {r}, BothControllers) \cup
               {Events(r.order, generation + 1, r.controller, FALSE)}
     ELSE /\ calls' = calls \ {r}
          /\ loading' = [loading EXCEPT !.create = FALSE]
          /\ UNCHANGED <<generation, controllers, selected, detail, events, eventsError>>

ReceiveNotCreated(r) ==
  /\ Settles(r, "create") /\ ~IsFound(r)
  /\ loading' = [loading EXCEPT !.create = FALSE]
  /\ calls' = calls \ {r}
  /\ UNCHANGED <<generation, controllers, selected, detail, events, eventsError, summaries>>

-----------------------------------------------------------------------------
Deliver(r) ==
  \/ ServeRead(r) \/ ServeApply(r) \/ ServeCreate(r) \/ Fail(r) \/ Cancel(r)
  \/ ReceiveList(r) \/ ReceiveDetail(r) \/ ReceiveEvents(r)
  \/ ReceiveApplied(r) \/ ReceiveNotApplied(r)
  \/ ReceiveCreated(r) \/ ReceiveNotCreated(r)

\* The user may rest once every call has settled.
Rest == calls = {} /\ UNCHANGED vars

Next ==
  \/ \E id \in Spellings : OpenOrder(id)
  \/ \E o \in Orders : Foreign(o)
  \/ BackToOrders \/ RefreshDashboard \/ RetryAvailableEvents
  \/ ApplyEvent \/ CreateOrder \/ Restart
  \/ \E r \in calls : Deliver(r)
  \/ Rest

Spec == Init /\ [][Next]_vars

-----------------------------------------------------------------------------
Versions == Absent .. MaxGestures
Shown    == [order : Orders, version : Versions \ {Absent}] \cup {Nothing}
Calls ==
  [kind : {"list", "detail", "events", "apply", "create"},
   order : Spellings \cup {NoOrder}, generation : 0 .. 2 * MaxGestures,
   controller : 0 .. MaxGestures, refresh : BOOLEAN, clears : BOOLEAN,
   status : {"pending", "answered", "failed"}, aborted : BOOLEAN,
   answer : [Orders -> Versions \cup {Lost}]]

\* The type of the variables.  An order a restart lost is neither shown nor
\* listed: its version is no version of the page.
TypeOK ==
  /\ server \in [Orders -> Versions \cup {Lost}]
  /\ calls \subseteq Calls
  /\ gestures \in 0 .. MaxGestures /\ generation \in 0 .. 2 * MaxGestures
  /\ controllers \in [workspace : 0 .. gestures, events : 0 .. gestures]
  /\ selected \in Spellings \cup {NoOrder}
  /\ detail \in Shown /\ events \in Shown
  /\ eventsError \in BOOLEAN
  /\ loading \in [DOMAIN Idle -> BOOLEAN]
  /\ summaries \in [Orders -> Versions]

\* The detail and the events on the page are those of the selected order,
\* whatever answers of earlier selections arrive late.
\* (isCurrentSelection, useOrderWorkspace.ts)
ShowsSelected ==
  /\ detail.order \in {NoOrder, Named(selected)}
  /\ events.order \in {NoOrder, Named(selected)}

\* A spinner turns exactly while a call it stands for is in flight for what is
\* selected now: none turns for ever, and a button that one disables cannot be
\* used again before the answer.  (updateLoading, useOrderWorkspace.ts)
EverySpinnerHasItsCall ==
  LET Own == {r \in calls : /\ Named(r.order) = Named(selected) /\ r.generation = generation
                            /\ ~r.aborted}
      Waits(kind) == \E r \in Own : r.kind = kind
  IN  /\ loading.detail <=> \E r \in Own : r.kind = "detail" \/ r.clears
      /\ loading.events <=> Waits("events")
      /\ loading.event  <=> Waits("apply")
      /\ loading.create <=> \E r \in calls : r.kind = "create"

\* No answer takes the user from the order they opened to another one, such as
\* the order whose creation they did not wait for.
\* (selectCreatedOrderIfCurrent, useOrderWorkspace.ts)
KeepsPlace ==
  [][selected # NoOrder /\ selected' # NoOrder => selected' = selected]_vars

\* While an order stays on the page no older version of it replaces the one
\* shown.  (docs/architecture-decisions.md, Frontend Concurrency)
SelectedNeverGoesBack ==
  [][selected' = selected /\ detail # Nothing /\ detail' # Nothing =>
       detail'.version >= detail.version]_vars

\* The answer to an event applied to the order on the page is shown on the page,
\* unless it was refreshed or left in between.  (App.workspace.test.tsx 63)
AppliedIsShown ==
  [][\A r \in calls \ calls' :
       r.kind = "apply" /\ IsFound(r) /\ r.generation = generation =>
         detail'.version >= Answer(r).version]_vars
=============================================================================
