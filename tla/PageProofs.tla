----------------------------- MODULE PageProofs -----------------------------
(***************************************************************************)
(* Proofs about the page: OrderWorkspace, the form in it, EventForm, and   *)
(* the overview around it, OrdersOverview, for every set of orders and     *)
(* gestures, any number of them and whatever other clients do.  What is    *)
(* shown is what is selected; what is typed for an order is never there    *)
(* for another one or sent to it; and each spinner turns exactly while a   *)
(* call it stands for is in flight.                                        *)
(***************************************************************************)
EXTENDS EventForm, OrdersOverview, FiniteSetTheorems, SequenceTheorems, TLAPS

-----------------------------------------------------------------------------
(* The workspace: the inductive invariant *)

Records ==
  [kind : {"list", "detail", "events", "apply", "create"},
   order : Spellings \cup {NoOrder}, generation : Nat, controller : Nat,
   refresh : BOOLEAN, clears : BOOLEAN,
   status : {"pending", "answered", "failed"}, aborted : BOOLEAN,
   answer : [Orders -> Int]]

\* A call was made in this selection or an earlier one; a creation made in this
\* one was made where no order was open, and none is.
IsInPlace(r) ==
  /\ r.generation <= generation
  /\ r.kind = "create" /\ r.generation = generation => selected = NoOrder

WellFormed ==
  /\ generation \in Nat /\ gestures \in Nat
  /\ server \in [Orders -> Int]
  /\ selected \in Spellings \cup {NoOrder}
  /\ calls \subseteq Records

Placed == WellFormed /\ \A r \in calls : IsInPlace(r)

IndInv == Placed /\ ShowsSelected

(***************************************************************************)
(* Aborting changes neither what a call asks nor when it was made.         *)
(* (AbortController.abort, as useOrderWorkspace.ts uses it.)               *)
(***************************************************************************)
LEMMA AbortedCalls ==
  ASSUME NEW rs \in SUBSET Records, NEW cs
  PROVE  /\ Aborted(rs, cs) \subseteq Records
         /\ \A q \in Aborted(rs, cs) :
              \E r \in rs : q.kind = r.kind /\ q.generation = r.generation
<1> SUFFICES ASSUME NEW q \in Aborted(rs, cs)
             PROVE  /\ q \in Records
                    /\ \E r \in rs : q.kind = r.kind /\ q.generation = r.generation
  OBVIOUS
<1>1. \/ q \in rs
      \/ \E r \in rs : q = [r EXCEPT !.aborted = TRUE]
  BY DEF Aborted
<1>2. ASSUME NEW r \in rs
      PROVE  LET a == [r EXCEPT !.aborted = TRUE]
             IN a \in Records /\ a.kind = r.kind /\ a.generation = r.generation
  BY DEF Records
<1> QED
  BY <1>1, <1>2

(***************************************************************************)
(* What a step may do to the calls: it keeps some, perhaps aborted or      *)
(* answered, and makes others in the selection it leaves behind.           *)
(***************************************************************************)
Comes(q, r) == q.kind = r.kind /\ q.generation = r.generation

(***************************************************************************)
(* Calls stay in place if new ones are of the present selection and        *)
(* creations only of one without an order.                                 *)
(***************************************************************************)
LEMMA CallsStayInPlace ==
  ASSUME Placed, WellFormed',
         \/ generation' = generation /\ selected' = selected
         \/ generation' = generation + 1,
         \A q \in calls' :
           \/ \E r \in calls : Comes(q, r)
           \/ q.generation <= generation' /\ (q.kind = "create" => selected' = NoOrder)
  PROVE  Placed'
<1>1. ASSUME NEW q \in calls' PROVE IsInPlace(q)'
  <2>1. CASE \E r \in calls : Comes(q, r)
    <3>1. PICK r \in calls : Comes(q, r)
      BY <2>1
    <3>2. r \in Records /\ r.generation \in Nat /\ IsInPlace(r)
      BY DEF Placed, WellFormed, Records
    <3> QED
      BY <3>1, <3>2 DEF Comes, IsInPlace, Placed, WellFormed
  <2>2. CASE q.generation <= generation' /\ (q.kind = "create" => selected' = NoOrder)
    BY <2>2 DEF IsInPlace
  <2> QED
    BY <1>1, <2>1, <2>2
<1> QED
  BY <1>1 DEF Placed

(***************************************************************************)
(* Loading the workspace of an order starts a selection of its own.        *)
(* (loadWorkspaceOrder.)                                                   *)
(***************************************************************************)
LEMMA LoadKeepsPlace ==
  ASSUME Placed, NEW o \in Spellings, NEW refresh \in BOOLEAN,
         LoadWorkspaceOrder(o, refresh), gestures' = gestures + 1,
         server' = server, selected' = o
  PROVE  Placed'
<1> DEFINE c == gestures + 1
           g == generation + 1
           d == Detail(o, g, c, refresh)
           e == Events(o, g, c, refresh)
           l == List(c, TRUE)
<1>1. c \in Nat /\ g \in Nat
  BY DEF Placed, WellFormed
<1>2. /\ d \in Records /\ d.kind = "detail" /\ d.generation = g
      /\ e \in Records /\ e.kind = "events" /\ e.generation = g
      /\ l \in Records /\ l.kind = "list" /\ l.generation = 0
  <2> HIDE DEF c, g
  <2>1. d \in Records /\ d.kind = "detail" /\ d.generation = g
    BY <1>1 DEF Detail, Call, Records, Absent
  <2>2. e \in Records /\ e.kind = "events" /\ e.generation = g
    BY <1>1 DEF Events, Call, Records, Absent
  <2>3. l \in Records /\ l.kind = "list" /\ l.generation = 0
    BY <1>1 DEF List, Call, Records, Absent
  <2> QED
    BY <2>1, <2>2, <2>3
<1>3. /\ generation' = g
      /\ calls' \subseteq Aborted(calls, BothControllers) \cup {d, e, l}
  BY DEF LoadWorkspaceOrder
<1>4. /\ Aborted(calls, BothControllers) \subseteq Records
      /\ \A q \in Aborted(calls, BothControllers) : \E r \in calls : Comes(q, r)
  BY AbortedCalls DEF Placed, WellFormed, Comes
<1> HIDE DEF c, g, d, e, l
<1>5. WellFormed'
  BY <1>1, <1>2, <1>3, <1>4 DEF Placed, WellFormed, c, g
<1>6. \A q \in calls' :
        \/ \E r \in calls : Comes(q, r)
        \/ q.generation <= generation' /\ (q.kind = "create" => selected' = NoOrder)
  BY <1>1, <1>2, <1>3, <1>4
<1> QED
  BY <1>3, <1>5, <1>6, CallsStayInPlace DEF g

(***************************************************************************)
(* What the user does keeps every call in place.                           *)
(* (openOrder, backToOrders, refreshDashboard, retryAvailableEvents,       *)
(* applyEventToSelectedOrder, createNewOrder.)                             *)
(***************************************************************************)
LEMMA GesturesKeepPlace ==
  ASSUME IndInv,
         \/ \E id \in Spellings : OpenOrder(id)
         \/ BackToOrders \/ RefreshDashboard \/ RetryAvailableEvents
         \/ ApplyEvent \/ CreateOrder
  PROVE  Placed'
<1> USE DEF Gesture
<1> Placed
  BY DEF IndInv
<1>0. generation \in Nat /\ gestures + 1 \in Nat /\ calls \subseteq Records
  BY DEF Placed, WellFormed
<1>1. ASSUME NEW o \in Spellings, OpenOrder(o) PROVE Placed'
  BY <1>1, LoadKeepsPlace DEF OpenOrder
<1>2. CASE BackToOrders
  <2>1. calls' \subseteq Records /\ \A q \in calls' : \E r \in calls : Comes(q, r)
    BY <1>0, <1>2, AbortedCalls DEF BackToOrders, Comes
  <2>2. generation' = generation + 1 /\ WellFormed'
    BY <1>0, <1>2, <2>1 DEF BackToOrders, LeaveOrder, Placed, WellFormed
  <2> QED
    BY <2>1, <2>2, CallsStayInPlace
<1>3. CASE RefreshDashboard
  <2>1. CASE selected # NoOrder
    BY <1>3, <2>1, LoadKeepsPlace DEF RefreshDashboard, Placed, WellFormed
  <2>2. CASE selected = NoOrder
    <3> DEFINE l == List(gestures + 1, TRUE)
    <3>1. l \in Records /\ l.kind = "list" /\ l.generation = 0
      BY <1>0 DEF List, Call, Records, Absent
    <3>2. calls' = calls \cup {l} /\ UNCHANGED <<generation, selected, server>>
      BY <1>3, <2>2 DEF RefreshDashboard, view
    <3> HIDE DEF l
    <3>3. WellFormed'
      BY <1>0, <1>3, <3>1, <3>2 DEF RefreshDashboard, Placed, WellFormed
    <3> QED
      BY <1>0, <3>1, <3>2, <3>3, CallsStayInPlace DEF Comes
  <2> QED
    BY <2>1, <2>2
<1>4. CASE RetryAvailableEvents
  <2> DEFINE e == Events(selected, generation, gestures + 1, FALSE)
  <2>1. e \in Records /\ e.kind = "events" /\ e.generation = generation
    BY <1>0 DEF Events, Call, Records, Absent, Placed, WellFormed
  <2>2. /\ calls' = Aborted(calls, {controllers.events}) \cup {e}
        /\ UNCHANGED <<generation, selected, server>>
    BY <1>4 DEF RetryAvailableEvents, StartAvailableEventsLoad
  <2> HIDE DEF e
  <2>3. \A q \in calls' : q = e \/ (q \in Records /\ \E r \in calls : Comes(q, r))
    BY <1>0, <2>2, AbortedCalls DEF Comes
  <2>4. WellFormed'
    BY <1>0, <1>4, <2>1, <2>2, <2>3 DEF RetryAvailableEvents, Placed, WellFormed
  <2>5. \A q \in calls' :
          \/ \E r \in calls : Comes(q, r)
          \/ q.generation <= generation' /\ (q.kind = "create" => selected' = NoOrder)
    BY <1>0, <2>1, <2>2, <2>3
  <2> QED
    BY <2>2, <2>4, <2>5, CallsStayInPlace
<1>5. CASE ApplyEvent \/ CreateOrder
  <2> DEFINE a == Call("apply", detail.order, generation, gestures + 1, FALSE, FALSE)
             n == Call("create", NoOrder, generation, gestures + 1, FALSE, FALSE)
  <2>a. a \in Records /\ a.kind = "apply" /\ a.generation = generation
    <3>1. Named(selected) \in Orders \cup {NoOrder}
      BY WorkspaceAssumption DEF Named, Placed, WellFormed
    <3>2. detail.order \in Spellings \cup {NoOrder}
      BY <3>1, WorkspaceAssumption DEF IndInv, ShowsSelected
    <3> QED
      BY <1>0, <3>2 DEF Call, Records, Absent
  <2>n. n \in Records /\ n.kind = "create" /\ n.generation = generation
    BY <1>0 DEF Call, Records, Absent
  <2>c. \/ calls' = calls \cup {a}
        \/ calls' = calls \cup {n} /\ selected = NoOrder
    BY <1>5 DEF ApplyEvent, CreateOrder
  <2> HIDE DEF a, n
  <2>1. PICK q : /\ calls' = calls \cup {q}
                 /\ q \in Records /\ q.generation = generation
                 /\ q.kind = "create" => selected = NoOrder
    BY <2>a, <2>n, <2>c
  <2>2. UNCHANGED <<generation, selected, server>> /\ gestures' = gestures + 1
    BY <1>5 DEF ApplyEvent, CreateOrder
  <2>3. WellFormed'
    BY <1>0, <2>1, <2>2 DEF Placed, WellFormed
  <2> QED
    BY <1>0, <2>1, <2>2, <2>3, CallsStayInPlace DEF Comes
<1> QED
  BY <1>1, <1>2, <1>3, <1>4, <1>5

(***************************************************************************)
(* What the API does keeps every call in place.                            *)
(***************************************************************************)
LEMMA ServerKeepsPlace ==
  ASSUME IndInv,
         \/ \E o \in Orders : Foreign(o)
         \/ Restart
         \/ \E r \in calls : ServeRead(r) \/ ServeApply(r) \/ ServeCreate(r) \/ Fail(r)
  PROVE  /\ Placed'
         /\ UNCHANGED view
<1> Placed
  BY DEF IndInv
<1>0. calls \subseteq Records /\ server \in [Orders -> Int] /\ gestures \in Nat
  BY DEF Placed, WellFormed
<1>1. UNCHANGED view
  BY DEF Foreign, Restart, ServeRead, ServeApply, ServeCreate, Fail
<1>2. generation' = generation /\ selected' = selected
  BY <1>1 DEF view
<1>3. server' \in [Orders -> Int] /\ gestures' \in Nat
  <2>1. CASE \E o \in Orders : Foreign(o)
    BY <1>0, <2>1 DEF Foreign, Gesture
  <2>2. CASE Restart
    BY <1>0, <2>2 DEF Restart, Gesture, Lost
  <2>3. CASE \E r \in calls : ServeRead(r) \/ Fail(r)
    BY <1>0, <2>3 DEF ServeRead, Fail
  <2>4. ASSUME NEW r \in calls, ServeApply(r)
        PROVE  server' \in [Orders -> Int] /\ gestures' \in Nat
    <3>1. \/ server' = [server EXCEPT ![r.order] = @ + 1]
          \/ server' = server
      BY <2>4 DEF ServeApply
    <3>2. gestures' = gestures
      BY <2>4 DEF ServeApply
    <3> QED
      BY <1>0, <3>1, <3>2
  <2>5. ASSUME NEW r \in calls, ServeCreate(r)
        PROVE  server' \in [Orders -> Int] /\ gestures' \in Nat
    <3>1. PICK o \in Orders : server' = [server EXCEPT ![o] = 0]
      BY <2>5 DEF ServeCreate
    <3>2. gestures' = gestures
      BY <2>5 DEF ServeCreate
    <3> QED
      BY <1>0, <3>1, <3>2
  <2> QED
    BY <2>1, <2>2, <2>3, <2>4, <2>5
<1>4. ASSUME NEW q \in calls'
      PROVE  q \in Records /\ \E r \in calls : Comes(q, r)
  <2>1. CASE (\E o \in Orders : Foreign(o)) \/ Restart
    BY <1>0, <1>4, <2>1 DEF Foreign, Restart, Comes
  <2>2. ASSUME NEW r \in calls, ServeRead(r) \/ ServeApply(r)
        PROVE  q \in Records /\ \E p \in calls : Comes(q, p)
    <3> DEFINE answer == [o \in Orders |-> IF r.kind = "list" \/ o = Named(r.order)
                                           THEN server'[o] ELSE Absent]
    <3>1. PICK status \in {"answered", "failed"} :
            calls' = (calls \ {r}) \cup
                       {[r EXCEPT !.status = status, !.answer = answer]}
      BY <2>2 DEF ServeRead, ServeApply, Answered
    <3>2. answer \in [Orders -> Int]
      BY <1>3 DEF Absent
    <3>3. r \in Records
      BY <1>0, <2>2
    <3> HIDE DEF answer
    <3>4. LET a == [r EXCEPT !.status = status, !.answer = answer]
          IN a \in Records /\ Comes(a, r)
      BY <3>2, <3>3 DEF Records, Comes
    <3> QED
      BY <1>0, <1>4, <2>2, <3>1, <3>4 DEF Comes
  <2>3. ASSUME NEW r \in calls, ServeCreate(r)
        PROVE  q \in Records /\ \E p \in calls : Comes(q, p)
    <3>1. PICK o \in Orders, status \in {"answered", "failed"} :
            calls' = (calls \ {r}) \cup
            {[r EXCEPT !.status = status, !.order = o,
                       !.answer = [p \in Orders |-> IF p = o THEN 0 ELSE Absent]]}
      BY <2>3 DEF ServeCreate
    <3> DEFINE answer == [p \in Orders |-> IF p = o THEN 0 ELSE Absent]
    <3>2. answer \in [Orders -> Int]
      BY DEF Absent
    <3>3. r \in Records
      BY <1>0, <2>3
    <3> HIDE DEF answer
    <3>4. LET a == [r EXCEPT !.status = status, !.order = o, !.answer = answer]
          IN a \in Records /\ Comes(a, r)
      BY <3>2, <3>3, WorkspaceAssumption DEF Records, Comes
    <3> QED
      BY <1>0, <1>4, <2>3, <3>1, <3>4 DEF Comes, answer
  <2>4. ASSUME NEW r \in calls, Fail(r)
        PROVE  q \in Records /\ \E p \in calls : Comes(q, p)
    <3>1. calls' = (calls \ {r}) \cup {[r EXCEPT !.status = "failed"]}
      BY <2>4 DEF Fail
    <3>2. [r EXCEPT !.status = "failed"] \in Records
          /\ Comes([r EXCEPT !.status = "failed"], r)
      BY <1>0, <2>4 DEF Records, Comes
    <3> QED
      BY <1>0, <1>4, <2>4, <3>1, <3>2 DEF Comes
  <2> QED
    BY <2>1, <2>2, <2>3, <2>4
<1>5. WellFormed'
  BY <1>2, <1>3, <1>4 DEF Placed, WellFormed
<1> QED
  BY <1>1, <1>2, <1>4, <1>5, CallsStayInPlace

(***************************************************************************)
(* Continuations that select nothing keep every call in place.             *)
(***************************************************************************)
LEMMA AnswersKeepPlace ==
  ASSUME IndInv, NEW r \in calls,
         Cancel(r) \/ ReceiveList(r) \/ ReceiveDetail(r) \/ ReceiveEvents(r)
           \/ ReceiveApplied(r) \/ ReceiveNotCreated(r)
  PROVE  Placed' /\ generation' = generation /\ selected' = selected
<1> Placed
  BY DEF IndInv
<1>0. calls \subseteq Records /\ r \in Records
  BY DEF Placed, WellFormed
<1>1. /\ generation' = generation /\ selected' = selected
      /\ server' = server /\ gestures' = gestures
  BY DEF Cancel, ReceiveList, ReceiveDetail, ReceiveEvents, ReceiveApplied,
         ReceiveNotCreated, Settles, view
<1>2. ASSUME NEW q \in calls'
      PROVE  /\ q \in Records
             /\ \/ \E p \in calls : Comes(q, p)
                \/ q.generation <= generation' /\ q.kind # "create"
  <2>1. CASE calls' = calls \ {r}
    BY <1>0, <1>2, <2>1 DEF Comes
  <2>2. CASE ReceiveDetail(r)
    <3> DEFINE l == Call("list", r.order, r.generation, r.controller, r.refresh, TRUE)
    <3>1. l \in Records /\ l.kind = "list" /\ l.generation = r.generation
      BY <1>0 DEF Call, Records, Absent
    <3>2. calls' = calls \ {r} \/ calls' = (calls \ {r}) \cup {l}
      BY <2>2 DEF ReceiveDetail
    <3>3. r.generation <= generation
      BY DEF Placed, IsInPlace
    <3> HIDE DEF l
    <3> QED
      BY <1>0, <1>1, <1>2, <3>1, <3>2, <3>3 DEF Comes
  <2>3. CASE ReceiveApplied(r) /\ IsCurrent(r)
    <3> DEFINE e == Events(r.order, r.generation, r.controller, FALSE)
    <3>1. e \in Records /\ e.kind = "events" /\ e.generation = r.generation
      BY <1>0 DEF Events, Call, Records, Absent
    <3>2. calls' = Aborted(calls \ {r}, {controllers.events}) \cup {e}
      BY <2>3 DEF ReceiveApplied
    <3>3. r.generation <= generation
      BY DEF Placed, IsInPlace
    <3> HIDE DEF e
    <3>4. q = e \/ (q \in Records /\ \E p \in calls : Comes(q, p))
      BY <1>0, <1>2, <3>2, AbortedCalls DEF Comes
    <3> QED
      BY <1>1, <3>1, <3>3, <3>4
  <2> QED
    BY <2>1, <2>2, <2>3 DEF Cancel, ReceiveList, ReceiveEvents, ReceiveApplied,
                            ReceiveNotCreated
<1>3. WellFormed'
  BY <1>1, <1>2 DEF Placed, WellFormed
<1> QED
  BY <1>1, <1>2, <1>3, CallsStayInPlace

(***************************************************************************)
(* So do the continuations that open the created order or leave a missing  *)
(* one: both begin a selection. (selectCreatedOrderIfCurrent; the 404 of   *)
(* applyEventToSelectedOrder.)                                             *)
(***************************************************************************)
LEMMA SelectionsKeepPlace ==
  ASSUME IndInv, NEW r \in calls, ReceiveCreated(r) \/ ReceiveNotApplied(r)
  PROVE  Placed'
<1> Placed
  BY DEF IndInv
<1>0. /\ calls \subseteq Records /\ r \in Records
      /\ generation \in Nat /\ generation + 1 \in Nat
  BY DEF Placed, WellFormed
<1>1. server' = server /\ gestures' = gestures
  BY DEF ReceiveCreated, ReceiveNotApplied, Settles
<1>2. CASE calls' = calls \ {r} /\ generation' = generation /\ selected' = selected
  <2>1. WellFormed'
    BY <1>1, <1>2 DEF Placed, WellFormed
  <2> QED
    BY <1>2, <2>1, CallsStayInPlace DEF Comes
<1>3. ASSUME NEW n \in Records, NEW cs,
             calls' = Aborted(calls \ {r}, cs) \cup {n},
             n.generation <= generation + 1, n.kind # "create",
             generation' = generation + 1, selected' \in {r.order, NoOrder}
      PROVE  Placed'
  <2>1. \A q \in calls' : q = n \/ (q \in Records /\ \E p \in calls : Comes(q, p))
    BY <1>0, <1>3, AbortedCalls DEF Comes
  <2>2. r.order \in Spellings \cup {NoOrder}
    BY <1>0 DEF Records
  <2>3. WellFormed'
    BY <1>0, <1>1, <1>3, <2>1, <2>2 DEF Placed, WellFormed
  <2> QED
    BY <1>3, <2>1, <2>3, CallsStayInPlace
<1>4. CASE ReceiveCreated(r) /\ IsStillThere(r)
  <2> DEFINE n == Events(r.order, generation + 1, r.controller, FALSE)
  <2>1. n \in Records /\ n.kind = "events" /\ n.generation = generation + 1
    BY <1>0 DEF Events, Call, Records, Absent
  <2>2. /\ calls' = Aborted(calls \ {r}, BothControllers) \cup {n}
        /\ generation' = generation + 1 /\ selected' = r.order
    BY <1>4 DEF ReceiveCreated
  <2> HIDE DEF n
  <2> QED
    BY <1>0, <1>3, <2>1, <2>2
<1>5. CASE ReceiveNotApplied(r) /\ IsCurrent(r) /\ IsMissing(r)
  <2> DEFINE n == List(r.controller, FALSE)
  <2>1. n \in Records /\ n.kind = "list" /\ n.generation = 0
    BY <1>0 DEF List, Call, Records, Absent
  <2>2. /\ calls' = Aborted(calls \ {r}, BothControllers) \cup {n}
        /\ generation' = generation + 1 /\ selected' = NoOrder
    BY <1>5 DEF ReceiveNotApplied, LeaveOrder
  <2> HIDE DEF n
  <2> QED
    BY <1>0, <1>3, <2>1, <2>2
<1> QED
  BY <1>2, <1>4, <1>5 DEF ReceiveCreated, ReceiveNotApplied

(***************************************************************************)
(* The page shows the selected order after every step. (isCurrentSelection *)
(* guards each continuation that writes selectedOrder or availableEvents.) *)
(***************************************************************************)
LEMMA StepShowsSelected ==
  ASSUME ShowsSelected, [Next]_vars
  PROVE  ShowsSelected'
<1> USE DEF ShowsSelected
<1>0. Nothing.order = NoOrder /\ \A r : Answer(r).order = Named(r.order)
  BY DEF Nothing, Answer
<1>1. CASE BackToOrders \/ \E id \in Spellings : OpenOrder(id)
  BY <1>0, <1>1 DEF BackToOrders, LeaveOrder, OpenOrder
<1>2. CASE RefreshDashboard \/ RetryAvailableEvents \/ ApplyEvent \/ CreateOrder
  BY <1>2 DEF RefreshDashboard, RetryAvailableEvents, ApplyEvent, CreateOrder, view
<1>3. CASE Restart \/ \E o \in Orders : Foreign(o)
  BY <1>3 DEF Restart, Foreign, view
<1>4. ASSUME NEW r \in calls, Deliver(r) PROVE ShowsSelected'
  <2>1. CASE ServeRead(r) \/ ServeApply(r) \/ ServeCreate(r) \/ Fail(r) \/ Cancel(r)
    BY <2>1 DEF ServeRead, ServeApply, ServeCreate, Fail, Cancel, view
  <2>2. CASE ReceiveList(r) \/ ReceiveNotCreated(r)
    BY <2>2 DEF ReceiveList, ReceiveNotCreated
  <2>3. CASE ReceiveDetail(r)
    BY <1>0, <2>3 DEF ReceiveDetail, IsCurrent
  <2>4. CASE ReceiveEvents(r)
    BY <1>0, <2>4 DEF ReceiveEvents, IsCurrent
  <2>5. CASE ReceiveApplied(r)
    BY <1>0, <2>5 DEF ReceiveApplied, IsCurrent
  <2>6. CASE ReceiveNotApplied(r)
    BY <1>0, <2>6 DEF ReceiveNotApplied, LeaveOrder
  <2>7. CASE ReceiveCreated(r)
    BY <1>0, <2>7 DEF ReceiveCreated
  <2> QED
    BY <1>4, <2>1, <2>2, <2>3, <2>4, <2>5, <2>6, <2>7 DEF Deliver
<1>5. CASE UNCHANGED vars
  BY <1>5 DEF vars, view
<1> QED
  BY <1>1, <1>2, <1>3, <1>4, <1>5 DEF Next, Rest

(***************************************************************************)
(* The inductive invariant holds at the start, and every step keeps it.    *)
(***************************************************************************)
LEMMA InitInPlace ==
  ASSUME Init
  PROVE  IndInv
BY WorkspaceAssumption DEF Init, IndInv, Placed, WellFormed, IsInPlace, ShowsSelected,
   Nothing, List, Call, Records, Absent

(***************************************************************************)
(* Every gesture and every answer keeps the invariant.                     *)
(***************************************************************************)
LEMMA StepKeepsInvariant ==
  ASSUME IndInv, [Next]_vars
  PROVE  IndInv'
<1>1. ShowsSelected'
  BY StepShowsSelected DEF IndInv
<1>2. Placed'
  <2>1. CASE UNCHANGED vars
    BY <2>1 DEF vars, view, IndInv, Placed, WellFormed, IsInPlace
  <2>2. CASE Next
    BY <2>1, <2>2, GesturesKeepPlace, ServerKeepsPlace, AnswersKeepPlace,
       SelectionsKeepPlace DEF Next, Deliver, Rest
  <2> QED
    BY <2>1, <2>2
<1> QED
  BY <1>1, <1>2 DEF IndInv

(***************************************************************************)
(* The inductive invariant holds of every behaviour: calls are of this     *)
(* selection or an earlier one, and no order is open while a creation of   *)
(* this selection is in flight.                                            *)
(***************************************************************************)
THEOREM Invariance == Spec => []IndInv
BY InitInPlace, StepKeepsInvariant, PTL DEF Spec

(***************************************************************************)
(* The workspace shows the selected order or none, however late answers    *)
(* come, whatever was aborted and however often the user moves.            *)
(* (isCurrentSelection, useOrderWorkspace.ts)                              *)
(***************************************************************************)
THEOREM ShownIsSelected == Spec => []ShowsSelected
<1>1. IndInv => ShowsSelected
  BY DEF IndInv
<1> QED
  BY <1>1, Invariance, PTL

(***************************************************************************)
(* No step goes from an order to another one: a created order is selected  *)
(* only where its creation began, and there no order is open.              *)
(***************************************************************************)
LEMMA StepKeepsPlace ==
  ASSUME IndInv, [Next]_vars, selected # NoOrder, selected' # NoOrder
  PROVE  selected' = selected
<1>1. CASE Next
  <2>1. CASE \E r \in calls : ReceiveCreated(r)
    BY <2>1 DEF ReceiveCreated, Settles, IsStillThere, IndInv, Placed, IsInPlace
  <2>2. CASE \E r \in calls : ReceiveNotApplied(r)
    BY <2>2 DEF ReceiveNotApplied, LeaveOrder
  <2>3. CASE BackToOrders \/ (\E id \in Spellings : OpenOrder(id))
    BY <2>3 DEF BackToOrders, LeaveOrder, OpenOrder
  <2>4. CASE RefreshDashboard \/ RetryAvailableEvents \/ ApplyEvent \/ CreateOrder
    BY <2>4 DEF RefreshDashboard, RetryAvailableEvents, ApplyEvent, CreateOrder, view
  <2>5. CASE Restart \/ (\E o \in Orders : Foreign(o)) \/ Rest
    BY <2>5 DEF Restart, Foreign, Rest, view, vars
  <2>6. CASE \E r \in calls : ServeRead(r) \/ ServeApply(r) \/ ServeCreate(r) \/ Fail(r)
    BY <2>6 DEF ServeRead, ServeApply, ServeCreate, Fail, view
  <2>7. CASE \E r \in calls : Cancel(r) \/ ReceiveList(r) \/ ReceiveDetail(r)
                 \/ ReceiveEvents(r) \/ ReceiveApplied(r) \/ ReceiveNotCreated(r)
    BY <2>7, AnswersKeepPlace
  <2> QED
    BY <1>1, <2>1, <2>2, <2>3, <2>4, <2>5, <2>6, <2>7 DEF Next, Deliver
<1>2. CASE UNCHANGED vars
  BY <1>2 DEF vars, view
<1> QED
  BY <1>1, <1>2

(***************************************************************************)
(* No answer takes the user from an order they opened to another one.      *)
(* (selectCreatedOrderIfCurrent, useOrderWorkspace.ts)                     *)
(***************************************************************************)
THEOREM PlaceIsKept == Spec => KeepsPlace
<1>1. IndInv /\ [Next]_vars =>
        [selected # NoOrder /\ selected' # NoOrder => selected' = selected]_vars
  BY StepKeepsPlace
<1> QED
  BY <1>1, Invariance, PTL DEF Spec, KeepsPlace


-----------------------------------------------------------------------------
(* The form: the inductive invariant *)

\* A call says which order it is about, and comes from one of the gestures made.
IsAddressed(r, made) ==
  /\ r.controller <= made
  /\ r.clears => r.kind = "list"
  /\ r.kind \in {"detail", "events", "apply"} => r.order \in Spellings
  /\ r.kind = "create" /\ r.status = "answered" => r.order \in Spellings

\* What an event call asks was typed for its order, or for none.
Carries(r) ==
  r.kind = "apply" =>
    r.controller \in DOMAIN requests /\ requests[r.controller].for \in {NoOrder, r.order}

\* A gesture sends one event.
OneEventPerGesture ==
  \A p, q \in calls :
    p.kind = "apply" /\ q.kind = "apply" /\ p.controller = q.controller => p = q

CallsCarry == (\A r \in calls : IsAddressed(r, gestures) /\ Carries(r)) /\ OneEventPerGesture

\* An order is shown only where it is selected.
DetailIsSelected == detail # Nothing => selected # NoOrder /\ detail.order = Named(selected)

Forms ==
  [instance : Nat, event : Lifecycle!Events \cup {""}, metadata : Texts,
   error : BOOLEAN, for : Orders \cup {NoOrder}]

FormFits == form \in Forms /\ form.for \in {NoOrder, detail.order}

FormInv == IndInv /\ CallsCarry /\ DetailIsSelected /\ FormFits

-----------------------------------------------------------------------------
(* What steps do to calls *)

\* q is the call p, perhaps aborted.
Continues(q, p) ==
  /\ q.kind = p.kind /\ q.order = p.order /\ q.controller = p.controller
  /\ q.clears = p.clears /\ q.status = p.status
  /\ q.kind = "apply" => q = p

(***************************************************************************)
(* Aborting leaves event calls alone. (applyEventToSelectedOrder passes no *)
(* signal.)                                                                *)
(***************************************************************************)
LEMMA AbortedContinue ==
  ASSUME NEW rs \in SUBSET Records, NEW cs, \A r \in rs : r.clears => r.kind = "list",
         NEW q \in Aborted(rs, cs)
  PROVE  \E p \in rs : Continues(q, p)
<1>1. \/ q \in rs
      \/ \E r \in rs : q = [r EXCEPT !.aborted = TRUE] /\ (HasSignal(r) \/ r.clears)
  BY DEF Aborted
<1>2. ASSUME NEW r \in rs, HasSignal(r) \/ r.clears, q = [r EXCEPT !.aborted = TRUE]
      PROVE  Continues(q, r)
  <2>1. r \in Records /\ r.kind # "apply"
    BY <1>2 DEF HasSignal
  <2> QED
    BY <1>2, <2>1 DEF Continues, Records
<1> QED
  BY <1>1, <1>2 DEF Continues

(***************************************************************************)
(* A step that only continues calls, ends some and makes others that apply *)
(* no event.                                                               *)
(***************************************************************************)
LEMMA ContinuedCallsCarry ==
  ASSUME FormInv, gestures' \in {gestures, gestures + 1},
         NEW rs \in SUBSET calls,
         \A q \in calls' :
           \/ \E p \in rs : Continues(q, p)
           \/ q.kind # "apply" /\ IsAddressed(q, gestures'),
         \A p \in rs : p.kind = "apply" =>
           /\ p.controller \in DOMAIN requests'
           /\ requests'[p.controller] = requests[p.controller]
  PROVE  CallsCarry'
<1>0. gestures \in Nat /\ \A r \in calls : r \in Records /\ r.controller \in Nat
  BY DEF FormInv, IndInv, Placed, WellFormed, Records
<1>1. ASSUME NEW q \in calls' PROVE IsAddressed(q, gestures') /\ Carries(q)'
  <2>1. CASE \E p \in rs : Continues(q, p)
    <3>1. PICK p \in rs : Continues(q, p)
      BY <2>1
    <3>2. IsAddressed(p, gestures) /\ Carries(p) /\ p.controller \in Nat
      BY <1>0 DEF FormInv, CallsCarry
    <3> QED
      BY <1>0, <3>1, <3>2 DEF Continues, IsAddressed, Carries
  <2>2. CASE q.kind # "apply" /\ IsAddressed(q, gestures')
    BY <2>2 DEF Carries
  <2> QED
    BY <1>1, <2>1, <2>2
<1>2. \A q \in calls' : q.kind = "apply" => q \in calls
  BY DEF Continues
<1>3. OneEventPerGesture'
  BY <1>2 DEF FormInv, CallsCarry, OneEventPerGesture
<1> QED
  BY <1>1, <1>3 DEF CallsCarry

(***************************************************************************)
(* The API serves a call, or the call fails.                               *)
(***************************************************************************)
LEMMA ServedCallsCarry ==
  ASSUME FormInv, NEW r \in calls, NEW n,
         calls' = (calls \ {r}) \cup {n},
         n.kind = r.kind, n.controller = r.controller, n.clears = r.clears,
         IF r.kind = "create" THEN n.status = "answered" => n.order \in Spellings
         ELSE n.order = r.order,
         gestures' = gestures, requests' = requests
  PROVE  CallsCarry'
<1>1. \A q \in calls : IsAddressed(q, gestures) /\ Carries(q)
  BY DEF FormInv, CallsCarry
<1>2. IsAddressed(n, gestures') /\ Carries(n)'
  BY <1>1 DEF IsAddressed, Carries
<1>3. \A q \in calls' : IsAddressed(q, gestures') /\ Carries(q)'
  BY <1>1, <1>2 DEF IsAddressed, Carries
<1>4. OneEventPerGesture'
  BY DEF FormInv, CallsCarry, OneEventPerGesture
<1> QED
  BY <1>3, <1>4 DEF CallsCarry

-----------------------------------------------------------------------------
(* The steps of the form are steps of the workspace, or touch only it.     *)

Touched ==
  /\ gestures < MaxGestures /\ gestures' = gestures + 1
  /\ UNCHANGED <<server, calls, view>>

(***************************************************************************)
(* Whatever the form adds, the workspace below it does what it does alone. *)
(***************************************************************************)
LEMMA FormSteps ==
  ASSUME FormNext
  PROVE  [Next]_vars \/ Touched
<1>1. CASE \/ \E event \in Lifecycle!Events : ChooseEvent(event)
           \/ \E text \in Texts : TypeMetadata(text)
           \/ SubmitBroken
  BY <1>1 DEF ChooseEvent, TypeMetadata, SubmitBroken, Touch, Gesture, Touched
<1>2. CASE \/ Submit
           \/ \E o \in Orders, event \in ForeignEvents : ForeignEvent(o, event)
           \/ \E r \in calls : ServeEvent(r) \/ ServeNewOrder(r) \/ SettleEvent(r)
  BY <1>2 DEF Submit, ForeignEvent, ServeEvent, ServeNewOrder, SettleEvent, Next, Deliver
<1>3. CASE ReceiveDefinition
  BY <1>3 DEF ReceiveDefinition
<1>4. CASE Elsewhere \/ Rest
  BY <1>4 DEF Elsewhere, Next, Deliver
<1> QED
  BY <1>1, <1>2, <1>3, <1>4 DEF FormNext

-----------------------------------------------------------------------------
(* Every step keeps what is asked with what it was asked for.              *)

(***************************************************************************)
(* What the user does around the form.                                     *)
(***************************************************************************)
LEMMA GesturesCarry ==
  ASSUME FormInv, requests' = requests,
         \/ \E id \in Spellings : OpenOrder(id)
         \/ BackToOrders \/ RefreshDashboard \/ RetryAvailableEvents \/ CreateOrder
  PROVE  CallsCarry'
<1> DEFINE c == gestures + 1
<1>0. /\ calls \subseteq Records /\ gestures \in Nat /\ c \in Nat /\ c <= gestures + 1
      /\ selected \in Spellings \cup {NoOrder}
      /\ \A r \in calls : r.clears => r.kind = "list"
  BY DEF FormInv, IndInv, Placed, WellFormed, CallsCarry, IsAddressed
<1>1. gestures' = c
  BY DEF OpenOrder, BackToOrders, RefreshDashboard, RetryAvailableEvents, CreateOrder, Gesture
<1> HIDE DEF c
<1>2. ASSUME NEW cs, NEW q \in Aborted(calls, cs)
      PROVE  \E p \in calls : Continues(q, p)
  BY <1>0, <1>2, AbortedContinue
<1>3. \A q \in calls : Continues(q, q)
  BY DEF Continues
<1>4. ASSUME NEW kind \in {"list", "detail", "events", "create"}, NEW o, NEW g, NEW refresh,
             o \in Spellings \/ kind \in {"list", "create"}
      PROVE  /\ Call(kind, o, g, c, refresh, FALSE).kind # "apply"
             /\ IsAddressed(Call(kind, o, g, c, refresh, FALSE), gestures')
  BY <1>0, <1>1, <1>4 DEF Call, IsAddressed
<1>5. ASSUME NEW q \in calls'
      PROVE  \/ \E p \in calls : Continues(q, p)
             \/ q.kind # "apply" /\ IsAddressed(q, gestures')
  <2>1. CASE BackToOrders
    BY <1>2, <1>5, <2>1 DEF BackToOrders
  <2>2. ASSUME NEW o \in Spellings, NEW refresh \in BOOLEAN, LoadWorkspaceOrder(o, refresh)
        PROVE  \/ \E p \in calls : Continues(q, p)
               \/ q.kind # "apply" /\ IsAddressed(q, gestures')
    <3>1. \/ q \in Aborted(calls, BothControllers)
          \/ q \in {Call("detail", o, generation + 1, c, refresh, FALSE),
                    Call("events", o, generation + 1, c, refresh, FALSE),
                    Call("list", NoOrder, 0, c, TRUE, FALSE)}
      BY <1>5, <2>2 DEF LoadWorkspaceOrder, Detail, Events, List, c
    <3> QED
      BY <1>2, <1>4, <3>1
  <2>3. CASE \E id \in Spellings : OpenOrder(id)
    BY <2>2, <2>3 DEF OpenOrder
  <2>4. CASE RefreshDashboard /\ selected # NoOrder
    BY <1>0, <2>2, <2>4 DEF RefreshDashboard
  <2>5. CASE RefreshDashboard /\ selected = NoOrder
    <3>1. q \in calls \/ q = Call("list", NoOrder, 0, c, TRUE, FALSE)
      BY <1>5, <2>5 DEF RefreshDashboard, List, c
    <3> QED
      BY <1>3, <1>4, <3>1
  <2>6. CASE RetryAvailableEvents
    <3>1. \/ q \in Aborted(calls, {controllers.events})
          \/ q = Call("events", selected, generation, c, FALSE, FALSE)
      BY <1>5, <2>6 DEF RetryAvailableEvents, StartAvailableEventsLoad, Events, c
    <3>2. selected \in Spellings
      BY <1>0, <2>6 DEF RetryAvailableEvents, FormInv, DetailIsSelected
    <3> QED
      BY <1>2, <1>4, <3>1, <3>2
  <2>7. CASE CreateOrder
    <3>1. q \in calls \/ q = Call("create", NoOrder, generation, c, FALSE, FALSE)
      BY <1>5, <2>7 DEF CreateOrder, c
    <3> QED
      BY <1>3, <1>4, <3>1
  <2> QED
    BY <2>1, <2>3, <2>4, <2>5, <2>6, <2>7
<1>6. \A p \in calls : p.kind = "apply" =>
        p.controller \in DOMAIN requests' /\ requests'[p.controller] = requests[p.controller]
  BY DEF FormInv, CallsCarry, Carries
<1> QED
  BY <1>1, <1>5, <1>6, ContinuedCallsCarry DEF c

(***************************************************************************)
(* What the API does.                                                      *)
(***************************************************************************)
LEMMA ServerCarries ==
  ASSUME FormInv, requests' = requests, NEW r \in calls,
         ServeRead(r) \/ ServeApply(r) \/ ServeCreate(r) \/ Fail(r)
  PROVE  CallsCarry'
<1>0. r \in Records /\ gestures' = gestures
  BY DEF FormInv, IndInv, Placed, WellFormed, ServeRead, ServeApply, ServeCreate, Fail
<1>1. CASE ServeRead(r) \/ ServeApply(r)
  <2>1. PICK status \in {"answered", "failed"} : Answered(r, status)
    BY <1>1 DEF ServeRead, ServeApply
  <2>2. PICK answer : calls' = (calls \ {r}) \cup
                                {[r EXCEPT !.status = status, !.answer = answer]}
    BY <2>1 DEF Answered
  <2>3. r.kind # "create"
    BY <1>1 DEF ServeRead, ServeApply
  <2> DEFINE n == [r EXCEPT !.status = status, !.answer = answer]
  <2>4. /\ n.kind = r.kind /\ n.controller = r.controller /\ n.clears = r.clears
        /\ n.order = r.order
    BY <1>0 DEF Records
  <2> HIDE DEF n
  <2> QED
    BY <1>0, <2>2, <2>3, <2>4, ServedCallsCarry DEF n
<1>2. CASE ServeCreate(r)
  <2>0. PICK o \in Orders, status \in {"answered", "failed"} :
          \E answer : calls' = (calls \ {r}) \cup
            {[r EXCEPT !.status = status, !.order = o, !.answer = answer]}
    BY <1>2 DEF ServeCreate
  <2>1. PICK answer : calls' = (calls \ {r}) \cup
          {[r EXCEPT !.status = status, !.order = o, !.answer = answer]}
    BY <2>0
  <2> DEFINE n == [r EXCEPT !.status = status, !.order = o, !.answer = answer]
  <2>2. /\ n.kind = r.kind /\ n.controller = r.controller /\ n.clears = r.clears
        /\ n.order = o /\ r.kind = "create"
    BY <1>0, <1>2 DEF Records, ServeCreate
  <2> HIDE DEF n
  <2> QED
    BY <1>0, <2>1, <2>2, WorkspaceAssumption, ServedCallsCarry DEF n
<1>3. CASE Fail(r)
  <2> DEFINE n == [r EXCEPT !.status = "failed"]
  <2>1. /\ n.kind = r.kind /\ n.controller = r.controller /\ n.clears = r.clears
        /\ n.order = r.order /\ n.status = "failed"
    BY <1>0 DEF Records
  <2>2. calls' = (calls \ {r}) \cup {n}
    BY <1>3 DEF Fail
  <2> HIDE DEF n
  <2> QED
    BY <1>0, <2>1, <2>2, ServedCallsCarry
<1> QED
  BY <1>1, <1>2, <1>3

(***************************************************************************)
(* What the workspace does with an answer: the call is over, and what it   *)
(* asked is forgotten where it applied an event.                           *)
(***************************************************************************)
LEMMA AnswersCarry ==
  ASSUME FormInv, NEW r \in calls,
         \/ /\ Cancel(r) \/ ReceiveList(r) \/ ReceiveDetail(r) \/ ReceiveEvents(r)
               \/ ReceiveCreated(r) \/ ReceiveNotCreated(r)
            /\ requests' = requests
         \/ SettleEvent(r)
  PROVE  CallsCarry'
<1> DEFINE rs == calls \ {r}
<1>0. /\ calls \subseteq Records /\ r \in Records /\ gestures \in Nat
      /\ \A p \in calls : IsAddressed(p, gestures) /\ Carries(p)
      /\ \A p \in rs : p.clears => p.kind = "list"
  BY DEF FormInv, IndInv, Placed, WellFormed, CallsCarry, IsAddressed
<1>1. gestures' = gestures
  BY DEF Cancel, ReceiveList, ReceiveDetail, ReceiveEvents, ReceiveCreated,
         ReceiveNotCreated, SettleEvent, ReceiveApplied, ReceiveNotApplied, Settles
<1>2. ASSUME NEW cs, NEW q \in Aborted(rs, cs)
      PROVE  \E p \in rs : Continues(q, p)
  BY <1>0, <1>2, AbortedContinue
<1>3. \A q \in rs : Continues(q, q)
  BY DEF Continues
<1>4. ASSUME NEW kind \in {"list", "events"}, NEW o, NEW g, NEW refresh, NEW clears,
             kind = "list" \/ (o \in Spellings /\ ~clears)
      PROVE  /\ Call(kind, o, g, r.controller, refresh, clears).kind # "apply"
             /\ IsAddressed(Call(kind, o, g, r.controller, refresh, clears), gestures')
  BY <1>0, <1>1, <1>4 DEF Call, IsAddressed
<1> HIDE DEF rs
<1>5. ASSUME NEW q \in calls'
      PROVE  \/ \E p \in rs : Continues(q, p)
             \/ q.kind # "apply" /\ IsAddressed(q, gestures')
  <2>1. CASE calls' = calls \ {r}
    BY <1>3, <1>5, <2>1 DEF rs
  <2>2. CASE ReceiveDetail(r)
    <3>1. \/ q \in rs
          \/ q = Call("list", r.order, r.generation, r.controller, r.refresh, TRUE)
      BY <1>5, <2>2 DEF ReceiveDetail, rs
    <3> QED
      BY <1>3, <1>4, <3>1
  <2>3. CASE ReceiveApplied(r) /\ IsCurrent(r)
    <3>1. \/ q \in Aborted(rs, {controllers.events})
          \/ q = Call("events", r.order, r.generation, r.controller, FALSE, FALSE)
      BY <1>5, <2>3 DEF ReceiveApplied, Events, rs
    <3>2. r.order \in Spellings
      BY <1>0, <2>3 DEF ReceiveApplied, Settles, IsAddressed
    <3> QED
      BY <1>2, <1>4, <3>1, <3>2
  <2>4. CASE ReceiveNotApplied(r) /\ IsCurrent(r) /\ IsMissing(r)
    <3>1. \/ q \in Aborted(rs, BothControllers)
          \/ q = Call("list", NoOrder, 0, r.controller, FALSE, FALSE)
      BY <1>5, <2>4 DEF ReceiveNotApplied, List, rs
    <3> QED
      BY <1>2, <1>4, <3>1
  <2>5. CASE ReceiveCreated(r) /\ IsStillThere(r)
    <3>1. \/ q \in Aborted(rs, BothControllers)
          \/ q = Call("events", r.order, generation + 1, r.controller, FALSE, FALSE)
      BY <1>5, <2>5 DEF ReceiveCreated, Events, rs
    <3>2. r.order \in Spellings
      BY <1>0, <2>5 DEF ReceiveCreated, Settles, IsFound, IsAddressed
    <3> QED
      BY <1>2, <1>4, <3>1, <3>2
  <2> QED
    BY <2>1, <2>2, <2>3, <2>4, <2>5
       DEF Cancel, ReceiveList, ReceiveEvents, ReceiveCreated, ReceiveNotCreated,
           SettleEvent, ReceiveApplied, ReceiveNotApplied
<1>6. ASSUME NEW p \in rs, p.kind = "apply"
      PROVE  p.controller \in DOMAIN requests' /\ requests'[p.controller] = requests[p.controller]
  <2>1. p.controller \in DOMAIN requests
    BY <1>0, <1>6 DEF Carries, rs
  <2>2. CASE SettleEvent(r)
    <3>1. r.kind = "apply"
      BY <2>2 DEF SettleEvent, ReceiveApplied, ReceiveNotApplied, Settles
    <3>2. p.controller # r.controller
      BY <1>6, <3>1 DEF FormInv, CallsCarry, OneEventPerGesture, rs
    <3> QED
      BY <2>1, <2>2, <3>2 DEF SettleEvent
  <2> QED
    BY <2>1, <2>2
<1>7. rs \subseteq calls
  BY DEF rs
<1> QED
  BY <1>1, <1>5, <1>6, <1>7, ContinuedCallsCarry

(***************************************************************************)
(* So calls keep carrying what was typed for their order.                  *)
(***************************************************************************)
LEMMA StepCarries ==
  ASSUME FormInv, [FormNext]_<<vars, formVars>>
  PROVE  CallsCarry'
<1> USE DEF FormInv, CallsCarry
<1>1. CASE \/ UNCHANGED <<vars, formVars>>
           \/ \E event \in Lifecycle!Events : ChooseEvent(event)
           \/ \E text \in Texts : TypeMetadata(text)
           \/ SubmitBroken \/ ReceiveDefinition \/ (Rest /\ UNCHANGED formVars)
           \/ \E o \in Orders, event \in ForeignEvents : ForeignEvent(o, event)
           \/ Restart /\ UNCHANGED requests
  <2>1. /\ calls' = calls /\ requests' = requests
        /\ gestures' \in {gestures, gestures + 1}
    BY <1>1 DEF ChooseEvent, TypeMetadata, SubmitBroken, Touch, ReceiveDefinition, Rest,
       ForeignEvent, Foreign, Restart, Gesture, vars, formVars
  <2>2. \A p \in calls : p.kind = "apply" => p.controller \in DOMAIN requests
    BY DEF Carries
  <2>3. \A q \in calls : Continues(q, q)
    BY DEF Continues
  <2> QED
    BY <2>1, <2>2, <2>3, ContinuedCallsCarry
<1>2. CASE Submit
  <2>0. PICK a : a = Call("apply", detail.order, generation, gestures + 1, FALSE, FALSE)
    OBVIOUS
  <2> DEFINE asked == [event |-> SelectedEventValue, metadata |-> form.metadata,
                       instance |-> form.instance, for |-> form.for]
  <2>1. /\ gestures' = gestures + 1 /\ gestures \in Nat
        /\ calls' = calls \cup {a}
        /\ requests' = [c \in DOMAIN requests \cup {gestures'} |->
                          IF c # gestures' THEN requests[c] ELSE asked]
    BY <1>2, <2>0 DEF Submit, ApplyEvent, Gesture, IndInv, Placed, WellFormed
  <2>2. /\ a.kind = "apply" /\ a.controller = gestures + 1 /\ ~a.clears
        /\ a.order = detail.order
    BY <2>0 DEF Call
  <2>3. asked.for = form.for
    OBVIOUS
  <2>4. detail.order \in Spellings
    <3>1. selected \in Spellings /\ detail.order = Named(selected)
      BY <1>2 DEF Submit, ApplyEvent, DetailIsSelected, IndInv, Placed, WellFormed
    <3> QED
      BY <3>1, WorkspaceAssumption DEF Named
  <2>5. \A r \in calls : r.controller \in Nat /\ r.controller <= gestures
    BY DEF IndInv, Placed, WellFormed, Records, IsAddressed
  <2> HIDE DEF asked
  <2>6. IsAddressed(a, gestures') /\ Carries(a)'
    BY <2>1, <2>2, <2>3, <2>4 DEF IsAddressed, Carries, FormFits
  <2>7. \A q \in calls : IsAddressed(q, gestures') /\ Carries(q)'
    BY <2>1, <2>5 DEF IsAddressed, Carries
  <2>8. OneEventPerGesture'
    BY <2>1, <2>2, <2>5 DEF OneEventPerGesture
  <2> QED
    BY <2>1, <2>6, <2>7, <2>8
<1>3. CASE \E r \in calls : ServeEvent(r) \/ ServeNewOrder(r)
  BY <1>3, ServerCarries DEF ServeEvent, ServeNewOrder
<1>4. CASE \E r \in calls : SettleEvent(r)
  BY <1>4, AnswersCarry
<1>5. CASE Elsewhere /\ UNCHANGED requests
  BY <1>1, <1>5, GesturesCarry, ServerCarries, AnswersCarry DEF Elsewhere
<1> QED
  BY <1>1, <1>2, <1>3, <1>4, <1>5 DEF FormNext

-----------------------------------------------------------------------------
(* What is shown is selected *)

(***************************************************************************)
(* An order is shown only where it is selected.  (loadSelectedOrder,       *)
(* applyEventToSelectedOrder and selectCreatedOrderIfCurrent set both.)    *)
(***************************************************************************)
LEMMA StepShowsDetail ==
  ASSUME FormInv, [Next]_vars \/ Touched
  PROVE  DetailIsSelected'
<1> USE DEF DetailIsSelected
<1>0. /\ DetailIsSelected
      /\ \A r \in calls : IsAddressed(r, gestures)
      /\ \A r : Answer(r).order = Named(r.order)
      /\ NoOrder \notin Spellings
  BY WorkspaceAssumption DEF FormInv, CallsCarry, Answer
<1>1. CASE BackToOrders \/ \E id \in Spellings : OpenOrder(id)
  BY <1>1 DEF BackToOrders, LeaveOrder, OpenOrder
<1>2. CASE RefreshDashboard \/ RetryAvailableEvents \/ ApplyEvent \/ CreateOrder
  BY <1>0, <1>2 DEF RefreshDashboard, RetryAvailableEvents, ApplyEvent, CreateOrder, view, Named
<1>3. CASE Restart \/ (\E o \in Orders : Foreign(o)) \/ Touched \/ UNCHANGED vars
  BY <1>0, <1>3 DEF Restart, Foreign, Touched, vars, view, Named
<1>4. ASSUME NEW r \in calls, Deliver(r) PROVE DetailIsSelected'
  <2>1. CASE ServeRead(r) \/ ServeApply(r) \/ ServeCreate(r) \/ Fail(r) \/ Cancel(r)
    BY <1>0, <2>1 DEF ServeRead, ServeApply, ServeCreate, Fail, Cancel, view, Named
  <2>2. CASE ReceiveList(r) \/ ReceiveEvents(r) \/ ReceiveNotCreated(r)
    BY <1>0, <2>2 DEF ReceiveList, ReceiveEvents, ReceiveNotCreated, Named
  <2>3. CASE ReceiveDetail(r)
    BY <1>0, <2>3 DEF ReceiveDetail, Settles, IsCurrent, IsAddressed, Named
  <2>4. CASE ReceiveApplied(r)
    BY <1>0, <2>4 DEF ReceiveApplied, Settles, IsCurrent, IsAddressed, Named
  <2>5. CASE ReceiveNotApplied(r)
    BY <1>0, <2>5 DEF ReceiveNotApplied, LeaveOrder, Named
  <2>6. CASE ReceiveCreated(r)
    <3>1. r.order \in Spellings
      BY <1>0, <2>6 DEF ReceiveCreated, Settles, IsFound, IsAddressed
    <3>2. CASE IsStillThere(r)
      BY <1>0, <2>6, <3>1, <3>2 DEF ReceiveCreated, Named
    <3>3. CASE ~IsStillThere(r)
      BY <1>0, <2>6, <3>3 DEF ReceiveCreated, Named
    <3> QED
      BY <3>2, <3>3
  <2> QED
    BY <1>4, <2>1, <2>2, <2>3, <2>4, <2>5, <2>6 DEF Deliver
<1> QED
  BY <1>1, <1>2, <1>3, <1>4 DEF Next, Rest

(***************************************************************************)
(* The workspace keeps its invariant under the steps of the form, and no   *)
(* step replaces the order shown by another one.                           *)
(***************************************************************************)
LEMMA StepKeepsWorkspace ==
  ASSUME FormInv, [FormNext]_<<vars, formVars>>
  PROVE  /\ IndInv' /\ DetailIsSelected'
         /\ selected # NoOrder /\ selected' # NoOrder => selected' = selected
         /\ detail # Nothing /\ detail' # Nothing => detail'.order = detail.order
<1>1. [Next]_vars \/ Touched
  BY FormSteps DEF vars
<1>2. IndInv'
  <2>1. CASE Touched
    BY <2>1 DEF Touched, view, FormInv, IndInv, Placed, WellFormed, IsInPlace, ShowsSelected, Named
  <2> QED
    BY <1>1, <2>1, StepKeepsInvariant DEF FormInv
<1>3. selected # NoOrder /\ selected' # NoOrder => selected' = selected
  <2>1. CASE Touched
    BY <2>1 DEF Touched, view
  <2> QED
    BY <1>1, <2>1, StepKeepsPlace DEF FormInv
<1>4. DetailIsSelected'
  BY <1>1, StepShowsDetail
<1>5. detail # Nothing /\ detail' # Nothing => detail'.order = detail.order
  BY <1>3, <1>4 DEF FormInv, DetailIsSelected, Named
<1> QED
  BY <1>2, <1>3, <1>4, <1>5

-----------------------------------------------------------------------------
(* The form *)

(***************************************************************************)
(* An empty form fits any order, and one that stays fits the order that    *)
(* stays with it.                                                          *)
(***************************************************************************)
LEMMA FormAfterFits ==
  ASSUME FormInv, gestures' \in Nat,
         detail # Nothing /\ detail' # Nothing => detail'.order = detail.order
  PROVE  FormAfter \in Forms /\ FormAfter.for \in {NoOrder, detail'.order}
<1>1. ASSUME NEW instance \in Nat
      PROVE  EmptyForm(instance) \in Forms /\ EmptyForm(instance).for = NoOrder
  BY DEF EmptyForm, Forms, Texts
<1> QED
  BY <1>1 DEF FormAfter, FormInv, FormFits

(***************************************************************************)
(* What was chosen and typed stays with its order.  (The key of EventForm  *)
(* in App.tsx, and the state React drops when nothing is shown.)           *)
(***************************************************************************)
LEMMA StepFormFits ==
  ASSUME FormInv, [FormNext]_<<vars, formVars>>
  PROVE  FormFits'
<1>0. /\ form \in Forms /\ form.for \in {NoOrder, detail.order}
      /\ detail # Nothing /\ detail' # Nothing => detail'.order = detail.order
      /\ gestures' \in Nat
  BY StepKeepsWorkspace DEF FormInv, FormFits, IndInv, Placed, WellFormed
<1>1. CASE form' = FormAfter
  BY <1>0, <1>1, FormAfterFits DEF FormFits
<1>2. CASE form' = form /\ detail' = detail
  BY <1>0, <1>2 DEF FormFits
<1>3. CASE \/ \E event \in Lifecycle!Events : ChooseEvent(event)
           \/ \E text \in Texts : TypeMetadata(text)
  <2>1. detail' = detail /\ detail # Nothing
    BY <1>3 DEF ChooseEvent, TypeMetadata, Touch, IsShown, view
  <2>2. detail.order \in Orders
    BY <2>1, WorkspaceAssumption DEF FormInv, DetailIsSelected, IndInv, Placed, WellFormed, Named
  <2>3. CASE \E event \in Lifecycle!Events : ChooseEvent(event)
    BY <1>0, <2>1, <2>2, <2>3 DEF ChooseEvent, FormFits, Forms
  <2>4. CASE \E text \in Texts : TypeMetadata(text)
    BY <1>0, <2>1, <2>2, <2>4 DEF TypeMetadata, FormFits, Forms
  <2> QED
    BY <1>3, <2>3, <2>4
<1>4. CASE SubmitBroken \/ Submit
  <2>1. detail' = detail
    BY <1>4 DEF SubmitBroken, Touch, view, Submit, ApplyEvent
  <2>2. PICK e \in BOOLEAN : form' = [form EXCEPT !.error = e]
    BY <1>4 DEF SubmitBroken, Submit
  <2> QED
    BY <1>0, <2>1, <2>2 DEF FormFits, Forms
<1>5. ASSUME NEW r \in calls, SettleEvent(r) PROVE FormFits'
  <2>1. CASE form' = FormAfter
    BY <1>1, <2>1
  <2>2. CASE /\ ReceiveNotApplied(r) /\ detail' # Nothing
             /\ form' = [form EXCEPT !.error = TRUE]
    <3>1. detail' = detail
      BY <2>2 DEF ReceiveNotApplied, LeaveOrder
    <3> QED
      BY <1>0, <2>2, <3>1 DEF FormFits, Forms
  <2> QED
    BY <1>5, <2>1, <2>2 DEF SettleEvent, FormAfterFailure
<1>6. CASE \/ \E o \in Orders, event \in ForeignEvents : ForeignEvent(o, event)
           \/ \E r \in calls : ServeEvent(r) \/ ServeNewOrder(r)
           \/ ReceiveDefinition \/ (Rest /\ UNCHANGED formVars)
           \/ UNCHANGED <<vars, formVars>>
  BY <1>2, <1>6 DEF ForeignEvent, Foreign, ServeEvent, ServeApply, ServeNewOrder, ServeCreate,
     ReceiveDefinition, Rest, vars, view, formVars
<1>7. CASE Elsewhere /\ Rendered
  BY <1>1, <1>7 DEF Rendered
<1> QED
  BY <1>3, <1>4, <1>5, <1>6, <1>7 DEF FormNext

-----------------------------------------------------------------------------
(* Theorems *)

(***************************************************************************)
(* The inductive invariant holds of every behaviour of workspace and form. *)
(***************************************************************************)
THEOREM FormInvariance == FormSpec => []FormInv
<1>1. FormInit => FormInv
  <2> SUFFICES ASSUME FormInit PROVE FormInv
    OBVIOUS
  <2>1. IndInv
    BY InitInPlace DEF FormInit
  <2>2. CallsCarry
    BY DEF FormInit, Init, CallsCarry, OneEventPerGesture, IsAddressed, Carries, List, Call
  <2>3. DetailIsSelected
    BY DEF FormInit, Init, DetailIsSelected
  <2>4. FormFits
    BY DEF FormInit, FormFits, EmptyForm, Forms, Texts
  <2> QED
    BY <2>1, <2>2, <2>3, <2>4 DEF FormInv
<1>2. FormInv /\ [FormNext]_<<vars, formVars>> => FormInv'
  BY StepCarries, StepKeepsWorkspace, StepFormFits DEF FormInv
<1> QED
  BY <1>1, <1>2, PTL DEF FormSpec

(***************************************************************************)
(* What was chosen or typed for an order is there only while that order is *)
(* shown, and is never sent to another one: also when an event is applied, *)
(* left, and answered where the user went.  (App.tsx; EventForm.tsx)       *)
(***************************************************************************)
THEOREM DraftsStay == FormSpec => []DraftStaysWithOrder
<1>1. FormInv => DraftStaysWithOrder
  BY DEF FormInv, FormFits, CallsCarry, Carries, DraftStaysWithOrder
<1> QED
  BY <1>1, FormInvariance, PTL

(***************************************************************************)
(* The workspace with its form shows the selected order or none, and no    *)
(* step takes the user from an order to another one.                       *)
(* (isCurrentSelection, selectCreatedOrderIfCurrent, useOrderWorkspace.ts) *)
(***************************************************************************)
THEOREM FormShowsSelected == FormSpec => []ShowsSelected /\ KeepsPlace
<1>1. FormInv => ShowsSelected
  BY DEF FormInv, IndInv
<1>2. FormInv /\ [FormNext]_<<vars, formVars>> =>
        [selected # NoOrder /\ selected' # NoOrder => selected' = selected]_vars
  BY StepKeepsWorkspace
<1> QED
  BY <1>1, <1>2, FormInvariance, PTL DEF FormSpec, KeepsPlace

-----------------------------------------------------------------------------
(* The types of the workspace *)

\* A call that was made by the n-th gesture.
IsTyped(r, n) ==
  /\ r \in Calls
  /\ r.generation <= n /\ r.controller <= n
  /\ r.clears => r.kind = "list"
  /\ r.kind \in {"detail", "events", "apply"} => r.order \in Spellings
  /\ r.kind = "create" /\ r.status = "answered" => r.order \in Spellings

Writes(rs) == {r \in rs : r.kind \in {"apply", "create"}}

Unserved(rs) == {r \in Writes(rs) : r.status = "pending"}

\* A selection begins with a gesture or with the answer of a write, and an order
\* advances with a gesture or where a write is served: each write under way is a
\* gesture that has not been spent yet.
InBudget ==
  /\ IsFiniteSet(Writes(calls))
  /\ generation + Cardinality(Writes(calls)) <= gestures
  /\ \A o \in Orders : server[o] + Cardinality(Unserved(calls)) <= gestures

TypeInv ==
  /\ TypeOK /\ ShowsSelected /\ InBudget
  /\ \A r \in calls : IsTyped(r, gestures)

(***************************************************************************)
(* The numbers of the type invariant.                                      *)
(***************************************************************************)
LEMMA Counters ==
  ASSUME TypeInv
  PROVE  /\ MaxGestures \in Nat /\ gestures \in Nat /\ gestures <= MaxGestures
         /\ generation \in Nat /\ generation <= gestures
         /\ Cardinality(Writes(calls)) \in Nat /\ Cardinality(Unserved(calls)) \in Nat
         /\ \A o \in Orders : server[o] \in Int /\ server[o] >= Lost
         /\ IsFiniteSet(Unserved(calls))
<1>1. MaxGestures \in Nat /\ gestures \in 0 .. MaxGestures /\ generation \in 0 .. 2 * MaxGestures
  BY WorkspaceAssumption DEF TypeInv, TypeOK
<1>2. IsFiniteSet(Writes(calls)) /\ generation + Cardinality(Writes(calls)) <= gestures
  BY DEF TypeInv, InBudget
<1>3. Cardinality(Writes(calls)) \in Nat
  BY <1>2, FS_CardinalityType
<1>4. IsFiniteSet(Unserved(calls)) /\ Cardinality(Unserved(calls)) \in Nat
  BY <1>2, FS_Subset, FS_CardinalityType DEF Unserved
<1>5. \A o \in Orders : server[o] \in Int /\ server[o] >= Lost
  <2>1. server \in [Orders -> Versions \cup {Lost}]
    BY DEF TypeInv, TypeOK
  <2>2. \A v \in Versions \cup {Lost} : v \in Int /\ v >= Lost
    BY <1>1 DEF Versions, Absent, Lost
  <2> QED
    BY <2>1, <2>2
<1> QED
  BY <1>1, <1>2, <1>3, <1>4, <1>5

(***************************************************************************)
(* A call as it is made.                                                   *)
(***************************************************************************)
LEMMA NewCallIsTyped ==
  ASSUME NEW n, n \in 0 .. MaxGestures, NEW k, NEW o, o \in Spellings \cup {NoOrder},
         NEW g, g \in 0 .. n, NEW c, c \in 0 .. n, NEW refresh, refresh \in BOOLEAN,
         NEW clears, clears \in BOOLEAN, clears => k = "list",
         k \in {"list", "detail", "events", "apply", "create"},
         k \in {"detail", "events", "apply"} => o \in Spellings
  PROVE  /\ IsTyped(Call(k, o, g, c, refresh, clears), n)
         /\ Call(k, o, g, c, refresh, clears).kind = k
<1> DEFINE r == Call(k, o, g, c, refresh, clears)
<1>1. MaxGestures \in Nat /\ n \in Nat /\ n <= MaxGestures
  BY WorkspaceAssumption
<1>2. Absent \in Versions /\ [p \in Orders |-> Absent] \in [Orders -> Versions \cup {Lost}]
  BY <1>1 DEF Versions, Absent
<1>3. r = [kind |-> k, order |-> o, generation |-> g, controller |-> c,
           refresh |-> refresh, clears |-> clears, status |-> "pending",
           aborted |-> FALSE, answer |-> [p \in Orders |-> Absent]]
  BY DEF Call
<1>4. r \in Calls
  <2>1. g \in 0 .. 2 * MaxGestures /\ c \in 0 .. MaxGestures
    BY <1>1
  <2> QED
    BY <1>2, <1>3, <2>1 DEF Calls
<1>5. /\ r.kind = k /\ r.order = o /\ r.generation = g /\ r.controller = c /\ r.status = "pending"
      /\ r.clears = clears
  BY <1>3
<1> HIDE DEF r
<1>6. IsTyped(r, n)
  BY <1>1, <1>4, <1>5 DEF IsTyped
<1> QED
  BY <1>5, <1>6 DEF r

(***************************************************************************)
(* The calls that read, as they are made.                                  *)
(***************************************************************************)
LEMMA NewReadsAreTyped ==
  ASSUME NEW n, n \in 0 .. MaxGestures, NEW o, o \in Spellings, NEW g, g \in 0 .. n,
         NEW c, c \in 0 .. n, NEW refresh, refresh \in BOOLEAN
  PROVE  /\ IsTyped(Detail(o, g, c, refresh), n) /\ Detail(o, g, c, refresh).kind = "detail"
         /\ IsTyped(Events(o, g, c, refresh), n) /\ Events(o, g, c, refresh).kind = "events"
<1>1. \A k \in {"detail", "events", "apply"}, b \in BOOLEAN : ~b =>
        IsTyped(Call(k, o, g, c, refresh, b), n) /\ Call(k, o, g, c, refresh, b).kind = k
  <2> TAKE k \in {"detail", "events", "apply"}, b \in BOOLEAN
  <2> HAVE ~b
  <2>1. k \in {"list", "detail", "events", "apply", "create"} /\ (b => k = "list")
        /\ o \in Spellings \cup {NoOrder}
    OBVIOUS
  <2> QED
    BY <2>1, NewCallIsTyped
<1>2. FALSE \in BOOLEAN
  OBVIOUS
<1>3. \A k \in {"detail", "events", "apply"} :
        IsTyped(Call(k, o, g, c, refresh, FALSE), n) /\ Call(k, o, g, c, refresh, FALSE).kind = k
  BY <1>1, <1>2, Zenon
<1>4. "detail" \in {"detail", "events", "apply"} /\ "events" \in {"detail", "events", "apply"}
  OBVIOUS
<1> QED
  BY <1>3, <1>4 DEF Detail, Events
(***************************************************************************)
(* The call for the list, as it is made.                                   *)
(***************************************************************************)
LEMMA NewListIsTyped ==
  ASSUME NEW n, n \in 0 .. MaxGestures, NEW c, c \in 0 .. n, NEW refresh, refresh \in BOOLEAN
  PROVE  IsTyped(List(c, refresh), n) /\ List(c, refresh).kind = "list"
<1>1. 0 \in 0 .. n /\ NoOrder \in Spellings \cup {NoOrder}
  OBVIOUS
<1>2. \A k \in {"list"}, b \in BOOLEAN, z \in {0} :
        IsTyped(Call(k, NoOrder, z, c, refresh, b), n)
          /\ Call(k, NoOrder, z, c, refresh, b).kind = k
  BY <1>1, NewCallIsTyped
<1>3. FALSE \in BOOLEAN /\ "list" \in {"list"} /\ 0 \in {0}
  OBVIOUS
<1> QED
  BY <1>2, <1>3, Zenon DEF List

(***************************************************************************)
(* The flags of the spinners.                                              *)
(***************************************************************************)
LEMMA IdleFlags ==
  /\ DOMAIN Idle = {"detail", "events", "event", "create"}
  /\ Idle \in [DOMAIN Idle -> BOOLEAN]
<1> DEFINE F == {"detail", "events", "event", "create"}
<1>1. DOMAIN Idle = F
  BY DEF Idle
<1>2. \A z \in BOOLEAN :
        [detail |-> z, events |-> z, event |-> z, create |-> z] \in [F -> BOOLEAN]
  OBVIOUS
<1>3. FALSE \in BOOLEAN
  OBVIOUS
<1>4. Idle \in [F -> BOOLEAN]
  BY <1>2, <1>3, Zenon DEF Idle
<1> QED
  BY <1>1, <1>4

(***************************************************************************)
(* Aborting leaves the types alone, and every write.                       *)
(* (AbortController.abort)                                                 *)
(***************************************************************************)
LEMMA AbortedTyped ==
  ASSUME NEW rs, NEW n, \A r \in rs : IsTyped(r, n), NEW cs
  PROVE  /\ \A q \in Aborted(rs, cs) : IsTyped(q, n)
         /\ Writes(Aborted(rs, cs)) = Writes(rs)
<1>1. ASSUME NEW r \in rs
      PROVE  LET a == [r EXCEPT !.aborted = TRUE] IN IsTyped(a, n) /\ a.kind = r.kind
  BY DEF IsTyped, Calls
<1>2. ASSUME NEW q \in Aborted(rs, cs)
      PROVE  IsTyped(q, n) /\ (q \in rs \/ q.kind \notin {"apply", "create"})
  <2>1. CASE q \in rs
    BY <2>1
  <2>2. CASE q \notin rs
    <3>1. PICK r \in rs : q = [r EXCEPT !.aborted = TRUE] /\ (HasSignal(r) \/ r.clears)
      BY <1>2, <2>2 DEF Aborted
    <3>2. r.kind \in {"detail", "events", "list"}
      BY <3>1 DEF HasSignal, IsTyped
    <3> QED
      BY <1>1, <3>1, <3>2
  <2> QED
    BY <2>1, <2>2
<1>3. ASSUME NEW r \in rs, r.kind \in {"apply", "create"}
      PROVE  r \in Aborted(rs, cs)
  BY <1>3 DEF Aborted, HasSignal, IsTyped
<1> QED
  BY <1>2, <1>3 DEF Writes

(***************************************************************************)
(* A gesture without a write pays for one selection or one version.        *)
(***************************************************************************)
LEMMA GestureIsInBudget ==
  ASSUME TypeInv, gestures' = gestures + 1, generation' \in {generation, generation + 1},
         Writes(calls') = Writes(calls),
         \A o \in Orders : server'[o] \in Int /\ server'[o] <= server[o] + 1
  PROVE  InBudget'
<1>1. Unserved(calls') = Unserved(calls)
  BY DEF Unserved
<1>2. \A o \in Orders : server'[o] + Cardinality(Unserved(calls)) <= gestures + 1
  BY Counters DEF TypeInv, InBudget
<1> QED
  BY <1>1, <1>2, Counters DEF TypeInv, InBudget

(***************************************************************************)
(* A write is paid for by its gesture.                                     *)
(***************************************************************************)
LEMMA WriteIsInBudget ==
  ASSUME TypeInv, gestures' = gestures + 1, generation' = generation, server' = server,
         NEW w, calls' = calls \cup {w}, w.kind \in {"apply", "create"}
  PROVE  InBudget'
<1>1. Writes(calls') = Writes(calls) \cup {w} /\ Unserved(calls') \subseteq Unserved(calls) \cup {w}
  BY DEF Writes, Unserved
<1>2. /\ IsFiniteSet(Writes(calls) \cup {w}) /\ IsFiniteSet(Unserved(calls) \cup {w})
      /\ Cardinality(Writes(calls) \cup {w}) <= Cardinality(Writes(calls)) + 1
      /\ Cardinality(Unserved(calls) \cup {w}) <= Cardinality(Unserved(calls)) + 1
  <2>1. IsFiniteSet(Writes(calls)) /\ IsFiniteSet(Unserved(calls))
    BY Counters DEF TypeInv, InBudget
  <2>2. /\ IsFiniteSet(Writes(calls) \cup {w})
        /\ Cardinality(Writes(calls) \cup {w}) \in {Cardinality(Writes(calls)),
                                                   Cardinality(Writes(calls)) + 1}
    BY <2>1, FS_AddElement
  <2>3. /\ IsFiniteSet(Unserved(calls) \cup {w})
        /\ Cardinality(Unserved(calls) \cup {w}) \in {Cardinality(Unserved(calls)),
                                                     Cardinality(Unserved(calls)) + 1}
    BY <2>1, FS_AddElement
  <2> QED
    BY <2>2, <2>3, Counters
<1>3. /\ Cardinality(Unserved(calls')) <= Cardinality(Unserved(calls) \cup {w})
      /\ Cardinality(Unserved(calls')) \in Nat
  BY <1>1, <1>2, FS_Subset, FS_CardinalityType
<1>4. Cardinality(Unserved(calls) \cup {w}) \in Nat /\ Cardinality(Writes(calls) \cup {w}) \in Nat
  BY <1>2, FS_CardinalityType
<1>5. \A o \in Orders : server[o] + Cardinality(Unserved(calls')) <= gestures + 1
  BY <1>2, <1>3, <1>4, Counters DEF TypeInv, InBudget
<1>6. generation + Cardinality(Writes(calls')) <= gestures + 1
  <2>1. /\ generation + Cardinality(Writes(calls)) <= gestures /\ generation \in Nat
        /\ gestures \in Nat /\ Cardinality(Writes(calls)) \in Nat
    BY Counters DEF TypeInv, InBudget
  <2>2. Cardinality(Writes(calls')) \in Nat
        /\ Cardinality(Writes(calls')) <= Cardinality(Writes(calls)) + 1
    BY <1>1, <1>2, <1>4
  <2> QED
    BY <2>1, <2>2
<1> QED
  BY <1>1, <1>2, <1>5, <1>6 DEF InBudget

(***************************************************************************)
(* Serving a write spends what its gesture paid for.                       *)
(***************************************************************************)
LEMMA ServingIsInBudget ==
  ASSUME TypeInv, gestures' = gestures, generation' = generation,
         NEW r \in calls, r.status = "pending", NEW q, q.kind = r.kind, q.status # "pending",
         calls' = (calls \ {r}) \cup {q},
         \A o \in Orders : server'[o] \in Int
                           /\ (server'[o] <= server[o] \/ (r.kind \in {"apply", "create"}
                                                           /\ server'[o] <= server[o] + 1))
  PROVE  InBudget'
<1>1. /\ IsFiniteSet(Writes(calls)) /\ Cardinality(Writes(calls)) \in Nat
      /\ IsFiniteSet(Unserved(calls)) /\ Cardinality(Unserved(calls)) \in Nat
  BY Counters DEF TypeInv, InBudget
<1>2. Unserved(calls') = Unserved(calls) \ {r}
  BY DEF Unserved, Writes
<1>3. /\ IsFiniteSet(Writes(calls'))
      /\ Cardinality(Writes(calls')) \in Nat
      /\ Cardinality(Writes(calls')) <= Cardinality(Writes(calls))
  <2>1. CASE r \in Writes(calls)
    <3>1. Writes(calls') = (Writes(calls) \ {r}) \cup {q}
      BY <2>1 DEF Writes
    <3>2. /\ IsFiniteSet(Writes(calls) \ {r})
          /\ Cardinality(Writes(calls) \ {r}) = Cardinality(Writes(calls)) - 1
      BY <1>1, <2>1, FS_RemoveElement
    <3> DEFINE others == Writes(calls) \ {r}
    <3>3. /\ IsFiniteSet(others \cup {q})
          /\ Cardinality(others \cup {q}) \in {Cardinality(others), Cardinality(others) + 1}
      BY <3>2, FS_AddElement
    <3>4. Cardinality(others \cup {q}) \in Nat
      BY <3>3, FS_CardinalityType
    <3>5. Cardinality(others \cup {q}) <= Cardinality(Writes(calls))
      BY <1>1, <3>2, <3>3, <3>4
    <3> QED
      BY <3>1, <3>3, <3>4, <3>5
  <2>2. CASE r \notin Writes(calls)
    <3>1. Writes(calls') = Writes(calls)
      BY <2>2 DEF Writes
    <3> QED
      BY <1>1, <3>1
  <2> QED
    BY <2>1, <2>2
<1>4. ASSUME NEW o \in Orders
      PROVE  server'[o] + Cardinality(Unserved(calls')) <= gestures
  <2>0. server[o] + Cardinality(Unserved(calls)) <= gestures /\ server[o] \in Int /\ server'[o] \in Int
    BY Counters DEF TypeInv, InBudget
  <2>1. CASE r \in Unserved(calls)
    <3>0. Unserved(calls') = Unserved(calls) \ {r} /\ IsFiniteSet(Unserved(calls))
      BY <1>1, <1>2, <2>1
    <3>1. Cardinality(Unserved(calls')) = Cardinality(Unserved(calls)) - 1
      BY <2>1, <3>0, FS_RemoveElement
    <3>2. server'[o] <= server[o] + 1
      BY <2>0
    <3> QED
      BY <1>1, <2>0, <3>1, <3>2, Counters
  <2>2. CASE r \notin Unserved(calls)
    <3>1. Unserved(calls') = Unserved(calls)
      BY <1>2, <2>2
    <3>2. server'[o] <= server[o]
      BY <2>2 DEF Unserved, Writes
    <3> QED
      BY <1>1, <2>0, <3>1, <3>2, Counters
  <2> QED
    BY <2>1, <2>2
<1>5. generation + Cardinality(Writes(calls')) <= gestures
  BY <1>1, <1>3, Counters DEF TypeInv, InBudget
<1> QED
  BY <1>3, <1>4, <1>5 DEF InBudget

(***************************************************************************)
(* The answer of a write may begin a selection, which its gesture paid     *)
(* for.                                                                    *)
(***************************************************************************)
LEMMA ReceivingIsInBudget ==
  ASSUME TypeInv, gestures' = gestures, server' = server,
         NEW r \in calls, Writes(calls') = Writes(calls) \ {r},
         \/ generation' = generation
         \/ r.kind \in {"apply", "create"} /\ generation' = generation + 1
  PROVE  InBudget' /\ generation' \in Nat /\ generation' <= gestures
<1>1. /\ IsFiniteSet(Writes(calls)) /\ Cardinality(Writes(calls)) \in Nat
      /\ IsFiniteSet(Unserved(calls)) /\ Cardinality(Unserved(calls)) \in Nat
  BY Counters DEF TypeInv, InBudget
<1>2. Unserved(calls') \subseteq Unserved(calls)
  BY DEF Unserved
<1>3. Cardinality(Unserved(calls')) <= Cardinality(Unserved(calls)) /\ Cardinality(Unserved(calls')) \in Nat
  BY <1>1, <1>2, FS_Subset, FS_CardinalityType
<1>4. \A o \in Orders : server[o] + Cardinality(Unserved(calls')) <= gestures
  BY <1>1, <1>3, Counters DEF TypeInv, InBudget
<1>5. /\ IsFiniteSet(Writes(calls')) /\ Cardinality(Writes(calls')) \in Nat
      /\ Cardinality(Writes(calls')) <= Cardinality(Writes(calls))
      /\ r \in Writes(calls) => Cardinality(Writes(calls')) = Cardinality(Writes(calls)) - 1
  <2>1. IsFiniteSet(Writes(calls')) /\ Cardinality(Writes(calls')) \in Nat
        /\ Cardinality(Writes(calls')) <= Cardinality(Writes(calls))
    BY <1>1, FS_Subset, FS_CardinalityType
  <2>2. r \in Writes(calls) => Cardinality(Writes(calls')) = Cardinality(Writes(calls)) - 1
    BY <1>1, FS_RemoveElement
  <2> QED
    BY <2>1, <2>2
<1>6. r.kind \in {"apply", "create"} => r \in Writes(calls)
  BY DEF Writes
<1>7. generation' + Cardinality(Writes(calls')) <= gestures /\ generation' \in Nat
  BY <1>1, <1>5, <1>6, Counters DEF TypeInv, InBudget
<1>8. gestures \in Nat
  BY Counters
<1> QED
  BY <1>4, <1>5, <1>7, <1>8 DEF InBudget

(***************************************************************************)
(* What a step leaves where its variables have their types.                *)
(***************************************************************************)
LEMMA TypedAgain ==
  ASSUME ShowsSelected', InBudget', gestures' \in 0 .. MaxGestures, generation' \in Nat,
         \A q \in calls' : IsTyped(q, gestures'),
         server' \in [Orders -> Int], \A o \in Orders : server'[o] >= Lost,
         controllers' \in [workspace : 0 .. gestures', events : 0 .. gestures'],
         selected' \in Spellings \cup {NoOrder}, detail' \in Shown, events' \in Shown,
         eventsError' \in BOOLEAN, loading' \in [DOMAIN Idle -> BOOLEAN],
         summaries' \in [Orders -> Versions]
  PROVE  TypeInv'
<1>0. MaxGestures \in Nat /\ gestures' \in Nat /\ gestures' <= MaxGestures
  BY WorkspaceAssumption
<1>1. /\ IsFiniteSet(Writes(calls'))
      /\ generation' + Cardinality(Writes(calls')) <= gestures'
      /\ \A o \in Orders : server'[o] + Cardinality(Unserved(calls')) <= gestures'
  BY DEF InBudget
<1>2. Cardinality(Writes(calls')) \in Nat /\ Cardinality(Unserved(calls')) \in Nat
  BY <1>1, FS_Subset, FS_CardinalityType DEF Unserved
<1>3. generation' \in 0 .. 2 * MaxGestures
  BY <1>0, <1>1, <1>2
<1>4. server' \in [Orders -> Versions \cup {Lost}]
  <2>1. ASSUME NEW o \in Orders
        PROVE  server'[o] \in Versions \cup {Lost}
    <3>1. server'[o] \in Int /\ server'[o] >= -2 /\ server'[o] <= MaxGestures
      BY <1>0, <1>1, <1>2 DEF Lost
    <3> QED
      BY <1>0, <3>1 DEF Versions, Absent, Lost
  <2> QED
    BY <2>1
<1>5. calls' \subseteq Calls
  BY DEF IsTyped
<1>6. TypeOK'
  BY <1>3, <1>4, <1>5 DEF TypeOK
<1> QED
  BY <1>6 DEF TypeInv

(***************************************************************************)
(* Calls keep their types while gestures are counted.                      *)
(***************************************************************************)
LEMMA TypesLast ==
  ASSUME TypeInv, NEW n \in {gestures, gestures + 1}
  PROVE  /\ \A r \in calls : IsTyped(r, n)
         /\ controllers \in [workspace : 0 .. n, events : 0 .. n]
<1>1. gestures \in Nat /\ n \in Nat /\ gestures <= n
  BY Counters
<1>2. ASSUME NEW r \in calls
      PROVE  IsTyped(r, n)
  <2>1. r.generation \in Int /\ r.controller \in Int
    BY WorkspaceAssumption DEF TypeInv, IsTyped, Calls
  <2> QED
    BY <1>1, <2>1 DEF TypeInv, IsTyped
<1>3. controllers \in [workspace : 0 .. n, events : 0 .. n]
  <2>1. controllers \in [workspace : 0 .. gestures, events : 0 .. gestures]
    BY DEF TypeInv, TypeOK
  <2>2. 0 .. gestures \subseteq 0 .. n
    BY <1>1
  <2> QED
    BY <2>1, <2>2
<1> QED
  BY <1>2, <1>3

(***************************************************************************)
(* Loading the workspace of an order. (loadWorkspaceOrder.)                *)
(***************************************************************************)
LEMMA LoadIsTyped ==
  ASSUME TypeInv, NEW o, o \in Spellings, NEW refresh, refresh \in BOOLEAN,
         LoadWorkspaceOrder(o, refresh), gestures' = gestures + 1, gestures < MaxGestures
  PROVE  /\ \A q \in calls' : IsTyped(q, gestures')
         /\ Writes(calls') = Writes(calls)
         /\ generation' = generation + 1
         /\ controllers' \in [workspace : 0 .. gestures', events : 0 .. gestures']
         /\ loading' \in [DOMAIN Idle -> BOOLEAN] /\ eventsError' \in BOOLEAN
<1> DEFINE c == gestures + 1
           g == generation + 1
           d == Detail(o, g, c, refresh)
           e == Events(o, g, c, refresh)
           l == List(c, TRUE)
           kept == Aborted(calls, BothControllers)
<1>1. c \in 0 .. MaxGestures /\ g \in 0 .. c /\ c \in 0 .. c /\ 0 \in 0 .. c
  BY Counters
<1>2. IsTyped(d, c) /\ d.kind = "detail" /\ IsTyped(e, c) /\ e.kind = "events"
      /\ IsTyped(l, c) /\ l.kind = "list"
  <2> HIDE DEF c, g
  <2>1. \A p \in Spellings, b \in BOOLEAN :
          /\ IsTyped(Detail(p, g, c, b), c) /\ Detail(p, g, c, b).kind = "detail"
          /\ IsTyped(Events(p, g, c, b), c) /\ Events(p, g, c, b).kind = "events"
    BY <1>1, NewReadsAreTyped
  <2>2. /\ IsTyped(d, c) /\ d.kind = "detail"
        /\ IsTyped(e, c) /\ e.kind = "events"
    BY <2>1, Zenon
  <2>3. IsTyped(l, c) /\ l.kind = "list"
    BY <1>1, NewListIsTyped
  <2> QED
    BY <2>1, <2>2, <2>3
<1>3. calls' \subseteq kept \cup {d, e, l} /\ kept \subseteq calls'
  BY DEF LoadWorkspaceOrder
<1>4. \A r \in calls : IsTyped(r, c)
  BY TypesLast
<1>5. (\A q \in kept : IsTyped(q, c)) /\ Writes(kept) = Writes(calls)
  BY <1>4, AbortedTyped
<1>6. loading' \in [DOMAIN Idle -> BOOLEAN] /\ eventsError' \in BOOLEAN
  BY DEF LoadWorkspaceOrder, TypeInv, TypeOK, Idle
<1>7. /\ generation' = generation + 1
      /\ controllers' \in [workspace : 0 .. c, events : 0 .. c]
  BY <1>1 DEF LoadWorkspaceOrder
<1> HIDE DEF d, e, l, kept
<1>8. Writes(calls') = Writes(kept)
  BY <1>2, <1>3 DEF Writes
<1> QED
  BY <1>2, <1>3, <1>5, <1>6, <1>7, <1>8

(***************************************************************************)
(* Gestures that load, leave or change nothing at the API.                 *)
(* (openOrder, backToOrders, refreshDashboard, retryAvailableEvents.)      *)
(***************************************************************************)
LEMMA ReadingGesturesAreTyped ==
  ASSUME TypeInv, ShowsSelected',
         \/ \E id \in Spellings : OpenOrder(id)
         \/ BackToOrders \/ RefreshDashboard \/ RetryAvailableEvents
  PROVE  TypeInv'
<1> USE DEF Gesture
<1>0. /\ gestures' = gestures + 1 /\ gestures < MaxGestures /\ server' = server
      /\ gestures' \in 0 .. MaxGestures
  <2>1. gestures' = gestures + 1 /\ gestures < MaxGestures
    BY DEF OpenOrder, BackToOrders, RefreshDashboard, RetryAvailableEvents
  <2>2. server' = server
    BY DEF OpenOrder, BackToOrders, RefreshDashboard, RetryAvailableEvents
  <2> QED
    BY <2>1, <2>2, Counters
<1>1. /\ server \in [Orders -> Int]
      /\ \A o \in Orders : server[o] \in Int /\ server[o] >= Lost /\ server[o] <= server[o] + 1
  <2>1. DOMAIN server = Orders /\ server = [o \in Orders |-> server[o]]
    BY DEF TypeInv, TypeOK
  <2> QED
    BY <2>1, Counters
<1>2. /\ Nothing \in Shown /\ detail \in Shown /\ events \in Shown
      /\ eventsError \in BOOLEAN /\ loading \in [DOMAIN Idle -> BOOLEAN]
      /\ summaries \in [Orders -> Versions] /\ selected \in Spellings \cup {NoOrder}
  BY DEF TypeInv, TypeOK, Shown
<1>3. ASSUME \A q \in calls' : IsTyped(q, gestures'), Writes(calls') = Writes(calls),
             generation' \in {generation, generation + 1},
             controllers' \in [workspace : 0 .. gestures', events : 0 .. gestures'],
             selected' \in Spellings \cup {NoOrder}, detail' \in Shown, events' \in Shown,
             eventsError' \in BOOLEAN, loading' \in [DOMAIN Idle -> BOOLEAN],
             summaries' = summaries
      PROVE  TypeInv'
  <2>1. InBudget'
    BY <1>0, <1>1, <1>3, GestureIsInBudget
  <2>2. generation' \in Nat
    BY <1>3, Counters
  <2> QED
    BY <1>0, <1>1, <1>2, <1>3, <2>1, <2>2, TypedAgain
<1>4. ASSUME NEW id \in Spellings, OpenOrder(id) PROVE TypeInv'
  BY <1>0, <1>2, <1>3, <1>4, LoadIsTyped DEF OpenOrder
<1>5. CASE BackToOrders
  <2>1. calls' = Aborted(calls, BothControllers) /\ LeaveOrder /\ summaries' = summaries
    BY <1>5 DEF BackToOrders
  <2>2. \A r \in calls : IsTyped(r, gestures')
    BY <1>0, TypesLast
  <2>3. (\A q \in calls' : IsTyped(q, gestures')) /\ Writes(calls') = Writes(calls)
    BY <2>1, <2>2, AbortedTyped
  <2>4. /\ generation' = generation + 1 /\ selected' = NoOrder
        /\ detail' = Nothing /\ events' = Nothing /\ eventsError' = FALSE
        /\ controllers' \in [workspace : 0 .. gestures', events : 0 .. gestures']
        /\ loading' \in [DOMAIN Idle -> BOOLEAN]
    <3>1. 0 \in 0 .. gestures'
      BY <1>0
    <3>2. /\ generation' = generation + 1 /\ selected' = NoOrder
          /\ detail' = Nothing /\ events' = Nothing /\ eventsError' = FALSE
          /\ controllers' = [workspace |-> 0, events |-> 0]
          /\ loading' = [Idle EXCEPT !.create = loading.create]
      BY <2>1 DEF LeaveOrder
    <3>3. loading.create \in BOOLEAN
      BY <1>2 DEF Idle
    <3>4. loading' \in [DOMAIN Idle -> BOOLEAN]
      BY <3>2, <3>3, IdleFlags
    <3> QED
      BY <3>1, <3>2, <3>4
  <2> QED
    BY <1>2, <1>3, <2>1, <2>3, <2>4
<1>6. CASE RefreshDashboard
  <2>1. CASE selected # NoOrder
    <3>1. LoadWorkspaceOrder(selected, TRUE)
          /\ UNCHANGED <<selected, detail, events, summaries>>
      BY <1>6, <2>1 DEF RefreshDashboard
    <3>2. selected \in Spellings
      BY <1>2, <2>1
    <3> QED
      BY <1>0, <1>2, <1>3, <3>1, <3>2, LoadIsTyped
  <2>2. CASE selected = NoOrder
    <3> DEFINE l == List(gestures + 1, TRUE)
    <3>1. gestures + 1 \in 0 .. MaxGestures /\ gestures + 1 \in 0 .. gestures + 1
          /\ 0 \in 0 .. gestures + 1
      BY Counters, <1>0
    <3>2. IsTyped(l, gestures') /\ l.kind = "list"
      BY <1>0, <3>1, NewListIsTyped
    <3>3. calls' = calls \cup {l} /\ UNCHANGED view
      BY <1>6, <2>2 DEF RefreshDashboard
    <3>4. /\ \A r \in calls : IsTyped(r, gestures')
          /\ controllers \in [workspace : 0 .. gestures', events : 0 .. gestures']
      BY <1>0, TypesLast
    <3> HIDE DEF l
    <3>5. (\A q \in calls' : IsTyped(q, gestures')) /\ Writes(calls') = Writes(calls)
      BY <3>2, <3>3, <3>4 DEF Writes
    <3> QED
      BY <1>2, <1>3, <3>3, <3>4, <3>5 DEF view
  <2> QED
    BY <2>1, <2>2
<1>7. CASE RetryAvailableEvents
  <2> DEFINE e == Events(selected, generation, gestures + 1, FALSE)
  <2>1. /\ detail # Nothing
        /\ controllers' = [controllers EXCEPT !.events = gestures + 1]
        /\ eventsError' = FALSE
        /\ calls' = Aborted(calls, {controllers.events}) \cup {e}
        /\ loading' = [loading EXCEPT !.events = TRUE]
        /\ UNCHANGED <<generation, selected, detail, events, summaries>>
    BY <1>7 DEF RetryAvailableEvents, StartAvailableEventsLoad
  <2>2. selected \in Spellings
    <3>1. detail.order \in Orders
      BY <1>2, <2>1 DEF Shown
    <3>2. detail.order \in {NoOrder, Named(selected)} /\ detail.order # NoOrder
      BY <3>1, WorkspaceAssumption DEF TypeInv, ShowsSelected
    <3> QED
      BY <1>2, <3>2 DEF Named
  <2>3. /\ gestures + 1 \in 0 .. MaxGestures /\ gestures + 1 \in 0 .. gestures + 1
        /\ generation \in 0 .. gestures + 1
    BY Counters, <1>0
  <2>4. IsTyped(e, gestures') /\ e.kind = "events"
    <3> DEFINE n == gestures + 1
    <3>1. n \in 0 .. MaxGestures /\ n \in 0 .. n /\ generation \in 0 .. n
      BY <2>3
    <3>2. \A b \in BOOLEAN : /\ IsTyped(Events(selected, generation, n, b), n)
                             /\ Events(selected, generation, n, b).kind = "events"
      <4> HIDE DEF n
      <4> QED
        BY <2>2, <3>1, NewReadsAreTyped, SMTT(30)
    <3>3. FALSE \in BOOLEAN
      OBVIOUS
    <3>4. IsTyped(e, n) /\ e.kind = "events"
      BY <3>2, <3>3, Zenon
    <3> QED
      BY <1>0, <3>4
  <2>5. /\ \A r \in calls : IsTyped(r, gestures')
        /\ controllers \in [workspace : 0 .. gestures', events : 0 .. gestures']
    BY <1>0, TypesLast
  <2> HIDE DEF e
  <2>6. (\A q \in calls' : IsTyped(q, gestures')) /\ Writes(calls') = Writes(calls)
    BY <2>1, <2>4, <2>5, AbortedTyped DEF Writes
  <2>7. /\ controllers' \in [workspace : 0 .. gestures', events : 0 .. gestures']
        /\ loading' \in [DOMAIN Idle -> BOOLEAN]
    <3>1. gestures + 1 \in 0 .. gestures'
      BY <1>0, <2>3
    <3> QED
      BY <1>2, <2>1, <2>5, <3>1 DEF Idle
  <2> QED
    BY <1>2, <1>3, <2>1, <2>6, <2>7
<1> QED
  BY <1>4, <1>5, <1>6, <1>7

(***************************************************************************)
(* The variables of the page in their types.                               *)
(***************************************************************************)
LEMMA ViewTypes ==
  ASSUME TypeInv
  PROVE  /\ Nothing \in Shown /\ detail \in Shown /\ events \in Shown
         /\ eventsError \in BOOLEAN /\ loading \in [DOMAIN Idle -> BOOLEAN]
         /\ summaries \in [Orders -> Versions] /\ selected \in Spellings \cup {NoOrder}
         /\ controllers \in [workspace : 0 .. gestures, events : 0 .. gestures]
         /\ server \in [Orders -> Int]
         /\ \A o \in Orders : server[o] \in Int /\ server[o] >= Lost
<1>1. DOMAIN server = Orders /\ server = [o \in Orders |-> server[o]]
  BY DEF TypeInv, TypeOK
<1> QED
  BY <1>1, Counters DEF TypeInv, TypeOK, Shown

(***************************************************************************)
(* The gestures of the world. (Another client; a restart of the API.)      *)
(***************************************************************************)
LEMMA WorldIsTyped ==
  ASSUME TypeInv, ShowsSelected', (\E o \in Orders : Foreign(o)) \/ Restart
  PROVE  TypeInv'
<1>0. /\ gestures' = gestures + 1 /\ gestures < MaxGestures /\ UNCHANGED <<calls, view>>
      /\ gestures' \in 0 .. MaxGestures
  <2>1. gestures' = gestures + 1 /\ gestures < MaxGestures /\ UNCHANGED <<calls, view>>
    BY DEF Foreign, Restart, Gesture
  <2> QED
    BY <2>1, Counters
<1>1. /\ server' \in [Orders -> Int]
      /\ \A o \in Orders : /\ server'[o] \in Int /\ server'[o] >= Lost
                          /\ server'[o] <= server[o] + 1
  <2>1. CASE Restart
    <3>1. server' = [o \in Orders |-> IF Exists(o) THEN Lost ELSE server[o]]
      BY <2>1 DEF Restart
    <3>2. \A o \in Orders : server'[o] = IF server[o] >= 0 THEN Lost ELSE server[o]
      BY <3>1 DEF Exists
    <3>3. \A o \in Orders : server'[o] \in Int /\ server'[o] >= Lost /\ server'[o] <= server[o] + 1
      BY <3>2, ViewTypes DEF Lost
    <3> QED
      BY <3>1, <3>3
  <2>2. ASSUME NEW o \in Orders, Foreign(o)
        PROVE  /\ server' \in [Orders -> Int]
               /\ \A p \in Orders : /\ server'[p] \in Int /\ server'[p] >= Lost
                                   /\ server'[p] <= server[p] + 1
    <3>1. server' = [server EXCEPT ![o] = @ + 1]
      BY <2>2 DEF Foreign
    <3>2. \A p \in Orders : server'[p] = IF p = o THEN server[p] + 1 ELSE server[p]
      BY <3>1, ViewTypes
    <3>3. \A p \in Orders : server'[p] \in Int /\ server'[p] >= Lost /\ server'[p] <= server[p] + 1
      BY <3>2, ViewTypes DEF Lost
    <3> QED
      BY <3>1, <3>3, ViewTypes
  <2> QED
    BY <2>1, <2>2
<1>2. Writes(calls') = Writes(calls) /\ generation' = generation
  BY <1>0 DEF view
<1>3. InBudget'
  BY <1>0, <1>1, <1>2, GestureIsInBudget
<1>4. /\ \A q \in calls' : IsTyped(q, gestures')
      /\ controllers' \in [workspace : 0 .. gestures', events : 0 .. gestures']
  BY <1>0, TypesLast DEF view
<1>5. generation' \in Nat
  BY <1>2, Counters
<1>6. /\ selected' \in Spellings \cup {NoOrder} /\ detail' \in Shown /\ events' \in Shown
      /\ eventsError' \in BOOLEAN /\ loading' \in [DOMAIN Idle -> BOOLEAN]
      /\ summaries' \in [Orders -> Versions]
  BY <1>0, ViewTypes DEF view
<1> QED
  BY <1>0, <1>1, <1>3, <1>4, <1>5, <1>6, TypedAgain

(***************************************************************************)
(* The gestures that write. (submitEvent, createOrder.)                    *)
(***************************************************************************)
LEMMA WritingGesturesAreTyped ==
  ASSUME TypeInv, ShowsSelected', ApplyEvent \/ CreateOrder
  PROVE  TypeInv'
<1>0. /\ gestures' = gestures + 1 /\ gestures < MaxGestures /\ gestures' \in 0 .. MaxGestures
      /\ UNCHANGED <<server, generation, controllers, selected, detail, events,
                     eventsError, summaries>>
  <2>1. /\ gestures' = gestures + 1 /\ gestures < MaxGestures
        /\ UNCHANGED <<server, generation, controllers, selected, detail, events,
                       eventsError, summaries>>
    BY DEF ApplyEvent, CreateOrder, Gesture
  <2> QED
    BY <2>1, Counters
<1>1. loading' \in [DOMAIN Idle -> BOOLEAN]
  <2>1. loading' \in {[loading EXCEPT !.event = TRUE], [loading EXCEPT !.create = TRUE]}
    BY DEF ApplyEvent, CreateOrder
  <2> QED
    BY <2>1, IdleFlags, ViewTypes
<1>2. PICK w : calls' = calls \cup {w} /\ IsTyped(w, gestures') /\ w.kind \in {"apply", "create"}
  <2> DEFINE n == gestures + 1
  <2>1. n \in 0 .. MaxGestures /\ n \in 0 .. n /\ generation \in 0 .. n
    BY <1>0, Counters
  <2>2. \A o \in Spellings, b \in BOOLEAN : ~b =>
          /\ IsTyped(Call("apply", o, generation, n, b, b), n)
          /\ Call("apply", o, generation, n, b, b).kind = "apply"
    <3> TAKE o \in Spellings, b \in BOOLEAN
    <3> HAVE ~b
    <3>1. \A k \in {"apply"} : /\ IsTyped(Call(k, o, generation, n, b, b), n)
                               /\ Call(k, o, generation, n, b, b).kind = k
      <4> TAKE k \in {"apply"}
      <4>1. /\ k \in {"list", "detail", "events", "apply", "create"} /\ (b => k = "list")
            /\ o \in Spellings \cup {NoOrder}
        OBVIOUS
      <4> HIDE DEF n
      <4> QED
        BY <2>1, <4>1, NewCallIsTyped
    <3> QED
      BY <3>1
  <2>3. \A o \in {NoOrder}, b \in BOOLEAN : ~b =>
          /\ IsTyped(Call("create", o, generation, n, b, b), n)
          /\ Call("create", o, generation, n, b, b).kind = "create"
    <3> TAKE o \in {NoOrder}, b \in BOOLEAN
    <3> HAVE ~b
    <3>1. \A k \in {"create"} : /\ IsTyped(Call(k, o, generation, n, b, b), n)
                                /\ Call(k, o, generation, n, b, b).kind = k
      <4> TAKE k \in {"create"}
      <4>1. /\ k \in {"list", "detail", "events", "apply", "create"} /\ (b => k = "list")
            /\ o \in Spellings \cup {NoOrder} /\ k \notin {"detail", "events", "apply"}
        OBVIOUS
      <4> HIDE DEF n
      <4> QED
        BY <2>1, <4>1, NewCallIsTyped
    <3> QED
      BY <3>1
  <2>4. FALSE \in BOOLEAN /\ NoOrder \in {NoOrder}
    OBVIOUS
  <2>5. CASE ApplyEvent
    <3>1. detail.order \in Spellings
      BY <2>5, ViewTypes, WorkspaceAssumption DEF ApplyEvent, Shown
    <3> DEFINE w == Call("apply", detail.order, generation, n, FALSE, FALSE)
    <3>2. calls' = calls \cup {w}
      BY <2>5 DEF ApplyEvent
    <3>3. IsTyped(w, n) /\ w.kind = "apply"
      BY <2>2, <2>4, <3>1, Zenon
    <3> HIDE DEF w
    <3> QED
      BY <1>0, <3>2, <3>3
  <2>6. CASE CreateOrder
    <3> DEFINE w == Call("create", NoOrder, generation, n, FALSE, FALSE)
    <3>2. calls' = calls \cup {w}
      BY <2>6 DEF CreateOrder
    <3>3. IsTyped(w, n) /\ w.kind = "create"
      BY <2>3, <2>4, Zenon
    <3> HIDE DEF w
    <3> QED
      BY <1>0, <3>2, <3>3
  <2> QED
    BY <2>5, <2>6
<1>3. InBudget'
  BY <1>0, <1>2, WriteIsInBudget
<1>4. /\ \A q \in calls' : IsTyped(q, gestures')
      /\ controllers' \in [workspace : 0 .. gestures', events : 0 .. gestures']
  BY <1>0, <1>2, TypesLast
<1>5. generation' \in Nat
  BY <1>0, Counters
<1> QED
  BY <1>0, <1>1, <1>3, <1>4, <1>5, ViewTypes, TypedAgain

(***************************************************************************)
(* A step at the API keeps the types if the answer it writes has them.     *)
(***************************************************************************)
LEMMA ServedIsTyped ==
  ASSUME TypeInv, UNCHANGED <<gestures, view>>,
         NEW r \in calls, IsOpen(r), NEW q, q.kind = r.kind, q.status # "pending",
         calls' = (calls \ {r}) \cup {q},
         server' \in [Orders -> Int],
         \A o \in Orders : /\ server'[o] \in Int /\ server'[o] >= Lost
                          /\ \/ server'[o] <= server[o]
                             \/ r.kind \in {"apply", "create"} /\ server'[o] <= server[o] + 1,
         server' \in [Orders -> Versions \cup {Lost}] => IsTyped(q, gestures)
  PROVE  TypeInv'
<1>1. /\ r.status = "pending" /\ gestures' = gestures /\ generation' = generation
      /\ gestures \in Nat /\ gestures' \in 0 .. MaxGestures /\ generation' \in Nat
  BY Counters DEF IsOpen, view
<1>2. InBudget'
  BY <1>1, ServingIsInBudget
<1>3. server' \in [Orders -> Versions \cup {Lost}]
  <2>1. /\ IsFiniteSet(Writes(calls'))
        /\ \A o \in Orders : server'[o] + Cardinality(Unserved(calls')) <= gestures
    BY <1>1, <1>2 DEF InBudget
  <2>2. Cardinality(Unserved(calls')) \in Nat
    BY <2>1, FS_Subset, FS_CardinalityType DEF Unserved
  <2>3. \A o \in Orders : server'[o] \in Versions \cup {Lost}
    BY <2>1, <2>2, Counters DEF Versions, Absent, Lost
  <2> QED
    BY <2>3
<1>4. \A s \in calls' : IsTyped(s, gestures')
  BY <1>1, <1>3 DEF TypeInv
<1>5. ShowsSelected'
  BY DEF view, TypeInv, ShowsSelected
<1>6. /\ selected' \in Spellings \cup {NoOrder} /\ detail' \in Shown /\ events' \in Shown
      /\ eventsError' \in BOOLEAN /\ loading' \in [DOMAIN Idle -> BOOLEAN]
      /\ summaries' \in [Orders -> Versions]
      /\ controllers' \in [workspace : 0 .. gestures', events : 0 .. gestures']
  BY <1>1, ViewTypes DEF view
<1> QED
  BY <1>1, <1>2, <1>4, <1>5, <1>6, TypedAgain

(***************************************************************************)
(* An answer as the API writes it into a call.                             *)
(***************************************************************************)
LEMMA AnswerIsTyped ==
  ASSUME NEW n, NEW r, IsTyped(r, n),
         NEW q, q \in Calls, q.kind = r.kind, q.generation = r.generation,
         q.controller = r.controller, q.clears = r.clears,
         q.order = r.order \/ q.order \in Spellings,
         q.kind = "create" /\ q.status = "answered" => q.order \in Spellings
  PROVE  IsTyped(q, n)
BY DEF IsTyped

(***************************************************************************)
(* The steps of the API.                                                   *)
(***************************************************************************)
LEMMA ServingIsTyped ==
  ASSUME TypeInv, NEW r \in calls,
         ServeRead(r) \/ ServeApply(r) \/ ServeCreate(r) \/ Fail(r)
  PROVE  TypeInv'
<1>0. IsOpen(r) /\ UNCHANGED <<gestures, view>> /\ IsTyped(r, gestures)
  BY DEF ServeRead, ServeApply, ServeCreate, Fail, TypeInv
<1>1. /\ r \in Calls /\ r.order \in Spellings \cup {NoOrder}
      /\ r.answer \in [Orders -> Versions \cup {Lost}]
      /\ r.kind \in {"detail", "events", "apply"} => r.order \in Spellings
  BY <1>0 DEF IsTyped, Calls
<1>2. /\ server \in [Orders -> Int]
      /\ \A o \in Orders : server[o] \in Int /\ server[o] >= Lost /\ server[o] <= server[o]
  BY ViewTypes
<1>3. ASSUME NEW st \in {"answered", "failed"}, Answered(r, st), r.kind # "create",
             server' \in [Orders -> Int],
             \A o \in Orders : /\ server'[o] \in Int /\ server'[o] >= Lost
                              /\ \/ server'[o] <= server[o]
                                 \/ r.kind \in {"apply", "create"} /\ server'[o] <= server[o] + 1
      PROVE  TypeInv'
  <2> DEFINE a == [o \in Orders |-> IF r.kind = "list" \/ o = Named(r.order)
                                    THEN server'[o] ELSE Absent]
             q == [r EXCEPT !.status = st, !.answer = a]
  <2>1. calls' = (calls \ {r}) \cup {q}
    BY <1>3 DEF Answered
  <2>3. server' \in [Orders -> Versions \cup {Lost}] => a \in [Orders -> Versions \cup {Lost}]
    BY WorkspaceAssumption DEF Versions, Absent
  <2>4. q.kind = r.kind /\ q.status = st /\ st # "pending"
    BY <1>1, <1>3 DEF Calls
  <2>5. server' \in [Orders -> Versions \cup {Lost}] => IsTyped(q, gestures)
    <3> HAVE server' \in [Orders -> Versions \cup {Lost}]
    <3>1. a \in [Orders -> Versions \cup {Lost}]
      BY <2>3
    <3> HIDE DEF a
    <3>2. /\ q \in Calls /\ q.kind = r.kind /\ q.order = r.order /\ q.clears = r.clears
          /\ q.generation = r.generation /\ q.controller = r.controller
      BY <1>1, <3>1 DEF Calls
    <3> HIDE DEF q
    <3> QED
      BY <1>0, <1>3, <3>2, AnswerIsTyped
  <2> HIDE DEF q
  <2> QED
    BY <1>0, <1>3, <2>1, <2>4, <2>5, ServedIsTyped
<1>4. CASE ServeRead(r)
  BY <1>2, <1>3, <1>4 DEF ServeRead
<1>5. CASE ServeApply(r)
  <2>1. PICK st \in {"answered", "failed"} : Answered(r, st)
    BY <1>5 DEF ServeApply
  <2>2. r.kind = "apply" /\ server' = IF Exists(r.order) THEN [server EXCEPT ![r.order] = @ + 1]
                                     ELSE server
    BY <1>5 DEF ServeApply
  <2>3. \A o \in Orders : server'[o] \in {server[o], server[o] + 1}
    BY <1>2, <2>2
  <2>4. \A o \in Orders : server'[o] \in Int /\ server'[o] >= Lost /\ server'[o] <= server[o] + 1
    BY <1>2, <2>3 DEF Lost
  <2>5. server' \in [Orders -> Int]
    BY <1>2, <2>2, <2>4
  <2> QED
    BY <1>3, <2>1, <2>2, <2>4, <2>5
<1>6. CASE ServeCreate(r)
  <2>1. PICK o \in Orders, st \in {"answered", "failed"} :
          /\ server[o] = Absent /\ server' = [server EXCEPT ![o] = 0]
          /\ calls' = (calls \ {r}) \cup
               {[r EXCEPT !.status = st, !.order = o,
                          !.answer = [p \in Orders |-> IF p = o THEN 0 ELSE Absent]]}
    BY <1>6 DEF ServeCreate
  <2> DEFINE a == [p \in Orders |-> IF p = o THEN 0 ELSE Absent]
             q == [r EXCEPT !.status = st, !.order = o, !.answer = a]
  <2>2. r.kind = "create" /\ o \in Spellings
    BY <1>6, WorkspaceAssumption DEF ServeCreate
  <2>3. a \in [Orders -> Versions \cup {Lost}]
    BY WorkspaceAssumption DEF Versions, Absent
  <2>4. IsTyped(q, gestures) /\ q.kind = r.kind /\ q.status = st
    <3> HIDE DEF a
    <3>1. /\ q \in Calls /\ q.kind = r.kind /\ q.order = o /\ q.clears = r.clears /\ q.status = st
          /\ q.generation = r.generation /\ q.controller = r.controller
      BY <1>1, <2>2, <2>3 DEF Calls
    <3> HIDE DEF q
    <3> QED
      BY <1>0, <2>2, <3>1, AnswerIsTyped
  <2>5. calls' = (calls \ {r}) \cup {q}
    BY <2>1
  <2> HIDE DEF q
  <2>6. /\ server' \in [Orders -> Int]
        /\ \A p \in Orders : server'[p] \in Int /\ server'[p] >= Lost /\ server'[p] <= server[p] + 1
    <3>1. \A p \in Orders : server'[p] = IF p = o THEN 0 ELSE server[p]
      BY <1>2, <2>1
    <3>2. server[o] = -1
      <4>1. server[o] = Absent
        BY <2>1
      <4> QED
        BY <4>1 DEF Absent
    <3>3. \A p \in Orders : server'[p] \in Int /\ server'[p] >= Lost /\ server'[p] <= server[p] + 1
      <4> TAKE p \in Orders
      <4>1. CASE p = o
        BY <3>1, <3>2, <4>1 DEF Lost
      <4>2. CASE p # o
        BY <1>2, <3>1, <4>2 DEF Lost
      <4> QED
        BY <4>1, <4>2
    <3> QED
      BY <1>2, <2>1, <3>3
  <2> QED
    BY <1>0, <2>2, <2>4, <2>5, <2>6, ServedIsTyped
<1>7. CASE Fail(r)
  <2> DEFINE q == [r EXCEPT !.status = "failed"]
  <2>1. calls' = (calls \ {r}) \cup {q} /\ server' = server
    BY <1>7 DEF Fail
  <2>2. q.kind = r.kind /\ q.status # "pending"
    BY <1>1 DEF Calls
  <2>3. IsTyped(q, gestures)
    <3>1. /\ q \in Calls /\ q.kind = r.kind /\ q.order = r.order /\ q.clears = r.clears
          /\ q.generation = r.generation /\ q.controller = r.controller
          /\ q.status # "answered"
      BY <1>1 DEF Calls
    <3> HIDE DEF q
    <3> QED
      BY <1>0, <3>1, AnswerIsTyped
  <2> HIDE DEF q
  <2> QED
    BY <1>0, <1>2, <2>1, <2>2, <2>3, ServedIsTyped
<1> QED
  BY <1>4, <1>5, <1>6, <1>7

(***************************************************************************)
(* An answer that finds its order is shown and listed with its types.      *)
(***************************************************************************)
LEMMA AnswerIsShown ==
  ASSUME NEW n, NEW r, IsTyped(r, n), IsFound(r), r.kind # "list",
         summaries \in [Orders -> Versions]
  PROVE  /\ r.order \in Spellings /\ Answer(r) \in Shown
         /\ Upsert(Answer(r)) \in [Orders -> Versions]
<1>1. r \in Calls /\ r.status = "answered"
  BY DEF IsTyped, IsFound
<1>2. r.order \in Spellings
  BY <1>1 DEF IsTyped, Calls
<1>3. Named(r.order) \in Orders
  BY <1>2, WorkspaceAssumption DEF Named
<1>4. r.answer[Named(r.order)] \in Versions \cup {Lost} /\ r.answer[Named(r.order)] >= 0
  <2>1. r.answer \in [Orders -> Versions \cup {Lost}]
    BY <1>1 DEF Calls
  <2> QED
    BY <1>3, <2>1 DEF IsFound, Answer
<1>5. r.answer[Named(r.order)] \in Versions \ {Absent}
  BY <1>4 DEF Lost, Absent
<1>6. Answer(r) \in Shown
  BY <1>3, <1>5 DEF Answer, Shown
<1>7. Upsert(Answer(r)) \in [Orders -> Versions]
  BY <1>3, <1>5 DEF Answer, Upsert
<1> QED
  BY <1>2, <1>6, <1>7

(***************************************************************************)
(* Receiving an answer keeps the types if what it changes has them.        *)
(***************************************************************************)
LEMMA ReceivedIsTyped ==
  ASSUME TypeInv, ShowsSelected', UNCHANGED <<server, gestures>>,
         NEW r \in calls, Writes(calls') = Writes(calls) \ {r},
         \A q \in calls' : IsTyped(q, gestures),
         \/ generation' = generation
         \/ r.kind \in {"apply", "create"} /\ generation' = generation + 1,
         controllers' \in [workspace : 0 .. gestures, events : 0 .. gestures],
         selected' \in Spellings \cup {NoOrder}, detail' \in Shown, events' \in Shown,
         eventsError' \in BOOLEAN, loading' \in [DOMAIN Idle -> BOOLEAN],
         summaries' \in [Orders -> Versions]
  PROVE  TypeInv'
<1>1. InBudget' /\ generation' \in Nat
  BY ReceivingIsInBudget
<1>2. server' \in [Orders -> Int] /\ \A o \in Orders : server'[o] >= Lost
  BY ViewTypes
<1>3. gestures' = gestures /\ gestures' \in 0 .. MaxGestures
  BY Counters
<1> QED
  BY <1>1, <1>2, <1>3, TypedAgain

(***************************************************************************)
(* A call that is done leaves the types of the others.                     *)
(***************************************************************************)
LEMMA OneCallLess ==
  ASSUME TypeInv, NEW r \in calls
  PROVE  /\ \A q \in calls \ {r} : IsTyped(q, gestures)
         /\ Writes(calls \ {r}) = Writes(calls) \ {r}
         /\ IsTyped(r, gestures)
BY DEF TypeInv, Writes

(***************************************************************************)
(* A spinner that stops keeps its type.                                    *)
(***************************************************************************)
LEMMA SpinnerIsTyped ==
  ASSUME TypeInv, NEW r, NEW spinner \in {"detail", "events", "event", "create"},
         StopSpinner(r, spinner)
  PROVE  loading' \in [DOMAIN Idle -> BOOLEAN]
<1>1. loading' = loading \/ loading' = [loading EXCEPT ![spinner] = FALSE]
  BY DEF StopSpinner
<1> QED
  BY <1>1, IdleFlags, ViewTypes

(***************************************************************************)
(* Flags that are set keep their types.                                    *)
(***************************************************************************)
LEMMA FlagsAreTyped ==
  ASSUME TypeInv
  PROVE  /\ [loading EXCEPT !.event = FALSE] \in [DOMAIN Idle -> BOOLEAN]
         /\ [loading EXCEPT !.create = FALSE] \in [DOMAIN Idle -> BOOLEAN]
         /\ [loading EXCEPT !.events = TRUE, !.event = FALSE] \in [DOMAIN Idle -> BOOLEAN]
         /\ [loading EXCEPT !.detail = FALSE, !.events = TRUE, !.create = FALSE]
               \in [DOMAIN Idle -> BOOLEAN]
         /\ [Idle EXCEPT !.create = loading.create] \in [DOMAIN Idle -> BOOLEAN]
  BY IdleFlags, ViewTypes

(***************************************************************************)
(* The answers of calls that read, and the calls that were aborted.        *)
(***************************************************************************)
LEMMA ReceivingReadsIsTyped ==
  ASSUME TypeInv, ShowsSelected', NEW r \in calls,
         Cancel(r) \/ ReceiveList(r) \/ ReceiveDetail(r) \/ ReceiveEvents(r)
  PROVE  TypeInv'
<1>0. /\ UNCHANGED <<server, gestures, generation, controllers, selected>>
      /\ \A q \in calls \ {r} : IsTyped(q, gestures)
      /\ Writes(calls \ {r}) = Writes(calls) \ {r}
      /\ IsTyped(r, gestures)
  <2>1. UNCHANGED <<server, gestures, generation, controllers, selected>>
    BY DEF Cancel, ReceiveList, ReceiveDetail, ReceiveEvents, Settles, view
  <2> QED
    BY <2>1, OneCallLess
<1>1. /\ controllers' \in [workspace : 0 .. gestures, events : 0 .. gestures]
      /\ selected' \in Spellings \cup {NoOrder}
  BY <1>0, ViewTypes
<1>2. CASE Cancel(r)
  BY <1>0, <1>1, <1>2, ViewTypes, ReceivedIsTyped DEF Cancel, view
<1>3. CASE ReceiveList(r)
  <2>1. calls' = calls \ {r} /\ UNCHANGED <<detail, events, eventsError>>
    BY <1>3 DEF ReceiveList
  <2>2. loading' \in [DOMAIN Idle -> BOOLEAN]
    BY <1>3, SpinnerIsTyped, ViewTypes DEF ReceiveList
  <2>3. summaries' \in [Orders -> Versions]
    <3>1. r.answer \in [Orders -> Versions \cup {Lost}]
      BY <1>0 DEF IsTyped, Calls
    <3>2. Absent \in Versions
      BY WorkspaceAssumption DEF Versions, Absent
    <3>3. Listed(r.answer) \in [Orders -> Versions]
      BY <3>1, <3>2 DEF Listed
    <3> QED
      BY <1>3, <3>3, ViewTypes DEF ReceiveList
  <2> QED
    BY <1>0, <1>1, <2>1, <2>2, <2>3, ViewTypes, ReceivedIsTyped
<1>4. CASE ReceiveDetail(r)
  <2>1. r.kind = "detail" /\ UNCHANGED <<events, eventsError>>
    BY <1>4 DEF ReceiveDetail, Settles
  <2>2. detail' \in Shown /\ summaries' \in [Orders -> Versions]
    BY <1>0, <1>4, <2>1, AnswerIsShown, ViewTypes DEF ReceiveDetail
  <2>3. /\ loading' \in [DOMAIN Idle -> BOOLEAN]
        /\ \A q \in calls' : IsTyped(q, gestures)
        /\ Writes(calls') = Writes(calls) \ {r}
    <3>1. CASE calls' = calls \ {r} /\ StopSpinner(r, "detail")
      BY <1>0, <3>1, SpinnerIsTyped
    <3>2. CASE /\ UNCHANGED loading
               /\ calls' = (calls \ {r}) \cup
                    {Call("list", r.order, r.generation, r.controller, r.refresh, TRUE)}
      <4>1. PICK q : calls' = (calls \ {r}) \cup {q} /\ IsTyped(q, gestures) /\ q.kind = "list"
        <5> DEFINE n == gestures
                   g == r.generation
                   c == r.controller
        <5>1. /\ n \in 0 .. MaxGestures /\ g \in 0 .. n /\ c \in 0 .. n
              /\ r.refresh \in BOOLEAN /\ r.order \in Spellings \cup {NoOrder}
          BY <1>0, Counters DEF IsTyped, Calls
        <5> HIDE DEF n, g, c
        <5>2. \A k \in {"list"}, b \in BOOLEAN :
                /\ IsTyped(Call(k, r.order, g, c, r.refresh, b), n)
                /\ Call(k, r.order, g, c, r.refresh, b).kind = k
          <6> TAKE k \in {"list"}, b \in BOOLEAN
          <6>1. /\ k \in {"list", "detail", "events", "apply", "create"} /\ (b => k = "list")
                /\ k \notin {"detail", "events", "apply"}
            OBVIOUS
          <6> QED
            BY <5>1, <6>1, NewCallIsTyped
        <5>3. TRUE \in BOOLEAN /\ "list" \in {"list"}
          OBVIOUS
        <5> DEFINE q == Call("list", r.order, r.generation, r.controller, r.refresh, TRUE)
        <5>4. IsTyped(q, gestures) /\ q.kind = "list"
          BY <5>2, <5>3, Zenon DEF n, g, c
        <5> HIDE DEF q
        <5>5. calls' = (calls \ {r}) \cup {q}
          BY <3>2 DEF q
        <5> QED
          BY <5>4, <5>5
      <4>2. Writes(calls') = Writes(calls \ {r})
        BY <4>1 DEF Writes
      <4> QED
        BY <1>0, <3>2, <4>1, <4>2, ViewTypes
    <3> QED
      BY <1>4, <3>1, <3>2 DEF ReceiveDetail
  <2> QED
    BY <1>0, <1>1, <2>1, <2>2, <2>3, ViewTypes, ReceivedIsTyped
<1>5. CASE ReceiveEvents(r)
  <2>1. r.kind = "events" /\ calls' = calls \ {r} /\ UNCHANGED <<detail, summaries>>
    BY <1>5 DEF ReceiveEvents, Settles
  <2>2. events' \in Shown /\ eventsError' \in BOOLEAN
    <3>1. events' \in Shown
      BY <1>0, <1>5, <2>1, AnswerIsShown, ViewTypes DEF ReceiveEvents
    <3>2. eventsError' = eventsError \/ eventsError' = TRUE
      BY <1>5 DEF ReceiveEvents
    <3> QED
      BY <3>1, <3>2, ViewTypes
  <2>3. loading' \in [DOMAIN Idle -> BOOLEAN]
    BY <1>5, SpinnerIsTyped DEF ReceiveEvents
  <2> QED
    BY <1>0, <1>1, <2>1, <2>2, <2>3, ViewTypes, ReceivedIsTyped
<1> QED
  BY <1>2, <1>3, <1>4, <1>5

(***************************************************************************)
(* The answers of calls that write. (submitEvent, createOrder.)            *)
(***************************************************************************)
LEMMA ReceivingWritesIsTyped ==
  ASSUME TypeInv, ShowsSelected', NEW r \in calls,
         \/ ReceiveApplied(r) \/ ReceiveNotApplied(r)
         \/ ReceiveCreated(r) \/ ReceiveNotCreated(r)
  PROVE  TypeInv'
<1>0. /\ UNCHANGED <<server, gestures>> /\ r.kind \in {"apply", "create"}
      /\ \A q \in calls \ {r} : IsTyped(q, gestures)
      /\ Writes(calls \ {r}) = Writes(calls) \ {r}
      /\ IsTyped(r, gestures)
  <2>1. UNCHANGED <<server, gestures>> /\ r.kind \in {"apply", "create"}
    BY DEF ReceiveApplied, ReceiveNotApplied, ReceiveCreated, ReceiveNotCreated, Settles
  <2> QED
    BY <2>1, OneCallLess
<1>1. /\ gestures \in 0 .. MaxGestures /\ 0 \in 0 .. gestures
      /\ r.controller \in 0 .. gestures /\ r.generation \in 0 .. gestures
  BY <1>0, Counters DEF IsTyped, Calls
<1>2. ASSUME NEW cs
      PROVE  /\ \A q \in Aborted(calls \ {r}, cs) : IsTyped(q, gestures)
             /\ Writes(Aborted(calls \ {r}, cs)) = Writes(calls) \ {r}
  BY <1>0, AbortedTyped
<1>3. IsFound(r) => /\ r.order \in Spellings /\ Answer(r) \in Shown
                    /\ Upsert(Answer(r)) \in [Orders -> Versions]
  BY <1>0, AnswerIsShown, ViewTypes
<1>4. FALSE \in BOOLEAN /\ TRUE \in BOOLEAN
  OBVIOUS
<1>5. ASSUME NEW rs, NEW q, calls' = rs \cup {q}, IsTyped(q, gestures),
             q.kind \notin {"apply", "create"}, \A s \in rs : IsTyped(s, gestures),
             Writes(rs) = Writes(calls) \ {r}
      PROVE  /\ \A s \in calls' : IsTyped(s, gestures)
             /\ Writes(calls') = Writes(calls) \ {r}
  BY <1>5 DEF Writes
<1>6. CASE ReceiveApplied(r)
  <2>1. r.kind = "apply" /\ IsFound(r) /\ summaries' = Upsert(Answer(r))
        /\ UNCHANGED <<generation, selected, events>>
    BY <1>6 DEF ReceiveApplied, Settles
  <2>2. CASE IsCurrent(r)
    <3> DEFINE e == Events(r.order, r.generation, r.controller, FALSE)
               rs == Aborted(calls \ {r}, {controllers.events})
    <3>1. /\ detail' = Answer(r) /\ eventsError' = FALSE
          /\ controllers' = [controllers EXCEPT !.events = r.controller]
          /\ loading' = [loading EXCEPT !.events = TRUE, !.event = FALSE]
          /\ calls' = rs \cup {e}
      BY <1>6, <2>2 DEF ReceiveApplied
    <3>2. IsTyped(e, gestures) /\ e.kind = "events"
      <4>1. \A b \in BOOLEAN :
              /\ IsTyped(Events(r.order, r.generation, r.controller, b), gestures)
              /\ Events(r.order, r.generation, r.controller, b).kind = "events"
        BY <1>1, <1>3, <2>1, NewReadsAreTyped
      <4> QED
        BY <1>4, <4>1, Zenon
    <3>3. /\ \A s \in calls' : IsTyped(s, gestures)
          /\ Writes(calls') = Writes(calls) \ {r}
      <4> HIDE DEF e, rs
      <4>1. (\A q \in rs : IsTyped(q, gestures)) /\ Writes(rs) = Writes(calls) \ {r}
        BY <1>2 DEF rs
      <4> QED
        BY <1>5, <3>1, <3>2, <4>1
    <3>4. controllers' \in [workspace : 0 .. gestures, events : 0 .. gestures]
      BY <1>1, <3>1, ViewTypes
    <3> QED
      BY <1>0, <1>3, <2>1, <3>1, <3>3, <3>4, FlagsAreTyped, ViewTypes, ReceivedIsTyped
  <2>3. CASE ~IsCurrent(r)
    <3>1. calls' = calls \ {r} /\ UNCHANGED <<detail, controllers, eventsError, loading>>
      BY <1>6, <2>3 DEF ReceiveApplied
    <3> QED
      BY <1>0, <1>3, <2>1, <3>1, ViewTypes, ReceivedIsTyped
  <2> QED
    BY <2>2, <2>3
<1>7. CASE ReceiveNotApplied(r)
  <2>1. r.kind = "apply" /\ UNCHANGED summaries
    BY <1>7 DEF ReceiveNotApplied, Settles
  <2>2. CASE IsCurrent(r) /\ IsMissing(r)
    <3> DEFINE l == List(r.controller, FALSE)
               rs == Aborted(calls \ {r}, BothControllers)
    <3>1. LeaveOrder /\ calls' = rs \cup {l}
      BY <1>7, <2>2 DEF ReceiveNotApplied
    <3>2. IsTyped(l, gestures) /\ l.kind = "list"
      <4>1. \A b \in BOOLEAN : /\ IsTyped(List(r.controller, b), gestures)
                               /\ List(r.controller, b).kind = "list"
        BY <1>1, NewListIsTyped
      <4> QED
        BY <1>4, <4>1, Zenon
    <3>3. /\ \A s \in calls' : IsTyped(s, gestures)
          /\ Writes(calls') = Writes(calls) \ {r}
      <4> HIDE DEF l, rs
      <4>1. (\A q \in rs : IsTyped(q, gestures)) /\ Writes(rs) = Writes(calls) \ {r}
        BY <1>2 DEF rs
      <4> QED
        BY <1>5, <3>1, <3>2, <4>1
    <3>4. /\ generation' = generation + 1 /\ selected' = NoOrder
          /\ detail' = Nothing /\ events' = Nothing /\ eventsError' = FALSE
          /\ controllers' = [workspace |-> 0, events |-> 0]
          /\ loading' = [Idle EXCEPT !.create = loading.create]
      BY <3>1 DEF LeaveOrder
    <3>5. controllers' \in [workspace : 0 .. gestures, events : 0 .. gestures]
      BY <1>1, <3>4
    <3> QED
      BY <1>0, <2>1, <3>3, <3>4, <3>5, FlagsAreTyped, ViewTypes, ReceivedIsTyped
  <2>3. CASE ~(IsCurrent(r) /\ IsMissing(r))
    <3>1. /\ loading' \in {loading, [loading EXCEPT !.event = FALSE]} /\ calls' = calls \ {r}
          /\ UNCHANGED <<generation, controllers, selected, detail, events, eventsError>>
      BY <1>7, <2>3 DEF ReceiveNotApplied
    <3> QED
      BY <1>0, <2>1, <3>1, FlagsAreTyped, ViewTypes, ReceivedIsTyped
  <2> QED
    BY <2>2, <2>3
<1>8. CASE ReceiveCreated(r)
  <2>1. r.kind = "create" /\ IsFound(r) /\ summaries' = Upsert(Answer(r))
    BY <1>8 DEF ReceiveCreated, Settles
  <2>2. CASE IsStillThere(r)
    <3> DEFINE e == Events(r.order, generation + 1, r.controller, FALSE)
               rs == Aborted(calls \ {r}, BothControllers)
    <3>1. /\ generation' = generation + 1 /\ selected' = r.order
          /\ controllers' = [workspace |-> 0, events |-> r.controller]
          /\ detail' = Answer(r) /\ events' = Nothing /\ eventsError' = FALSE
          /\ loading' = [loading EXCEPT !.detail = FALSE, !.events = TRUE, !.create = FALSE]
          /\ calls' = rs \cup {e}
      BY <1>8, <2>2 DEF ReceiveCreated
    <3>2. IsTyped(e, gestures) /\ e.kind = "events"
      <4>1. generation + 1 \in 0 .. gestures
        <5>1. Writes(calls) \ {r} = Writes(calls \ {r}) /\ r \in Writes(calls)
          BY <1>0 DEF Writes
        <5>2. Cardinality(Writes(calls)) # 0
          BY <5>1, FS_EmptySet DEF TypeInv, InBudget
        <5> QED
          BY <5>2, Counters DEF TypeInv, InBudget
      <4>2. \A g \in 0 .. gestures, b \in BOOLEAN :
              /\ IsTyped(Events(r.order, g, r.controller, b), gestures)
              /\ Events(r.order, g, r.controller, b).kind = "events"
        BY <1>1, <1>3, <2>1, NewReadsAreTyped
      <4> QED
        BY <1>4, <4>1, <4>2, Zenon
    <3>3. /\ \A s \in calls' : IsTyped(s, gestures)
          /\ Writes(calls') = Writes(calls) \ {r}
      <4> HIDE DEF e, rs
      <4>1. (\A q \in rs : IsTyped(q, gestures)) /\ Writes(rs) = Writes(calls) \ {r}
        BY <1>2 DEF rs
      <4> QED
        BY <1>5, <3>1, <3>2, <4>1
    <3>4. controllers' \in [workspace : 0 .. gestures, events : 0 .. gestures]
      BY <1>1, <3>1
    <3> QED
      BY <1>0, <1>3, <2>1, <3>1, <3>3, <3>4, FlagsAreTyped, ViewTypes, ReceivedIsTyped
  <2>3. CASE ~IsStillThere(r)
    <3>1. /\ calls' = calls \ {r} /\ loading' = [loading EXCEPT !.create = FALSE]
          /\ UNCHANGED <<generation, controllers, selected, detail, events, eventsError>>
      BY <1>8, <2>3 DEF ReceiveCreated
    <3> QED
      BY <1>0, <1>3, <2>1, <3>1, FlagsAreTyped, ViewTypes, ReceivedIsTyped
  <2> QED
    BY <2>2, <2>3
<1>9. CASE ReceiveNotCreated(r)
  <2>1. /\ calls' = calls \ {r} /\ loading' = [loading EXCEPT !.create = FALSE]
        /\ UNCHANGED <<generation, controllers, selected, detail, events, eventsError, summaries>>
    BY <1>9 DEF ReceiveNotCreated
  <2> QED
    BY <1>0, <2>1, FlagsAreTyped, ViewTypes, ReceivedIsTyped
<1> QED
  BY <1>6, <1>7, <1>8, <1>9

(***************************************************************************)
(* Every step keeps the types.                                             *)
(***************************************************************************)
LEMMA StepTypes ==
  ASSUME TypeInv, [Next]_vars
  PROVE  TypeInv'
<1>0. ShowsSelected'
  BY StepShowsSelected DEF TypeInv
<1>1. CASE UNCHANGED vars
  <2>1. /\ UNCHANGED <<server, calls, gestures, generation, controllers, selected, detail,
                      events, eventsError, loading, summaries>>
    BY <1>1 DEF vars, view
  <2>2. TypeOK'
    BY <2>1 DEF TypeInv, TypeOK
  <2>3. InBudget'
    BY <2>1 DEF TypeInv, InBudget
  <2> QED
    BY <1>0, <2>1, <2>2, <2>3 DEF TypeInv
<1>2. CASE (\E id \in Spellings : OpenOrder(id))
           \/ BackToOrders \/ RefreshDashboard \/ RetryAvailableEvents
  BY <1>0, <1>2, ReadingGesturesAreTyped
<1>3. CASE (\E o \in Orders : Foreign(o)) \/ Restart
  BY <1>0, <1>3, WorldIsTyped
<1>4. CASE ApplyEvent \/ CreateOrder
  BY <1>0, <1>4, WritingGesturesAreTyped
<1>5. ASSUME NEW r \in calls, Deliver(r) PROVE TypeInv'
  BY <1>0, <1>5, ServingIsTyped, ReceivingReadsIsTyped, ReceivingWritesIsTyped DEF Deliver
<1> QED
  BY <1>1, <1>2, <1>3, <1>4, <1>5 DEF Next, Rest

(***************************************************************************)
(* The page as it is loaded has the types.                                 *)
(***************************************************************************)
LEMMA InitTypes ==
  ASSUME Init
  PROVE  TypeInv
<1>1. /\ gestures = 0 /\ generation = 0 /\ MaxGestures \in Nat /\ 0 \in 0 .. MaxGestures
      /\ calls = {List(0, FALSE)} /\ Absent \in Versions /\ 0 \in Versions
  BY WorkspaceAssumption DEF Init, Versions, Absent
<1>2. IsTyped(List(0, FALSE), gestures) /\ List(0, FALSE).kind = "list"
  <2>1. \A n \in {0}, c \in {0}, b \in BOOLEAN :
          IsTyped(List(c, b), n) /\ List(c, b).kind = "list"
    BY <1>1, NewListIsTyped
  <2>2. FALSE \in BOOLEAN /\ 0 \in {0}
    OBVIOUS
  <2> QED
    BY <1>1, <2>1, <2>2, Zenon
<1>3. /\ server \in [Orders -> Int]
      /\ \A o \in Orders : server[o] \in Int /\ server[o] >= Lost /\ server[o] <= 0
  BY DEF Init, Absent, Lost
<1>4. InBudget
  <2>1. Writes(calls) = {}
    BY <1>1, <1>2 DEF Writes
  <2>2. Unserved(calls) = {}
    BY <2>1 DEF Unserved
  <2>3. IsFiniteSet(Writes(calls)) /\ Cardinality(Writes(calls)) = 0
        /\ Cardinality(Unserved(calls)) = 0
    BY <2>1, <2>2, FS_EmptySet
  <2> DEFINE w == Cardinality(Writes(calls))
             u == Cardinality(Unserved(calls))
  <2>4. w = 0 /\ u = 0
    BY <2>3
  <2> HIDE DEF w, u
  <2>5. /\ generation + w <= gestures
        /\ \A o \in Orders : server[o] + u <= gestures
    <3> USE <1>1, <2>4
    <3>1. generation + w <= gestures
      OBVIOUS
    <3>2. ASSUME NEW o \in Orders PROVE server[o] + u <= gestures
      <4>1. server[o] \in Int /\ server[o] <= 0
        BY <1>3
      <4> QED
        BY <4>1
    <3> QED
      BY <3>1, <3>2
  <2> QED
    BY <2>3, <2>5 DEF InBudget, w, u
<1>5. server \in [Orders -> Versions \cup {Lost}]
  BY <1>1 DEF Init
<1>6. /\ Nothing \in Shown /\ detail \in Shown /\ events \in Shown
      /\ selected \in Spellings \cup {NoOrder}
  BY DEF Init, Shown
<1>7. /\ summaries \in [Orders -> Versions] /\ loading \in [DOMAIN Idle -> BOOLEAN]
      /\ eventsError \in BOOLEAN
  <2>1. summaries \in [Orders -> Versions]
    BY <1>1 DEF Init
  <2>2. loading = Idle /\ eventsError = FALSE
    BY DEF Init
  <2> QED
    BY <2>1, <2>2, IdleFlags
<1>8. controllers \in [workspace : 0 .. gestures, events : 0 .. gestures]
  <2>1. controllers = [workspace |-> 0, events |-> 0] /\ 0 \in 0 .. gestures
    BY <1>1 DEF Init
  <2> QED
    BY <2>1
<1>9. TypeOK
  <2>1. calls \subseteq Calls
    BY <1>1, <1>2 DEF IsTyped
  <2>2. gestures \in 0 .. MaxGestures /\ generation \in 0 .. 2 * MaxGestures
    BY <1>1
  <2> QED
    BY <1>5, <1>6, <1>7, <1>8, <2>1, <2>2 DEF TypeOK
<1>10. ShowsSelected
  BY DEF Init, ShowsSelected, Nothing
<1> QED
  BY <1>1, <1>2, <1>4, <1>9, <1>10 DEF TypeInv

(***************************************************************************)
(* Every variable of the workspace has its type, and its numbers stay      *)
(* within what the gestures pay for: a selection begins with a gesture or  *)
(* with the answer of a write, of which each gesture makes one at most.    *)
(* (selectionGeneration, useOrderWorkspace.ts)                             *)
(***************************************************************************)
THEOREM WorkspaceTypes == Spec => []TypeOK
<1>1. Init => TypeInv
  BY InitTypes
<1>2. TypeInv /\ [Next]_vars => TypeInv'
  BY StepTypes
<1>3. TypeInv => TypeOK
  BY DEF TypeInv
<1> QED
  BY <1>1, <1>2, <1>3, PTL DEF Spec

(***************************************************************************)
(* The steps of the form keep the types of the workspace.                  *)
(***************************************************************************)
LEMMA FormStepTypes ==
  ASSUME TypeInv, [FormNext]_<<vars, formVars>>
  PROVE  TypeInv'
<1>1. [Next]_vars \/ Touched
  BY FormSteps DEF vars
<1>2. CASE Touched
  <2>1. /\ gestures' = gestures + 1 /\ gestures' \in 0 .. MaxGestures
        /\ UNCHANGED <<server, calls, generation, controllers, selected, detail, events,
                       eventsError, loading, summaries>>
    BY <1>2, Counters DEF Touched, view
  <2>2. ShowsSelected'
    BY <2>1 DEF TypeInv, ShowsSelected
  <2>3. \A o \in Orders : server'[o] \in Int /\ server'[o] <= server[o] + 1
    BY <2>1, ViewTypes
  <2>4. InBudget'
    BY <2>1, <2>3, GestureIsInBudget
  <2>5. /\ \A q \in calls' : IsTyped(q, gestures')
        /\ controllers' \in [workspace : 0 .. gestures', events : 0 .. gestures']
    BY <2>1, TypesLast
  <2>6. generation' \in Nat
    BY <2>1, Counters
  <2> QED
    BY <2>1, <2>2, <2>4, <2>5, <2>6, ViewTypes, TypedAgain
<1> QED
  BY <1>1, <1>2, StepTypes

(***************************************************************************)
(* The workspace keeps its types with the form in it.                      *)
(* (selectionGeneration, useOrderWorkspace.ts)                             *)
(***************************************************************************)
THEOREM FormWorkspaceTypes == FormSpec => []TypeOK
<1>1. FormInit => TypeInv
  BY InitTypes DEF FormInit
<1>2. TypeInv /\ [FormNext]_<<vars, formVars>> => TypeInv'
  BY FormStepTypes
<1>3. TypeInv => TypeOK
  BY DEF TypeInv
<1> QED
  BY <1>1, <1>2, <1>3, PTL DEF FormSpec

-----------------------------------------------------------------------------
(* The lists of the lifecycle *)

KeepStep(set, q, kept, e) == IF e \in set THEN Append(kept, e) ELSE kept

JoinStep(p, q, all, list) == all \o list

Keeping == INSTANCE FoldFacts WITH Op <- KeepStep
Joining == INSTANCE FoldFacts WITH Op <- JoinStep

(***************************************************************************)
(* What is kept of a list are its elements in the set, and no others.      *)
(***************************************************************************)
LEMMA KeptAreAmong ==
  ASSUME NEW S, NEW list \in Seq(S), NEW set
  PROVE  /\ Lifecycle!Among(list, set) \in Seq(S)
         /\ ToSet(Lifecycle!Among(list, set)) = ToSet(list) \cap set
<1>1. Lifecycle!Among(list, set) = Keeping!Fold(set, 0, <<>>, list)
  BY DEF Lifecycle!Among, Keeping!Fold, KeepStep, Lifecycle!FoldLeft,
     Lifecycle!MapThenFoldSet, Lifecycle!Max, Keeping!FoldLeft,
     Keeping!MapThenFoldSet, Keeping!Max
<1>2. \A kept, e : KeepStep(set, 0, kept, e) = IF e \in set THEN Append(kept, e) ELSE kept
  BY DEF KeepStep
<1>3. /\ Keeping!Fold(set, 0, <<>>, list) \in Seq(S)
      /\ Keeping!ToSet(Keeping!Fold(set, 0, <<>>, list)) = Keeping!ToSet(list) \cap set
  BY <1>2, Keeping!FilterKeeps
<1> QED
  BY <1>1, <1>3 DEF Keeping!ToSet, ToSet

(***************************************************************************)
(* The list of a state holds exactly the events it takes.                  *)
(* (get_available_events.)                                                 *)
(***************************************************************************)
LEMMA ListIsComplete ==
  ASSUME NEW state \in Lifecycle!States
  PROVE  /\ Lifecycle!AvailableEventList(state) \in Seq(Lifecycle!Events)
         /\ ToSet(Lifecycle!AvailableEventList(state)) = Lifecycle!AvailableEvents(state)
<1>1. Lifecycle!EventOrder \in Seq(Lifecycle!Events)
  BY DEF Lifecycle!EventOrder, Lifecycle!Events
<1>2. Lifecycle!Events \subseteq ToSet(Lifecycle!EventOrder)
  <2> DEFINE order == Lifecycle!EventOrder
  <2>1. DOMAIN order = 1 .. 16
    BY DEF Lifecycle!EventOrder
  <2>2. \A i \in 1 .. 16 : order[i] \in ToSet(order)
    BY <2>1 DEF ToSet
  <2>3. Lifecycle!Events = {order[1], order[2], order[3], order[4], order[5], order[6],
          order[7], order[8], order[9], order[10], order[11], order[12], order[13],
          order[14], order[15], order[16]}
    BY DEF Lifecycle!EventOrder, Lifecycle!Events
  <2> HIDE DEF order
  <2>4. Lifecycle!Events \subseteq ToSet(order)
    BY <2>2, <2>3
  <2> QED
    BY <2>4 DEF order
<1>3. Lifecycle!AvailableEvents(state) \subseteq Lifecycle!Events
  BY DEF Lifecycle!AvailableEvents
<1> QED
  BY <1>1, <1>2, <1>3, KeptAreAmong DEF Lifecycle!AvailableEventList

Row(state, event) ==
  [fromState |-> state, eventType |-> event, toState |-> Lifecycle!NextState(state, event)]

RowsOf(state) == {Row(state, event) : event \in Lifecycle!AvailableEvents(state)}

AllRows == UNION {RowsOf(state) : state \in Lifecycle!States}

(***************************************************************************)
(* The rows of a state are one for each event it takes.                    *)
(***************************************************************************)
LEMMA RowsOfState ==
  ASSUME NEW state \in Lifecycle!States
  PROVE  /\ Lifecycle!TransitionsFrom(state) \in Seq(AllRows)
         /\ ToSet(Lifecycle!TransitionsFrom(state)) = RowsOf(state)
<1> DEFINE offered == Lifecycle!AvailableEventList(state)
           rows    == [i \in DOMAIN offered |-> Row(state, offered[i])]
<1>1. Lifecycle!TransitionsFrom(state) = rows
  BY DEF Lifecycle!TransitionsFrom, Row
<1>2. offered \in Seq(Lifecycle!Events) /\ ToSet(offered) = Lifecycle!AvailableEvents(state)
  BY ListIsComplete
<1> HIDE DEF offered
<1>3. /\ DOMAIN rows = DOMAIN offered /\ DOMAIN offered = 1 .. Len(offered)
      /\ Len(offered) \in Nat /\ \A i \in DOMAIN offered : rows[i] = Row(state, offered[i])
  BY <1>2
<1>4. \A event : event \in Lifecycle!AvailableEvents(state)
                   <=> \E i \in DOMAIN offered : event = offered[i]
  BY <1>2 DEF ToSet
<1>5. \A row : row \in ToSet(rows) <=> \E i \in DOMAIN rows : row = rows[i]
  BY DEF ToSet
<1>6. \A row : row \in RowsOf(state)
                 <=> \E event \in Lifecycle!AvailableEvents(state) : row = Row(state, event)
  BY DEF RowsOf
<1>7. ToSet(rows) = RowsOf(state)
  <2> HIDE DEF rows
  <2>1. \A row : row \in ToSet(rows) <=> row \in RowsOf(state)
    BY <1>3, <1>4, <1>5, <1>6
  <2> QED
    BY <2>1
<1>8. \A i \in DOMAIN offered : rows[i] \in AllRows
  <2> HIDE DEF rows
  <2> QED
    BY <1>3, <1>5, <1>7 DEF AllRows
<1>9. rows \in Seq(AllRows)
  BY <1>3, <1>8
<1> QED
  BY <1>1, <1>7, <1>9

(***************************************************************************)
(* The definition the form reads holds a row for each state and each event *)
(* the state takes, and no others.  (get_transition_definitions.)          *)
(***************************************************************************)
LEMMA DefinitionIsComplete == Definition = AllRows
<1> DEFINE order == Lifecycle!StateOrder
           lists == [i \in DOMAIN order |-> Lifecycle!TransitionsFrom(order[i])]
           table == Joining!Fold(0, 0, <<>>, lists)
<1>1. Lifecycle!TransitionDefinitions = table
  BY DEF Lifecycle!TransitionDefinitions, Lifecycle!Joined, Joining!Fold, JoinStep,
     Lifecycle!FoldLeft, Lifecycle!MapThenFoldSet, Lifecycle!Max, Joining!FoldLeft,
     Joining!MapThenFoldSet, Joining!Max
<1>2. /\ DOMAIN order = 1 .. 11
      /\ \A i \in 1 .. 11 : order[i] \in Lifecycle!States
      /\ Lifecycle!States = {order[1], order[2], order[3], order[4], order[5], order[6],
           order[7], order[8], order[9], order[10], order[11]}
  BY DEF Lifecycle!StateOrder, Lifecycle!States
<1> HIDE DEF order
<1>3. \A i \in 1 .. 11 : /\ lists[i] \in Seq(AllRows) /\ lists[i] = Lifecycle!TransitionsFrom(order[i])
                         /\ ToSet(lists[i]) = RowsOf(order[i])
  BY <1>2, RowsOfState
<1>4. lists \in Seq(Seq(AllRows)) /\ DOMAIN lists = 1 .. 11
  BY <1>2, <1>3
<1> HIDE DEF lists
<1>5. \A all, list : JoinStep(0, 0, all, list) = all \o list
  BY DEF JoinStep
<1>6. ToSet(table) = UNION {ToSet(lists[i]) : i \in DOMAIN lists}
  <2>1. Joining!ToSet(table) = UNION {Joining!ToSet(lists[i]) : i \in DOMAIN lists}
    BY <1>4, <1>5, Joining!JoinedParts
  <2> QED
    BY <2>1 DEF Joining!ToSet, ToSet
<1> HIDE DEF table
<1>7. \A row : row \in ToSet(table) <=> \E i \in 1 .. 11 : row \in RowsOf(order[i])
  BY <1>3, <1>4, <1>6
<1>8. \A state : state \in Lifecycle!States <=> \E i \in 1 .. 11 : state = order[i]
  BY <1>2
<1>9. \A row : row \in ToSet(table) <=> row \in AllRows
  BY <1>7, <1>8 DEF AllRows
<1> QED
  BY <1>1, <1>9 DEF Definition

(***************************************************************************)
(* The states no row leaves are those without events, and the definition   *)
(* knows where each event offered leads.                                   *)
(***************************************************************************)
LEMMA DefinitionKnows ==
  /\ EndStates = Lifecycle!TerminalStates
  /\ \A state \in Lifecycle!States :
       \A event \in Lifecycle!AvailableEvents(state) : Targets[state][event] # {}
<1>1. ASSUME NEW state \in Lifecycle!States, NEW event \in Lifecycle!AvailableEvents(state)
      PROVE  /\ Row(state, event) \in Definition
             /\ Row(state, event).fromState = state /\ Row(state, event).eventType = event
             /\ event \in Lifecycle!Events
  BY DefinitionIsComplete DEF AllRows, RowsOf, Row, Lifecycle!AvailableEvents
<1>2. ASSUME NEW row \in Definition
      PROVE  \E event : event \in Lifecycle!AvailableEvents(row.fromState)
  <2>1. PICK state \in Lifecycle!States : row \in RowsOf(state)
    BY DefinitionIsComplete DEF AllRows
  <2>2. PICK event \in Lifecycle!AvailableEvents(state) : row = Row(state, event)
    BY <2>1 DEF RowsOf
  <2> QED
    BY <2>2 DEF Row
<1>3. \A state \in Lifecycle!States :
        state \in EndStates <=> Lifecycle!AvailableEvents(state) = {}
  BY <1>1, <1>2 DEF EndStates
<1>4. EndStates = Lifecycle!TerminalStates
  BY <1>3 DEF EndStates, Lifecycle!TerminalStates
<1>5. ASSUME NEW state \in Lifecycle!States, NEW event \in Lifecycle!AvailableEvents(state)
      PROVE  Targets[state][event] # {}
  <2>1. Targets[state][event]
          = {t.toState : t \in {u \in Definition : u.fromState = state /\ u.eventType = event}}
    BY <1>1 DEF Targets
  <2>2. Row(state, event).toState \in Targets[state][event]
    BY <1>1, <2>1
  <2> QED
    BY <2>2
<1> QED
  BY <1>4, <1>5

-----------------------------------------------------------------------------
(* The order an end is told of *)

\* An order has a state for each of its versions, and went on from each but the
\* last.
PathFits ==
  /\ path \in [Orders -> Seq(Lifecycle!States)]
  /\ \A o \in Orders :
       /\ server[o] \in Nat \cup {Absent, Lost}
       /\ server[o] \in Nat => Len(path[o]) = server[o] + 1
       /\ server[o] = Absent => path[o] = <<>>
       /\ \A i \in 1 .. (Len(path[o]) - 1) : AvailableEvents[path[o][i]] # <<>>

\* No answer is of a version the order has not reached.
AnswersFit == \A r \in calls, o \in Orders : r.answer[o] < Len(path[o])

\* The events shown are of a version their order reached.
EventsReached ==
  events # Nothing =>
    /\ events.order \in Orders /\ events.version \in Nat
    /\ events.version < Len(path[events.order])

\* The events of the order selected are loading, could not be loaded, or are there.
EventsShown == selected # NoOrder => loading.events \/ eventsError \/ events # Nothing

Flags == [detail : BOOLEAN, events : BOOLEAN, event : BOOLEAN, create : BOOLEAN]

EndInv ==
  /\ PathFits /\ AnswersFit
  /\ loading \in Flags /\ EventsShown
  /\ EventsReached

(***************************************************************************)
(* An order that is left goes to a state of the lifecycle.                 *)
(***************************************************************************)
LEMMA LeadsToState ==
  ASSUME NEW state \in Lifecycle!States, NEW event, NEW metadata,
         Contains(AvailableEvents[state], event)
  PROVE  Leads(state, event, metadata) \in Lifecycle!States
<1>1. event \in ToSet(AvailableEvents[state])
  BY DEF Contains, ToSet
<1>2. event \in Lifecycle!AvailableEvents(state)
  BY <1>1, ListIsComplete DEF AvailableEvents
<1>3. Lifecycle!Rows(state, event) # {}
  BY <1>2 DEF Lifecycle!AvailableEvents, Lifecycle!IsEnabled
<1>4. \A t \in Lifecycle!Transitions : t[3] \in Lifecycle!States
  BY DEF Lifecycle!Transitions, Lifecycle!SpecificTransitions,
     Lifecycle!UserCancellationTransitions, Lifecycle!States
<1>5. Lifecycle!NextState(state, event) \in Lifecycle!States
  BY <1>3, <1>4 DEF Lifecycle!NextState, Lifecycle!Rows
<1>6. "OnHold" \in Lifecycle!States
  BY DEF Lifecycle!States
<1> QED
  BY <1>5, <1>6 DEF Leads

(***************************************************************************)
(* A state without events is one the definition lets no order leave.       *)
(***************************************************************************)
LEMMA NoEventsAtTheEnd ==
  ASSUME NEW state \in Lifecycle!States, AvailableEvents[state] = <<>>
  PROVE  state \in EndStates
<1>1. ToSet(AvailableEvents[state]) = {}
  BY DEF ToSet
<1> QED
  BY <1>1, ListIsComplete, DefinitionKnows DEF AvailableEvents, Lifecycle!TerminalStates

(***************************************************************************)
(* Paths only grow.                                                        *)
(***************************************************************************)
PathsGrow ==
  \A o \in Orders : Len(path[o]) \in Nat /\ Len(path'[o]) \in Nat /\ Len(path'[o]) >= Len(path[o])

(***************************************************************************)
(* An event that an order takes adds a version and its state.              *)
(* (order_service.py apply_event, as EventForm.tsx sees it.)               *)
(***************************************************************************)
LEMMA MoveFits ==
  ASSUME PathFits, NEW o \in Orders, Exists(o), NEW event, NEW metadata,
         Moves(o, event, metadata), server \in [Orders -> Int],
         server' = [server EXCEPT ![o] = @ + 1]
  PROVE  PathFits' /\ PathsGrow
<1> DEFINE s == Leads(Last(path[o]), event, metadata)
<1>1. /\ server[o] \in Nat /\ Len(path[o]) = server[o] + 1
      /\ path[o] \in Seq(Lifecycle!States)
  BY DEF PathFits, Exists, Absent, Lost
<1>2. /\ Last(path[o]) = path[o][Len(path[o])]
      /\ Last(path[o]) \in Lifecycle!States
  BY <1>1 DEF Last
<1>3. Contains(AvailableEvents[Last(path[o])], event)
  BY DEF Moves
<1>4. s \in Lifecycle!States
  BY <1>2, <1>3, LeadsToState
<1>5. AvailableEvents[Last(path[o])] # <<>>
  BY <1>3 DEF Contains
<1>6. path' = [path EXCEPT ![o] = Append(path[o], s)]
  BY DEF Moves
<1> HIDE DEF s
<1>7. /\ Append(path[o], s) \in Seq(Lifecycle!States)
      /\ Len(Append(path[o], s)) = Len(path[o]) + 1
      /\ \A i \in 1 .. Len(path[o]) : Append(path[o], s)[i] = path[o][i]
  BY <1>1, <1>4
<1>8. /\ path' \in [Orders -> Seq(Lifecycle!States)]
      /\ path'[o] = Append(path[o], s) /\ \A p \in Orders \ {o} : path'[p] = path[p]
      /\ server'[o] = server[o] + 1 /\ \A p \in Orders \ {o} : server'[p] = server[p]
  BY <1>6, <1>7 DEF PathFits
<1>9. \A i \in 1 .. (Len(path'[o]) - 1) : AvailableEvents[path'[o][i]] # <<>>
  <2> SUFFICES ASSUME NEW i \in 1 .. (Len(path'[o]) - 1)
               PROVE  AvailableEvents[path'[o][i]] # <<>>
    OBVIOUS
  <2>1. i \in 1 .. Len(path[o]) /\ path'[o][i] = path[o][i]
    BY <1>1, <1>7, <1>8
  <2>2. CASE i = Len(path[o])
    BY <1>2, <1>5, <2>1, <2>2
  <2>3. CASE i \in 1 .. (Len(path[o]) - 1)
    BY <2>1, <2>3 DEF PathFits
  <2> QED
    BY <1>1, <2>1, <2>2, <2>3
<1>10. PathsGrow
  <2>1. \A p \in Orders : Len(path[p]) \in Nat
    BY DEF PathFits
  <2>2. Len(path'[o]) >= Len(path[o])
    BY <1>7, <1>8, <2>1
  <2>3. ASSUME NEW p \in Orders, p # o PROVE Len(path'[p]) >= Len(path[p])
    <3>1. path'[p] = path[p] /\ Len(path[p]) \in Nat
      BY <1>8, <2>1, <2>3
    <3> QED
      BY <3>1
  <2> QED
    BY <2>1, <2>2, <2>3 DEF PathsGrow
<1>11. ASSUME NEW p \in Orders
       PROVE  /\ server'[p] \in Nat \cup {Absent, Lost}
              /\ server'[p] \in Nat => Len(path'[p]) = server'[p] + 1
              /\ server'[p] = Absent => path'[p] = <<>>
              /\ \A i \in 1 .. (Len(path'[p]) - 1) : AvailableEvents[path'[p][i]] # <<>>
  <2>1. CASE p = o
    <3>1. server'[o] \in Nat /\ server'[o] # Absent
      BY <1>1, <1>8 DEF Absent
    <3>2. Len(path'[o]) = server'[o] + 1
      BY <1>1, <1>7, <1>8
    <3> QED
      BY <1>9, <2>1, <3>1, <3>2
  <2>2. CASE p # o
    BY <1>8, <2>2 DEF PathFits
  <2> QED
    BY <2>1, <2>2
<1> QED
  BY <1>8, <1>10, <1>11 DEF PathFits

(***************************************************************************)
(* Orders and their paths stay in step, whatever happens.                  *)
(***************************************************************************)
LEMMA StepPaths ==
  ASSUME FormInv, PathFits, [FormNext]_<<vars, formVars>>
  PROVE  PathFits' /\ PathsGrow
<1>0. server \in [Orders -> Int] /\ \A o \in Orders : Len(path[o]) \in Nat
  BY DEF FormInv, IndInv, Placed, WellFormed, PathFits
<1>1. ASSUME server' = server, path' = path PROVE PathFits' /\ PathsGrow
  BY <1>0, <1>1 DEF PathFits, PathsGrow
<1>2. CASE \/ UNCHANGED <<vars, formVars>>
           \/ \E event \in Lifecycle!Events : ChooseEvent(event)
           \/ \E text \in Texts : TypeMetadata(text)
           \/ Submit \/ SubmitBroken \/ ReceiveDefinition \/ (Rest /\ UNCHANGED formVars)
           \/ \E r \in calls : SettleEvent(r)
  BY <1>1, <1>2 DEF vars, formVars, ChooseEvent, TypeMetadata, Touch, Submit, ApplyEvent,
     SubmitBroken, ReceiveDefinition, Rest, SettleEvent, ReceiveApplied, ReceiveNotApplied,
     Settles
<1>3. ASSUME NEW o \in Orders, NEW event \in ForeignEvents, ForeignEvent(o, event)
      PROVE  PathFits' /\ PathsGrow
  BY <1>0, <1>3, MoveFits DEF ForeignEvent, Foreign
<1>4. ASSUME NEW r \in calls, ServeEvent(r) PROVE PathFits' /\ PathsGrow
  <2> DEFINE asked == requests[r.controller]
  <2>1. /\ server' = IF Exists(r.order) THEN [server EXCEPT ![r.order] = @ + 1] ELSE server
        /\ IF Exists(r.order) THEN Moves(r.order, asked.event, asked.metadata)
           ELSE path' = path
    BY <1>4 DEF ServeEvent, ServeApply
  <2> HIDE DEF asked
  <2>2. CASE Exists(r.order) /\ r.order \in Orders
    BY <1>0, <2>1, <2>2, MoveFits
  <2>3. CASE r.order \notin Orders
    <3>1. server' = server /\ path' = path
      BY <1>0, <2>1, <2>3 DEF Moves, PathFits
    <3> QED
      BY <1>1, <3>1
  <2>4. CASE ~Exists(r.order)
    BY <1>1, <2>1, <2>4
  <2> QED
    BY <2>2, <2>3, <2>4
<1>5. ASSUME NEW r \in calls, ServeNewOrder(r) PROVE PathFits' /\ PathsGrow
  <2>1. PICK o \in Orders : server[o] = Absent /\ server' = [server EXCEPT ![o] = 0]
    BY <1>5 DEF ServeNewOrder, ServeCreate
  <2>2. path' = [p \in Orders |-> IF server'[p] # server[p] THEN <<"Pending">> ELSE path[p]]
    BY <1>5 DEF ServeNewOrder
  <2>3. /\ path'[o] = <<"Pending">> /\ server'[o] = 0 /\ path[o] = <<>>
        /\ \A p \in Orders \ {o} : path'[p] = path[p] /\ server'[p] = server[p]
    BY <1>0, <2>1, <2>2 DEF Absent, PathFits
  <2>4. <<"Pending">> \in Seq(Lifecycle!States) /\ Len(<<"Pending">>) = 1
    BY DEF Lifecycle!States
  <2>5. path' \in [Orders -> Seq(Lifecycle!States)]
    BY <2>2, <2>3, <2>4 DEF PathFits
  <2>6. PathsGrow
    BY <1>0, <2>3, <2>4 DEF PathsGrow
  <2>7. ASSUME NEW p \in Orders
        PROVE  /\ server'[p] \in Nat \cup {Absent, Lost}
               /\ server'[p] \in Nat => Len(path'[p]) = server'[p] + 1
               /\ server'[p] = Absent => path'[p] = <<>>
               /\ \A i \in 1 .. (Len(path'[p]) - 1) : AvailableEvents[path'[p][i]] # <<>>
    <3>1. CASE p = o
      <4>1. server'[p] = 0 /\ Len(path'[p]) = 1
        BY <2>3, <2>4, <3>1
      <4>2. 1 .. (1 - 1) = {}
        OBVIOUS
      <4> QED
        BY <4>1, <4>2 DEF Absent
    <3>2. CASE p # o
      BY <2>3, <3>2 DEF PathFits
    <3> QED
      BY <3>1, <3>2
  <2> QED
    BY <2>5, <2>6, <2>7 DEF PathFits
<1>6. CASE Elsewhere /\ Rendered
  <2>1. path' = path
    BY <1>6 DEF Rendered
  <2>2. CASE Restart
    <3>1. server' = [o \in Orders |-> IF Exists(o) THEN Lost ELSE server[o]]
      BY <2>2 DEF Restart
    <3>2. \A o \in Orders : server'[o] = server[o] \/ server'[o] = Lost
      BY <3>1
    <3> QED
      BY <1>0, <2>1, <3>2, SMTT(30) DEF PathFits, PathsGrow, Lost, Absent
  <2>3. CASE ~Restart
    <3>1. server' = server
      BY <1>6, <2>3 DEF Elsewhere, OpenOrder, BackToOrders, RefreshDashboard,
         RetryAvailableEvents, CreateOrder, ServeRead, Fail, Cancel, ReceiveList,
         ReceiveDetail, ReceiveEvents, ReceiveCreated, ReceiveNotCreated, Settles
    <3> QED
      BY <1>1, <2>1, <3>1
  <2> QED
    BY <2>2, <2>3
<1> QED
  BY <1>2, <1>3, <1>4, <1>5, <1>6 DEF FormNext

(***************************************************************************)
(* The answer of a call is that of an earlier one, or what the API has.    *)
(***************************************************************************)
Tells(q) ==
  \/ \E p \in calls : q.answer = p.answer
  \/ \A o \in Orders : q.answer[o] \in {Absent, server'[o]}

(***************************************************************************)
(* An abort makes up no answer.                                            *)
(***************************************************************************)
LEMMA AbortedTell ==
  ASSUME NEW rs \in SUBSET calls, calls \subseteq Records, NEW cs, NEW q \in Aborted(rs, cs)
  PROVE  Tells(q)
<1>1. \/ q \in rs
      \/ \E r \in rs : q = [r EXCEPT !.aborted = TRUE]
  BY DEF Aborted
<1>2. ASSUME NEW r \in rs, q = [r EXCEPT !.aborted = TRUE] PROVE q.answer = r.answer
  BY <1>2 DEF Records
<1> QED
  BY <1>1, <1>2 DEF Tells

(***************************************************************************)
(* A new call has no answer yet.                                           *)
(***************************************************************************)
LEMMA NewTell ==
  ASSUME NEW kind, NEW o, NEW g, NEW c, NEW refresh, NEW clears
  PROVE  Tells(Call(kind, o, g, c, refresh, clears))
BY DEF Tells, Call

(***************************************************************************)
(* What the API does.                                                      *)
(***************************************************************************)
LEMMA ServedTell ==
  ASSUME calls \subseteq Records, server \in [Orders -> Int], NEW r \in calls,
         ServeRead(r) \/ ServeApply(r) \/ ServeCreate(r) \/ Fail(r),
         NEW q \in calls'
  PROVE  Tells(q)
<1>1. CASE q \in calls
  BY <1>1 DEF Tells
<1>2. CASE Fail(r) /\ q = [r EXCEPT !.status = "failed"]
  BY <1>2 DEF Tells, Records
<1>3. ASSUME NEW status, Answered(r, status) PROVE Tells(q)
  <2>1. CASE q = [r EXCEPT !.status = status,
                  !.answer = [o \in Orders |-> IF r.kind = "list" \/ o = Named(r.order)
                                               THEN server'[o] ELSE Absent]]
    <3>1. q.answer = [o \in Orders |-> IF r.kind = "list" \/ o = Named(r.order)
                                       THEN server'[o] ELSE Absent]
      BY <2>1 DEF Records
    <3> QED
      BY <3>1 DEF Tells
  <2> QED
    BY <1>1, <1>3, <2>1 DEF Answered
<1>4. CASE ServeCreate(r) /\ q \notin calls
  <2>1. PICK o \in Orders, status \in {"answered", "failed"} :
          /\ server[o] = Absent
          /\ server' = [server EXCEPT ![o] = 0]
          /\ calls' = (calls \ {r}) \cup
               {[r EXCEPT !.status = status, !.order = o,
                          !.answer = [p \in Orders |-> IF p = o THEN 0 ELSE Absent]]}
    BY <1>4 DEF ServeCreate
  <2>2. q = [r EXCEPT !.status = status, !.order = o,
                      !.answer = [p \in Orders |-> IF p = o THEN 0 ELSE Absent]]
    BY <1>4, <2>1
  <2>3. q.answer = [p \in Orders |-> IF p = o THEN 0 ELSE Absent]
    BY <2>2 DEF Records
  <2>4. server'[o] = 0
    BY <2>1
  <2> QED
    BY <2>3, <2>4 DEF Tells
<1> QED
  BY <1>1, <1>2, <1>3, <1>4 DEF ServeRead, ServeApply, Fail

(***************************************************************************)
(* What the user does, and what the workspace does with an answer.         *)
(***************************************************************************)
LEMMA PageTells ==
  ASSUME calls \subseteq Records, [Next]_vars \/ Touched, NEW q \in calls',
         ~\E r \in calls : ServeRead(r) \/ ServeApply(r) \/ ServeCreate(r) \/ Fail(r)
  PROVE  Tells(q)
<1>0. CASE q \in calls
  BY <1>0 DEF Tells
<1>1. ASSUME NEW o, NEW refresh, LoadWorkspaceOrder(o, refresh) PROVE Tells(q)
  <2>1. \/ q \in Aborted(calls, BothControllers)
        \/ q \in {Call("detail", o, generation + 1, gestures + 1, refresh, FALSE),
                  Call("events", o, generation + 1, gestures + 1, refresh, FALSE),
                  Call("list", NoOrder, 0, gestures + 1, TRUE, FALSE)}
    BY <1>1 DEF LoadWorkspaceOrder, Detail, Events, List
  <2> QED
    BY <2>1, AbortedTell, NewTell
<1>2. CASE \/ \E id \in Spellings : OpenOrder(id)
           \/ RefreshDashboard /\ selected # NoOrder
  BY <1>1, <1>2 DEF OpenOrder, RefreshDashboard
<1>3. CASE RefreshDashboard /\ selected = NoOrder
  <2>1. q \in calls \/ q = Call("list", NoOrder, 0, gestures + 1, TRUE, FALSE)
    BY <1>3 DEF RefreshDashboard, List
  <2> QED
    BY <1>0, <2>1, NewTell
<1>4. CASE BackToOrders
  BY <1>4, AbortedTell DEF BackToOrders
<1>5. CASE RetryAvailableEvents
  BY <1>5, AbortedTell, NewTell DEF RetryAvailableEvents, StartAvailableEventsLoad, Events
<1>6. CASE ApplyEvent \/ CreateOrder
  <2>1. \/ q \in calls
        \/ q = Call("apply", detail.order, generation, gestures + 1, FALSE, FALSE)
        \/ q = Call("create", NoOrder, generation, gestures + 1, FALSE, FALSE)
    BY <1>6 DEF ApplyEvent, CreateOrder
  <2> QED
    BY <1>0, <2>1, NewTell
<1>7. CASE \/ UNCHANGED vars \/ Touched \/ Restart \/ Rest
           \/ \E o \in Orders : Foreign(o)
  BY <1>0, <1>7 DEF vars, Touched, Restart, Rest, Foreign
<1>8. ASSUME NEW r \in calls, Deliver(r) PROVE Tells(q)
  <2>0. calls \ {r} \subseteq calls
    OBVIOUS
  <2>1. CASE Cancel(r) \/ ReceiveList(r) \/ ReceiveEvents(r) \/ ReceiveNotCreated(r)
    BY <1>0, <2>1 DEF Cancel, ReceiveList, ReceiveEvents, ReceiveNotCreated
  <2>2. CASE ReceiveDetail(r)
    <3>1. \/ q \in calls
          \/ q = Call("list", r.order, r.generation, r.controller, r.refresh, TRUE)
      BY <2>2 DEF ReceiveDetail
    <3> QED
      BY <1>0, <3>1, NewTell
  <2>3. CASE ReceiveApplied(r)
    <3>1. \/ q \in calls
          \/ q \in Aborted(calls \ {r}, {controllers.events})
          \/ q = Call("events", r.order, r.generation, r.controller, FALSE, FALSE)
      BY <2>3 DEF ReceiveApplied, Events
    <3> QED
      BY <1>0, <2>0, <3>1, AbortedTell, NewTell
  <2>4. CASE ReceiveNotApplied(r)
    <3>1. \/ q \in calls
          \/ q \in Aborted(calls \ {r}, BothControllers)
          \/ q = Call("list", NoOrder, 0, r.controller, FALSE, FALSE)
      BY <2>4 DEF ReceiveNotApplied, List
    <3> QED
      BY <1>0, <2>0, <3>1, AbortedTell, NewTell
  <2>5. CASE ReceiveCreated(r)
    <3>1. \/ q \in calls
          \/ q \in Aborted(calls \ {r}, BothControllers)
          \/ q = Call("events", r.order, generation + 1, r.controller, FALSE, FALSE)
      BY <2>5 DEF ReceiveCreated, Events
    <3> QED
      BY <1>0, <2>0, <3>1, AbortedTell, NewTell
  <2> QED
    BY <1>8, <2>1, <2>2, <2>3, <2>4, <2>5 DEF Deliver
<1> QED
  BY <1>2, <1>3, <1>4, <1>5, <1>6, <1>7, <1>8 DEF Next

(***************************************************************************)
(* So no answer is of a version that is still to come.                     *)
(***************************************************************************)
LEMMA StepAnswersFit ==
  ASSUME FormInv, AnswersFit, PathFits', PathsGrow, [Next]_vars \/ Touched
  PROVE  AnswersFit'
<1>0. /\ calls \subseteq Records /\ server \in [Orders -> Int]
      /\ \A o \in Orders : Len(path[o]) \in Nat /\ Len(path'[o]) \in Nat
  BY DEF FormInv, IndInv, Placed, WellFormed, PathsGrow, PathFits
<1>1. ASSUME NEW o \in Orders PROVE Absent < Len(path'[o]) /\ server'[o] < Len(path'[o])
  <2>1. server'[o] \in Nat => Len(path'[o]) = server'[o] + 1
    BY DEF PathFits
  <2>2. server'[o] \in Nat \cup {Absent, Lost}
    BY DEF PathFits
  <2> QED
    BY <1>0, <2>1, <2>2 DEF Absent, Lost
<1>2. ASSUME NEW q \in calls', NEW o \in Orders PROVE q.answer[o] < Len(path'[o])
  <2>1. Tells(q)
    BY <1>0, ServedTell, PageTells
  <2>2. ASSUME NEW p \in calls, q.answer = p.answer PROVE q.answer[o] < Len(path'[o])
    <3>1. p.answer[o] \in Int /\ p.answer[o] < Len(path[o])
      BY <1>0 DEF AnswersFit, Records
    <3>2. Len(path'[o]) >= Len(path[o])
      BY DEF PathsGrow
    <3> QED
      BY <1>0, <2>2, <3>1, <3>2
  <2> QED
    BY <1>1, <2>1, <2>2 DEF Tells
<1> QED
  BY <1>2 DEF AnswersFit

(***************************************************************************)
(* The events of a selection are loading, failed or there: every step that *)
(* selects an order starts their load, and one that stops their spinner    *)
(* shows them or their error.  (loadAvailableEvents.)                      *)
(***************************************************************************)
LEMMA StepShowsEvents ==
  ASSUME loading \in Flags, EventsShown, [Next]_vars \/ Touched,
         calls \subseteq Records
  PROVE  loading' \in Flags /\ EventsShown'
<1> USE DEF EventsShown, Flags
<1>1. ASSUME UNCHANGED <<loading, selected, events, eventsError>>
      PROVE  loading' \in Flags /\ EventsShown'
  BY <1>1
<1>2. CASE \/ \E id \in Spellings : OpenOrder(id)
           \/ RefreshDashboard /\ selected # NoOrder
  BY <1>2 DEF OpenOrder, RefreshDashboard, LoadWorkspaceOrder
<1>3. ASSUME LeaveOrder
      PROVE  loading' \in Flags /\ EventsShown'
  <2>1. loading.create \in BOOLEAN
    OBVIOUS
  <2>2. loading' = [detail |-> FALSE, events |-> FALSE, event |-> FALSE,
                    create |-> loading.create]
    BY <1>3 DEF LeaveOrder, Idle
  <2>3. loading' \in Flags
    BY <2>1, <2>2
  <2> QED
    BY <1>3, <2>3 DEF LeaveOrder
<1>4. CASE BackToOrders
  BY <1>3, <1>4 DEF BackToOrders
<1>5. CASE RetryAvailableEvents \/ ApplyEvent \/ CreateOrder
  BY <1>5 DEF RetryAvailableEvents, ApplyEvent, CreateOrder
<1>6. CASE \/ RefreshDashboard /\ selected = NoOrder
           \/ UNCHANGED vars \/ Touched \/ Restart \/ Rest
           \/ \E o \in Orders : Foreign(o)
  BY <1>1, <1>6 DEF RefreshDashboard, vars, view, Touched, Restart, Rest, Foreign
<1>7. ASSUME NEW r \in calls, Deliver(r)
      PROVE  loading' \in Flags /\ EventsShown'
  <2>1. CASE ServeRead(r) \/ ServeApply(r) \/ ServeCreate(r) \/ Fail(r) \/ Cancel(r)
    BY <1>1, <2>1 DEF ServeRead, ServeApply, ServeCreate, Fail, Cancel, view
  <2>2. CASE ReceiveList(r) \/ ReceiveDetail(r)
    <3>1. UNCHANGED <<selected, events, eventsError>>
      BY <2>2 DEF ReceiveList, ReceiveDetail
    <3>2. loading' = loading \/ loading' = [loading EXCEPT !.detail = FALSE]
      BY <2>2 DEF ReceiveList, ReceiveDetail, StopSpinner
    <3> QED
      BY <3>1, <3>2
  <2>3. CASE ReceiveEvents(r)
    <3>1. CASE IsCurrent(r) /\ IsFound(r)
      <4>1. Answer(r) # Nothing
        BY <3>1 DEF IsFound, Nothing, Absent, Answer
      <4>2. events' = Answer(r) /\ selected' = selected
        BY <2>3, <3>1 DEF ReceiveEvents
      <4>3. loading' \in Flags
        BY <2>3 DEF ReceiveEvents, StopSpinner
      <4> QED
        BY <4>1, <4>2, <4>3
    <3>2. CASE ~(IsCurrent(r) /\ IsFound(r)) /\ IsCurrent(r) /\ ~r.aborted
      BY <2>3, <3>2 DEF ReceiveEvents, StopSpinner
    <3>3. CASE ~(IsCurrent(r) /\ IsFound(r)) /\ ~(IsCurrent(r) /\ ~r.aborted)
      BY <1>1, <2>3, <3>3 DEF ReceiveEvents, StopSpinner
    <3> QED
      BY <3>1, <3>2, <3>3
  <2>4. CASE ReceiveApplied(r)
    BY <2>4 DEF ReceiveApplied
  <2>5. CASE ReceiveNotApplied(r)
    BY <1>3, <2>5 DEF ReceiveNotApplied
  <2>6. CASE ReceiveCreated(r) \/ ReceiveNotCreated(r)
    BY <2>6 DEF ReceiveCreated, ReceiveNotCreated
  <2> QED
    BY <1>7, <2>1, <2>2, <2>3, <2>4, <2>5, <2>6 DEF Deliver
<1> QED
  BY <1>2, <1>4, <1>5, <1>6, <1>7 DEF Next

(***************************************************************************)
(* The events shown are of a version their order reached.                  *)
(***************************************************************************)
LEMMA StepReachesEvents ==
  ASSUME FormInv, AnswersFit, EventsReached, PathsGrow, [Next]_vars \/ Touched
  PROVE  EventsReached'
<1>0. calls \subseteq Records
  BY DEF FormInv, IndInv, Placed, WellFormed
<1>1. ASSUME events' = events PROVE EventsReached'
  <2> SUFFICES ASSUME events # Nothing PROVE EventsReached'
    BY <1>1 DEF EventsReached
  <2>1. /\ events.order \in Orders /\ events.version \in Nat
        /\ events.version < Len(path[events.order])
    BY DEF EventsReached
  <2>2. /\ Len(path[events.order]) \in Nat /\ Len(path'[events.order]) \in Nat
        /\ Len(path'[events.order]) >= Len(path[events.order])
    BY <2>1 DEF PathsGrow
  <2> QED
    BY <1>1, <2>1, <2>2 DEF EventsReached
<1>2. CASE events' = Nothing
  BY <1>2 DEF EventsReached
<1>3. ASSUME NEW r \in calls, ReceiveEvents(r) PROVE EventsReached'
  <2>1. CASE events' = Answer(r) /\ IsCurrent(r) /\ IsFound(r)
    <3>1. r.order \in Spellings
      BY <1>3 DEF FormInv, CallsCarry, IsAddressed, ReceiveEvents, Settles
    <3>2. Named(r.order) \in Orders
      BY <3>1, WorkspaceAssumption DEF Named
    <3>3. /\ Answer(r).order = Named(r.order)
          /\ Answer(r).version = r.answer[Named(r.order)]
      BY DEF Answer
    <3>4. r.answer[Named(r.order)] \in Int /\ r.answer[Named(r.order)] >= 0
      BY <1>0, <2>1, <3>2, <3>3 DEF Records, IsFound
    <3>5. r.answer[Named(r.order)] < Len(path[Named(r.order)])
      BY <3>2 DEF AnswersFit
    <3>6. /\ Len(path[Named(r.order)]) \in Nat /\ Len(path'[Named(r.order)]) \in Nat
          /\ Len(path'[Named(r.order)]) >= Len(path[Named(r.order)])
      BY <3>2 DEF PathsGrow
    <3>7. r.answer[Named(r.order)] \in Nat /\ r.answer[Named(r.order)] < Len(path'[Named(r.order)])
      BY <3>4, <3>5, <3>6
    <3> QED
      BY <2>1, <3>2, <3>3, <3>7 DEF EventsReached
  <2> QED
    BY <1>1, <1>2, <1>3, <2>1 DEF ReceiveEvents
<1>4. CASE ~\E r \in calls : ReceiveEvents(r)
  <2>1. events' = events \/ events' = Nothing
    BY <1>4 DEF Next, Deliver, OpenOrder, BackToOrders, LeaveOrder, RefreshDashboard, view,
       RetryAvailableEvents, ApplyEvent, CreateOrder, vars, Touched, Restart, Rest, Foreign,
       ServeRead, ServeApply, ServeCreate, Fail, Cancel, ReceiveList, ReceiveDetail,
       ReceiveApplied, ReceiveNotApplied, ReceiveCreated, ReceiveNotCreated
  <2> QED
    BY <1>1, <1>2, <2>1
<1> QED
  BY <1>3, <1>4

(***************************************************************************)
(* Where the end is told of, the events are those of the order shown, of a *)
(* state that none leaves, and no order that went on was ever in one.      *)
(***************************************************************************)
LEMMA ToldEndIsReal ==
  ASSUME FormInv, EndInv
  PROVE  EndIsReal
<1> SUFFICES ASSUME SaysEnd PROVE Last(path[detail.order]) \in EndStates
  BY DEF EndIsReal
<1>1. detail # Nothing /\ selected # NoOrder /\ detail.order = Named(selected)
  BY DEF SaysEnd, FormInv, DetailIsSelected
<1>2. events # Nothing
  BY <1>1 DEF SaysEnd, EndInv, EventsShown
<1> DEFINE o == events.order
           n == events.version + 1
<1>3. /\ o \in Orders /\ events.version \in Nat
      /\ events.version < Len(path[o])
  BY <1>2 DEF EndInv, EventsReached
<1>4. detail.order = o
  <2>1. o # NoOrder
    BY <1>3, WorkspaceAssumption
  <2> QED
    BY <1>1, <2>1 DEF FormInv, IndInv, ShowsSelected
<1>5. path[o] \in Seq(Lifecycle!States) /\ Len(path[o]) \in Nat
  BY <1>3 DEF EndInv, PathFits
<1>6. AvailableEvents[path[o][n]] = <<>>
  BY <1>2 DEF SaysEnd, Offered, StateAt
<1>7. \A i \in 1 .. (Len(path[o]) - 1) : AvailableEvents[path[o][i]] # <<>>
  BY <1>3 DEF EndInv, PathFits
<1>8. n = Len(path[o])
  <2>1. n \in 1 .. Len(path[o]) /\ n \notin 1 .. (Len(path[o]) - 1)
    BY <1>3, <1>5, <1>6, <1>7
  <2> QED
    BY <1>5, <2>1
<1>9. path[o][n] \in EndStates
  BY <1>3, <1>5, <1>6, <1>8, NoEventsAtTheEnd
<1> QED
  BY <1>4, <1>8, <1>9 DEF Last

(***************************************************************************)
(* Where what is shown is of one version, the form lists the events of the *)
(* state that leave an order open before those that end it: the first one  *)
(* ends it only if all do.  (orderAvailableEventsForDisplay)               *)
(***************************************************************************)
LEMMA EndComesLast ==
  ASSUME FormInv, EndInv, IsShown, hasDefinition, detail.version = events.version,
         EndsOrder(StateAt(detail), SelectedEventValue), form.event # SelectedEventValue
  PROVE  \A event \in ToSet(Offered) : EndsOrder(StateAt(detail), event)
<1> DEFINE state == path[events.order][events.version + 1]
           ends  == {event \in ToSet(Offered) : EndsOrder(state, event)}
           first == Lifecycle!Among(Offered, ToSet(Offered) \ ends)
           last  == Lifecycle!Among(Offered, ends)
<1>1. /\ detail # Nothing /\ events # Nothing
      /\ detail.order = Named(selected) /\ selected # NoOrder
  BY DEF IsShown, Offered, FormInv, DetailIsSelected
<1>2. /\ events.order \in Orders /\ events.version \in Nat
      /\ events.version < Len(path[events.order])
  BY <1>1 DEF EndInv, EventsReached
<1>3. detail.order = events.order
  <2>1. events.order # NoOrder
    BY <1>2, WorkspaceAssumption
  <2> QED
    BY <1>1, <2>1 DEF FormInv, IndInv, ShowsSelected
<1>4. StateAt(detail) = state /\ StateAt(events) = state
  BY <1>3 DEF StateAt
<1>5. state \in Lifecycle!States
  <2>1. path[events.order] \in Seq(Lifecycle!States)
    BY <1>2 DEF EndInv, PathFits
  <2> QED
    BY <1>2, <2>1
<1>6. /\ Offered = AvailableEvents[state]
      /\ AvailableEvents[state] = Lifecycle!AvailableEventList(state)
  BY <1>1, <1>4, <1>5 DEF Offered, AvailableEvents
<1>7. /\ Offered \in Seq(Lifecycle!Events)
      /\ ToSet(Offered) = Lifecycle!AvailableEvents(state)
  BY <1>5, <1>6, ListIsComplete
<1>8. \A event \in ToSet(Offered) : Targets[state][event] # {}
  BY <1>5, <1>7, DefinitionKnows
<1>9. DisplayEvents = first \o last
  BY <1>1, <1>4, <1>8 DEF DisplayEvents, OrderAvailableEventsForDisplay
<1>10. /\ first \in Seq(Lifecycle!Events) /\ ToSet(first) = ToSet(Offered) \ ends
       /\ last \in Seq(Lifecycle!Events)
  BY <1>7, KeptAreAmong
<1>11. SelectedEventValue = DisplayEvents[1]
  BY DEF SelectedEventValue
<1>12. CASE first = <<>>
  <2>1. ToSet(first) = {}
    BY <1>12 DEF ToSet
  <2>2. ToSet(Offered) \ ends = {}
    BY <1>10, <2>1
  <2>3. \A event \in ToSet(Offered) : EndsOrder(state, event)
    BY <2>2
  <2> QED
    BY <1>4, <2>3
<1>13. CASE first # <<>>
  <2> HIDE DEF first, last, ends
  <2>1. 1 \in DOMAIN first /\ (first \o last)[1] = first[1]
    BY <1>10, <1>13
  <2>2. SelectedEventValue \in ToSet(first)
    BY <1>9, <1>11, <2>1 DEF ToSet
  <2>3. SelectedEventValue \in ToSet(Offered) /\ SelectedEventValue \notin ends
    BY <1>10, <2>2
  <2>4. ~EndsOrder(state, SelectedEventValue)
    BY <2>3 DEF ends
  <2> QED
    BY <1>4, <2>4
<1> QED
  BY <1>12, <1>13

(***************************************************************************)
(* Every order has a state for each version the page may hold of it, and   *)
(* the events shown are of one it reached, in every behaviour.             *)
(***************************************************************************)
THEOREM EndInvariance == FormSpec => []EndInv
<1>1. FormInit => EndInv
  <2> SUFFICES ASSUME FormInit PROVE EndInv
    OBVIOUS
  <2>1. path = [o \in Orders |-> IF o \in Stored THEN <<StoredState>> ELSE <<>>]
    BY DEF FormInit
  <2>2. server = [o \in Orders |-> IF o \in Stored THEN 0 ELSE Absent]
    BY DEF FormInit, Init
  <2>3. /\ <<StoredState>> \in Seq(Lifecycle!States) /\ Len(<<StoredState>>) = 1
        /\ <<>> \in Seq(Lifecycle!States) /\ Len(<<>>) = 0
    BY FormAssumption
  <2>4. PathFits
    <3>1. path \in [Orders -> Seq(Lifecycle!States)]
      BY <2>1, <2>3
    <3>2. ASSUME NEW o \in Orders
          PROVE  /\ server[o] \in Nat \cup {Absent, Lost}
                 /\ server[o] \in Nat => Len(path[o]) = server[o] + 1
                 /\ server[o] = Absent => path[o] = <<>>
                 /\ Len(path[o]) \in {0, 1}
      BY <2>1, <2>2, <2>3 DEF Absent
    <3>3. 1 .. (0 - 1) = {} /\ 1 .. (1 - 1) = {}
      OBVIOUS
    <3>4. \A o \in Orders : 1 .. (Len(path[o]) - 1) = {}
      BY <3>2, <3>3
    <3> QED
      BY <3>1, <3>2, <3>4 DEF PathFits
  <2>5. AnswersFit
    <3>1. calls = {List(0, FALSE)}
      BY DEF FormInit, Init
    <3>2. \A r \in calls, o \in Orders : r.answer[o] = Absent
      BY <3>1 DEF List, Call
    <3>3. \A o \in Orders : Len(path[o]) \in {0, 1}
      BY <2>1, <2>3
    <3>4. Absent < 0 /\ Absent < 1
      BY DEF Absent
    <3>5. \A o \in Orders : Absent < Len(path[o])
      BY <3>3, <3>4
    <3> QED
      BY <3>2, <3>5 DEF AnswersFit
  <2>6. loading \in Flags
    <3>1. loading = Idle
      BY DEF FormInit, Init
    <3>2. Idle \in Flags
      BY DEF Idle, Flags
    <3> QED
      BY <3>1, <3>2
  <2>7. EventsShown /\ EventsReached
    BY DEF FormInit, Init, EventsShown, EventsReached
  <2> QED
    BY <2>4, <2>5, <2>6, <2>7 DEF EndInv
<1>2. FormInv /\ EndInv /\ [FormNext]_<<vars, formVars>> => EndInv'
  <2> SUFFICES ASSUME FormInv, EndInv, [FormNext]_<<vars, formVars>> PROVE EndInv'
    OBVIOUS
  <2>1. [Next]_vars \/ Touched
    BY FormSteps DEF vars
  <2>2. PathFits' /\ PathsGrow
    BY StepPaths DEF EndInv
  <2>3. AnswersFit'
    BY <2>1, <2>2, StepAnswersFit DEF EndInv
  <2>4. calls \subseteq Records
    BY DEF FormInv, IndInv, Placed, WellFormed
  <2>5. loading' \in Flags /\ EventsShown'
    BY <2>1, <2>4, StepShowsEvents DEF EndInv
  <2>6. EventsReached'
    BY <2>1, <2>2, StepReachesEvents DEF EndInv
  <2> QED
    BY <2>2, <2>3, <2>5, <2>6 DEF EndInv
<1> QED
  BY <1>1, <1>2, FormInvariance, PTL DEF FormSpec

(***************************************************************************)
(* The page says that an order has ended only of one that has: never while *)
(* its events are loaded, when they could not be, or when those of an      *)
(* older state or another order arrive late, for any orders, events and    *)
(* paths.  (EventForm.tsx 128; useOrderWorkspace.ts 126)                   *)
(***************************************************************************)
THEOREM ToldEndsAreReal == FormSpec => []EndIsReal
<1>1. FormInv /\ EndInv => EndIsReal
  BY ToldEndIsReal
<1> QED
  BY <1>1, FormInvariance, EndInvariance, PTL

(***************************************************************************)
(* A user who only presses the button ends no order that could go on, for  *)
(* any orders, paths and answers: the order in which the API lists the     *)
(* events never selects an end.  (orderAvailableEventsForDisplay,          *)
(* availableEventPresentation.ts; EventForm.tsx)                           *)
(***************************************************************************)
THEOREM EndsAreChosen == FormSpec => []EndsOnlyByChoice
<1>1. FormInv /\ EndInv => EndsOnlyByChoice
  BY EndComesLast DEF EndsOnlyByChoice
<1> QED
  BY <1>1, FormInvariance, EndInvariance, PTL

-----------------------------------------------------------------------------
(* The page around the workspace *)

\* Ids are typed as the API writes them.  Of others the property does not hold:
\* see AppliedIsShown.
IdsAreCanonical == \A id \in Spellings : Canonical[id] = id

-----------------------------------------------------------------------------
(* The spinners: the inductive invariant *)

\* The spinner that stands for a call while its selection lasts.
Spinners == {"detail", "events", "event"}

Spinner(r) ==
  IF r.kind = "detail" \/ r.clears THEN "detail"
  ELSE IF r.kind = "events" THEN "events"
  ELSE IF r.kind = "apply" THEN "event"
  ELSE "none"

IsOwn(r) == IsCurrent(r) /\ ~r.aborted

OwnCalls(s) == {r \in calls : IsOwn(r) /\ Spinner(r) = s}

Creations == {r \in calls : r.kind = "create"}

\* A spinner stands for one call.
SpinsFor(flag, rs) == (rs # {} => flag) /\ \A p, q \in rs : p = q

\* A spinner turns for something.  That of an applied event may not, where the
\* answer names the order otherwise than it was opened: see AppliedIsShown.
IsKept(s) == loading[s] => OwnCalls(s) # {} \/ (s = "event" /\ Named(selected) # selected)

SpinnersFit ==
  /\ \A s \in Spinners : SpinsFor(loading[s], OwnCalls(s)) /\ IsKept(s)
  /\ SpinsFor(loading.create, Creations)
  /\ loading.create => Creations # {}

\* What a call is about.  No signal reaches the call that applies an event.
IsSound(r) ==
  /\ r.clears => r.kind = "list"
  /\ Spinner(r) # "none" => r.order \in Spellings
  /\ r.kind = "create" /\ r.status = "answered" => r.order \in Spellings
  /\ r.kind = "apply" => ~r.aborted
  /\ r.controller <= gestures

\* The loads an applied event starts share its controller; that of the detail
\* is another, so that whoever aborts the events leaves the detail alone.
CallsFit ==
  /\ \A r \in calls : IsSound(r)
  /\ \A r, p \in calls :
       Spinner(r) = "detail" /\ p.kind = "apply" => p.controller # r.controller

DetailIsSpared == \A r \in OwnCalls("detail") : r.controller # controllers.events

\* An event is applied only where its events were loaded.
FlagsFit ==
  /\ loading \in Flags /\ eventsError \in BOOLEAN
  /\ controllers \in [workspace : Nat, events : Nat]
  /\ eventsError => ~loading.events
  /\ loading.event => ~loading.events /\ ~eventsError

SpinnerInv ==
  /\ IndInv /\ FlagsFit /\ DetailIsSelected
  /\ CallsFit /\ DetailIsSpared /\ SpinnersFit

-----------------------------------------------------------------------------
(* What aborting does to the calls *)

Hears(r, cs) == r.controller \in cs \ {0} /\ (HasSignal(r) \/ r.clears)

IsLike(q, r) ==
  /\ q.kind = r.kind /\ q.order = r.order /\ q.generation = r.generation
  /\ q.controller = r.controller /\ q.clears = r.clears /\ q.status = r.status

(***************************************************************************)
(* A call that does not hear the abort stays as it is; what is left of one *)
(* that does is aborted.  (AbortController.abort)                          *)
(***************************************************************************)
LEMMA AbortedParts ==
  ASSUME NEW rs \in SUBSET Records, NEW cs
  PROVE  /\ \A q \in Aborted(rs, cs) :
              \/ q \in rs /\ ~Hears(q, cs)
              \/ q.aborted /\ \E r \in rs : Hears(r, cs) /\ IsLike(q, r)
         /\ \A r \in rs : ~Hears(r, cs) => r \in Aborted(rs, cs)
         /\ \A r \in rs : r.kind = "list" => \E q \in Aborted(rs, cs) : q.kind = "list"
<1>1. ASSUME NEW r \in rs
      PROVE  LET a == [r EXCEPT !.aborted = TRUE] IN a.aborted /\ IsLike(a, r)
  BY DEF Records, IsLike
<1>2. ASSUME NEW q \in Aborted(rs, cs)
      PROVE  \/ q \in rs /\ ~Hears(q, cs)
             \/ q.aborted /\ \E r \in rs : Hears(r, cs) /\ IsLike(q, r)
  BY <1>1, <1>2 DEF Aborted, Hears
<1>3. ASSUME NEW r \in rs, ~Hears(r, cs)
      PROVE  r \in Aborted(rs, cs)
  BY <1>3 DEF Aborted, Hears
<1>4. ASSUME NEW r \in rs, r.kind = "list"
      PROVE  \E q \in Aborted(rs, cs) : q.kind = "list"
  <2>1. CASE Hears(r, cs)
    <3>1. [r EXCEPT !.aborted = TRUE] \in Aborted(rs, cs)
      BY <1>4, <2>1 DEF Aborted, Hears, HasSignal
    <3> QED
      BY <1>1, <1>4, <3>1 DEF IsLike
  <2> QED
    BY <1>3, <1>4, <2>1
<1> QED
  BY <1>2, <1>3, <1>4

(***************************************************************************)
(* Without a controller to abort, all calls stay as they are.              *)
(***************************************************************************)
LEMMA NothingAborted ==
  ASSUME NEW rs
  PROVE  Aborted(rs, {}) = rs
BY DEF Aborted

-----------------------------------------------------------------------------
(* What a step makes of the calls: those of rs stay, unless they hear an   *)
(* abort, and the new ones come.                                           *)

Turns(rs, cs, made) == rs \in SUBSET calls /\ calls' = Aborted(rs, cs) \cup made

IsMade(q) ==
  /\ IsSound(q)'
  /\ q.kind = "apply" => q.controller > gestures
  /\ Spinner(q) = "detail" =>
       \/ q.controller > gestures
       \/ \E r \in calls : Spinner(r) = "detail" /\ q.controller = r.controller

(***************************************************************************)
(* Calls stay what they are about, and the controllers of applied events   *)
(* apart from those of the details, if that is so of the new calls.        *)
(***************************************************************************)
LEMMA CallsStayFit ==
  ASSUME SpinnerInv, NEW rs, NEW cs, NEW made,
         Turns(rs, cs, made), gestures' \in {gestures, gestures + 1},
         \A q \in made : IsMade(q),
         \A p, q \in made : Spinner(p) = "detail" => q.kind # "apply"
  PROVE  CallsFit'
<1>0. /\ calls \subseteq Records /\ gestures \in Nat
      /\ rs \subseteq Records /\ rs \subseteq calls
      /\ \A r \in calls : IsSound(r)
  BY DEF SpinnerInv, CallsFit, IndInv, Placed, WellFormed, Turns
<1>1. ASSUME NEW q \in Aborted(rs, cs)
      PROVE  IsSound(q)' /\ \E r \in rs : Spinner(q) = Spinner(r) /\ IsLike(q, r)
  <2>1. CASE q \in rs
    BY <1>0, <2>1 DEF IsSound, Records, IsLike
  <2>2. CASE q \notin rs
    <3>1. PICK r \in rs : Hears(r, cs) /\ IsLike(q, r)
      BY <1>0, <1>1, <2>2, AbortedParts
    <3> QED
      BY <1>0, <3>1 DEF IsSound, Records, IsLike, Hears, HasSignal, Spinner
  <2> QED
    BY <2>1, <2>2
<1>2. ASSUME NEW q \in calls', NEW p \in calls', Spinner(q) = "detail", p.kind = "apply"
      PROVE  p.controller # q.controller
  <2>0. calls' = Aborted(rs, cs) \cup made /\ rs \subseteq calls
    BY DEF Turns
  <2>1. \/ \E r \in calls : Spinner(r) = "detail" /\ q.controller = r.controller
        \/ q \in made /\ q.controller > gestures
    BY <1>1, <1>2, <2>0 DEF IsMade, IsLike
  <2>2. \/ \E r \in calls : r.kind = "apply" /\ p.controller = r.controller
        \/ p \in made /\ p.controller > gestures
    BY <1>1, <1>2, <2>0 DEF IsMade, IsLike
  <2>3. \A r \in calls : r.controller \in Nat /\ r.controller <= gestures
    BY <1>0 DEF Records, IsSound
  <2> QED
    BY <1>0, <1>2, <2>1, <2>2, <2>3 DEF SpinnerInv, CallsFit
<1> QED
  BY <1>1, <1>2 DEF CallsFit, IsMade, Turns

(***************************************************************************)
(* The calls of a selection that lasts, and those of a new one.            *)
(***************************************************************************)
LEMMA OwnCallsOfSame ==
  ASSUME SpinnerInv, NEW rs, NEW cs, NEW made,
         Turns(rs, cs, made),
         generation' = generation, selected' = selected, NEW s
  PROVE  OwnCalls(s)' = {r \in OwnCalls(s) : r \in rs /\ ~Hears(r, cs)}
                          \cup {q \in made : IsOwn(q) /\ Spinner(q) = s}
<1>1. rs \subseteq Records
  BY DEF SpinnerInv, IndInv, Placed, WellFormed, Turns
<1>2. \A q : IsOwn(q)' <=> IsOwn(q)
  BY DEF IsOwn, IsCurrent
<1>3. \A q : IsOwn(q) => ~q.aborted
  BY DEF IsOwn
<1> QED
  BY <1>1, <1>2, <1>3, AbortedParts DEF OwnCalls, Turns

(***************************************************************************)
(* In a new selection the calls a spinner stands for are among those just  *)
(* made.                                                                   *)
(***************************************************************************)
LEMMA OwnCallsOfNew ==
  ASSUME SpinnerInv, NEW rs, NEW cs, NEW made,
         Turns(rs, cs, made),
         generation' = generation + 1, NEW s
  PROVE  OwnCalls(s)' = {q \in made : IsOwn(q)' /\ Spinner(q) = s}
<1>1. /\ rs \subseteq Records /\ generation \in Nat
      /\ \A r \in rs : r.generation \in Nat /\ r.generation <= generation
  BY DEF SpinnerInv, IndInv, Placed, WellFormed, IsInPlace, Records, Turns
<1>2. ASSUME NEW q \in Aborted(rs, cs) PROVE q.generation \in Nat /\ q.generation <= generation
  BY <1>1, <1>2, AbortedParts DEF IsLike
<1>3. \A q : IsOwn(q)' => q.generation = generation + 1
  BY DEF IsOwn, IsCurrent
<1> QED
  BY <1>1, <1>2, <1>3 DEF OwnCalls, Turns

(***************************************************************************)
(* No signal reaches the call that creates an order.                       *)
(***************************************************************************)
LEMMA CreationsStay ==
  ASSUME SpinnerInv, NEW rs, NEW cs, NEW made,
         Turns(rs, cs, made)
  PROVE  Creations' = {r \in Creations : r \in rs} \cup {q \in made : q.kind = "create"}
<1>1. rs \subseteq Records /\ \A r \in rs : r.kind = "create" => ~Hears(r, cs)
  BY DEF SpinnerInv, CallsFit, IndInv, Placed, WellFormed, IsSound, Hears, HasSignal,
         Turns
<1>2. ASSUME NEW q \in Aborted(rs, cs), q.kind = "create" PROVE q \in rs
  BY <1>1, <1>2, AbortedParts DEF IsLike
<1> QED
  BY <1>1, <1>2, AbortedParts DEF Creations, Turns

-----------------------------------------------------------------------------
(* What the user does *)

(***************************************************************************)
(* A list that no missing order made necessary stands for no spinner.      *)
(***************************************************************************)
LEMMA ListIsMade ==
  ASSUME SpinnerInv, NEW c \in Nat, NEW refresh, c <= gestures'
  PROVE  /\ IsMade(List(c, refresh)) /\ Spinner(List(c, refresh)) = "none"
         /\ List(c, refresh).kind = "list"
BY DEF List, Call, IsMade, IsSound, Spinner

(***************************************************************************)
(* A load starts a detail and its events and takes their spinners over.    *)
(* (loadWorkspaceOrder)                                                    *)
(***************************************************************************)
LEMMA LoadTurnsSpinners ==
  ASSUME SpinnerInv, NEW o \in Spellings, NEW refresh \in BOOLEAN,
         LoadWorkspaceOrder(o, refresh), gestures' = gestures + 1, selected' = o
  PROVE  CallsFit' /\ DetailIsSpared' /\ SpinnersFit' /\ FlagsFit'
<1> PICK c, g : c = gestures + 1 /\ g = generation + 1
  OBVIOUS
<1> DEFINE d == Detail(o, g, c, refresh)
           e == Events(o, g, c, refresh)
           l == List(c, TRUE)
<1>0. /\ gestures \in Nat /\ generation \in Nat
      /\ loading \in Flags
  BY DEF SpinnerInv, FlagsFit, IndInv, Placed, WellFormed
<1>1. PICK made : /\ calls' = Aborted(calls, BothControllers) \cup made
                  /\ {d, e} \subseteq made /\ made \subseteq {d, e, l}
  <2> DEFINE made == {d, e} \cup IF refresh THEN {l} ELSE {}
  <2>1. calls' = Aborted(calls, BothControllers) \cup made
    BY DEF LoadWorkspaceOrder
  <2>2. {d, e} \subseteq made /\ made \subseteq {d, e, l}
    OBVIOUS
  <2> QED
    BY <2>1, <2>2
<1>2. /\ d.kind = "detail" /\ d.order = o /\ d.generation = g /\ d.controller = c
      /\ e.kind = "events" /\ e.order = o /\ e.generation = g /\ e.controller = c
      /\ ~d.clears /\ ~e.clears /\ ~d.aborted /\ ~e.aborted
      /\ d.status = "pending" /\ e.status = "pending"
  BY DEF Detail, Events, Call
<1>3. Spinner(d) = "detail" /\ Spinner(e) = "events"
  BY <1>2 DEF Spinner
<1>4. IsMade(l) /\ Spinner(l) = "none" /\ l.kind = "list"
  <2>1. c \in Nat /\ c <= gestures'
    BY <1>0
  <2> QED
    BY <2>1, ListIsMade
<1>5. IsMade(d) /\ IsMade(e)
  BY <1>0, <1>2, <1>3 DEF IsMade, IsSound
<1>6. PICK all, both : all = calls /\ both = BothControllers /\ Turns(all, both, made)
  BY <1>1 DEF Turns
<1>7. generation' = g /\ controllers' = [workspace |-> c, events |-> 0]
      /\ loading' = [loading EXCEPT !.detail = TRUE, !.events = TRUE, !.event = FALSE]
      /\ eventsError' = FALSE
  BY DEF LoadWorkspaceOrder
<1>8. IsOwn(d)' /\ IsOwn(e)'
  BY <1>2, <1>7 DEF IsOwn, IsCurrent
<1> HIDE DEF d, e, l
<1>9. CallsFit'
  BY <1>0, <1>1, <1>2, <1>3, <1>4, <1>5, <1>6, CallsStayFit
<1>10. ASSUME NEW s \in Spinners
       PROVE  OwnCalls(s)' = {q \in made : IsOwn(q)' /\ Spinner(q) = s}
  BY <1>6, <1>7, OwnCallsOfNew
<1>11. /\ OwnCalls("detail")' = {d} /\ OwnCalls("events")' = {e}
       /\ OwnCalls("event")' = {}
  <2>1. \A q \in made : q \in {d, e, l}
    BY <1>1
  <2> QED
    BY <1>1, <1>3, <1>4, <1>8, <1>10, <2>1 DEF Spinners
<1>12. Creations' = Creations
  <2>1. Creations' = {r \in Creations : r \in all} \cup {q \in made : q.kind = "create"}
    BY <1>6, CreationsStay
  <2> QED
    BY <1>1, <1>2, <1>4, <1>6, <2>1 DEF Creations
<1>13. /\ loading'.detail /\ loading'.events /\ ~loading'.event
       /\ loading'.create = loading.create
       /\ loading' \in Flags
  BY <1>0, <1>7 DEF Flags
<1>14. SpinnersFit'
  BY <1>11, <1>12, <1>13 DEF SpinnersFit, SpinsFor, IsKept,
         Spinners, SpinnerInv
<1>15. DetailIsSpared'
  BY <1>0, <1>2, <1>7, <1>11 DEF DetailIsSpared
<1> QED
  <2>1. controllers' \in [workspace : Nat, events : Nat]
    BY <1>0, <1>7
  <2> QED
    BY <1>7, <1>9, <1>13, <1>14, <1>15, <2>1 DEF FlagsFit

(***************************************************************************)
(* Leaving an order stops what was started for it.  (backToOrders)         *)
(***************************************************************************)
LEMMA LeavingStopsSpinners ==
  ASSUME SpinnerInv, LeaveOrder, NEW rs, NEW cs, NEW made,
         Turns(rs, cs, made), Creations \subseteq rs,
         gestures' \in {gestures, gestures + 1},
         \A q \in made : IsMade(q) /\ Spinner(q) = "none" /\ q.kind = "list"
  PROVE  CallsFit' /\ DetailIsSpared' /\ SpinnersFit' /\ FlagsFit'
<1>1. CallsFit'
  BY CallsStayFit
<1>2. generation' = generation + 1 /\ eventsError' = FALSE
      /\ controllers' = [workspace |-> 0, events |-> 0]
      /\ loading' = [Idle EXCEPT !.create = loading.create]
  BY DEF LeaveOrder
<1>3. ASSUME NEW s \in Spinners PROVE OwnCalls(s)' = {}
  <2>1. OwnCalls(s)' = {q \in made : IsOwn(q)' /\ Spinner(q) = s}
    BY <1>2, OwnCallsOfNew
  <2> QED
    BY <2>1 DEF Spinners
<1>4. Creations' = Creations
  <2>1. Creations' = {r \in Creations : r \in rs} \cup {q \in made : q.kind = "create"}
    BY CreationsStay
  <2> QED
    BY <2>1
<1>5. /\ loading \in Flags /\ loading.create \in BOOLEAN
      /\ SpinsFor(loading.create, Creations) /\ (loading.create => Creations # {})
  BY DEF SpinnerInv, FlagsFit, SpinnersFit, Flags
<1>6. /\ loading' \in Flags /\ loading'.create = loading.create
      /\ ~loading'.detail /\ ~loading'.events /\ ~loading'.event
  <2>1. loading' = [detail |-> FALSE, events |-> FALSE, event |-> FALSE,
                    create |-> loading.create]
    BY <1>2 DEF Idle
  <2> QED
    BY <1>5, <2>1 DEF Flags
<1>7. SpinnersFit'
  BY <1>3, <1>4, <1>5, <1>6 DEF SpinnersFit, SpinsFor, IsKept, Spinners
<1>8. DetailIsSpared'
  BY <1>3 DEF DetailIsSpared, Spinners
<1> QED
  BY <1>1, <1>2, <1>6, <1>7, <1>8 DEF FlagsFit

(***************************************************************************)
(* A list that is loaded beside the order turns no spinner of it.          *)
(* (refreshSummaries)                                                      *)
(***************************************************************************)
LEMMA ListTurnsNothing ==
  ASSUME SpinnerInv, NEW refresh \in BOOLEAN, UNCHANGED view, gestures' = gestures + 1,
         calls' = calls \cup {List(gestures + 1, refresh)}
  PROVE  CallsFit' /\ DetailIsSpared' /\ SpinnersFit' /\ FlagsFit'
<1>0. gestures \in Nat
  BY DEF SpinnerInv, IndInv, Placed, WellFormed
<1> PICK c \in Nat : c = gestures + 1
  BY <1>0
<1> DEFINE l == List(c, refresh)
<1>1. IsMade(l) /\ Spinner(l) = "none" /\ l.kind = "list"
  <2>1. c <= gestures'
    BY <1>0
  <2> QED
    BY <2>1, ListIsMade
<1>3. /\ generation' = generation /\ selected' = selected /\ controllers' = controllers
      /\ loading' = loading /\ eventsError' = eventsError
  BY DEF view
<1> HIDE DEF l
<1>2. PICK all, none, made : /\ all = calls /\ none = {} /\ made = {l}
                             /\ Turns(all, none, made)
  BY NothingAborted DEF Turns, l
<1>4. CallsFit'
  BY <1>1, <1>2, CallsStayFit
<1>5. ASSUME NEW s \in Spinners PROVE OwnCalls(s)' = OwnCalls(s)
  <2>1. OwnCalls(s)' = {r \in OwnCalls(s) : r \in all /\ ~Hears(r, none)}
                         \cup {q \in made : IsOwn(q) /\ Spinner(q) = s}
    BY <1>2, <1>3, OwnCallsOfSame
  <2>2. \A r \in OwnCalls(s) : r \in all /\ ~Hears(r, none)
    BY <1>2 DEF OwnCalls, Hears
  <2> QED
    BY <1>1, <1>2, <2>1, <2>2 DEF Spinners
<1>6. Creations' = Creations
  <2>1. Creations' = {r \in Creations : r \in all} \cup {q \in made : q.kind = "create"}
    BY <1>2, CreationsStay
  <2> QED
    BY <1>1, <1>2, <2>1 DEF Creations
<1>7. SpinnersFit' /\ DetailIsSpared' /\ FlagsFit'
  BY <1>3, <1>5, <1>6 DEF SpinnerInv, SpinnersFit, SpinsFor, IsKept, Named, DetailIsSpared,
     FlagsFit, Spinners
<1> QED
  BY <1>4, <1>7

\* The events of the selected order are loaded by the controller c.
LoadsEvents(rs, c) ==
  /\ rs \in SUBSET calls /\ c \in Nat /\ c <= gestures'
  /\ generation' = generation /\ selected' = selected
  /\ gestures' \in {gestures, gestures + 1}
  /\ controllers' = [controllers EXCEPT !.events = c] /\ eventsError' = FALSE
  /\ loading' = [loading EXCEPT !.events = TRUE, !.event = FALSE]
  /\ calls' = Aborted(rs, {controllers.events})
                \cup {Events(selected, generation, c, FALSE)}

(***************************************************************************)
(* Whoever loads the events of the order on the page again takes over the  *)
(* spinner of the load it aborts, and leaves that of the detail alone.     *)
(* (startAvailableEventsLoad)                                              *)
(***************************************************************************)
LEMMA EventsTurnSpinner ==
  ASSUME SpinnerInv, NEW rs, NEW c, LoadsEvents(rs, c), selected \in Spellings,
         \A r \in calls : Spinner(r) = "detail" => r \in rs /\ r.controller # c,
         Creations \subseteq rs, OwnCalls("events") = {}, OwnCalls("event") \cap rs = {}
  PROVE  CallsFit' /\ DetailIsSpared' /\ SpinnersFit' /\ FlagsFit'
<1> USE DEF LoadsEvents
<1> PICK o, g : o = selected /\ g = generation
  OBVIOUS
<1> DEFINE e == Events(o, g, c, FALSE)
<1>1. /\ e.kind = "events" /\ e.order = o /\ e.generation = g /\ e.controller = c
      /\ ~e.clears /\ ~e.aborted /\ e.status = "pending"
  BY DEF Events, Call
<1>2. PICK cs, made : /\ cs = {controllers.events} /\ made = {e}
                      /\ Turns(rs, cs, made)
  BY DEF Turns
<1> HIDE DEF e
<1>3. Spinner(e) = "events" /\ IsOwn(e) /\ IsMade(e)
  BY <1>1 DEF Spinner, IsOwn, IsCurrent, IsMade, IsSound
<1>4. CallsFit'
  <2>1. \A q \in made : IsMade(q) /\ Spinner(q) = "events"
    BY <1>2, <1>3
  <2> QED
    BY <1>2, <2>1, CallsStayFit
<1>5. ASSUME NEW s \in Spinners
      PROVE  OwnCalls(s)' = {r \in OwnCalls(s) : r \in rs /\ ~Hears(r, cs)}
                              \cup {q \in made : IsOwn(q) /\ Spinner(q) = s}
  BY <1>2, OwnCallsOfSame
<1>6. OwnCalls("detail")' = OwnCalls("detail")
  <2>1. \A r \in OwnCalls("detail") : r \in rs /\ ~Hears(r, cs)
    BY <1>2 DEF OwnCalls, SpinnerInv, DetailIsSpared, Hears
  <2> QED
    BY <1>2, <1>3, <1>5, <2>1 DEF Spinners
<1>7. OwnCalls("events")' = {e} /\ OwnCalls("event")' = {}
  BY <1>2, <1>3, <1>5 DEF Spinners
<1>8. Creations' = Creations
  <2>1. Creations' = {r \in Creations : r \in rs} \cup {q \in made : q.kind = "create"}
    BY <1>2, CreationsStay
  <2> QED
    BY <1>1, <1>2, <2>1
<1>9. /\ loading' \in Flags /\ loading'.events /\ ~loading'.event
      /\ loading'.detail = loading.detail /\ loading'.create = loading.create
  BY DEF SpinnerInv, FlagsFit, Flags
<1>10. SpinnersFit'
  BY <1>6, <1>7, <1>8, <1>9 DEF SpinnerInv, SpinnersFit, SpinsFor, IsKept, Spinners
<1>11. controllers' \in [workspace : Nat, events : Nat] /\ controllers'.events = c
  BY DEF SpinnerInv, FlagsFit
<1>12. DetailIsSpared'
  BY <1>6, <1>11 DEF DetailIsSpared, OwnCalls
<1> QED
  BY <1>4, <1>9, <1>10, <1>11, <1>12 DEF FlagsFit

(***************************************************************************)
(* Retrying the events: none is under way where their error is shown.      *)
(* (retryAvailableEvents)                                                  *)
(***************************************************************************)
LEMMA RetryTurnsSpinner ==
  ASSUME SpinnerInv, RetryAvailableEvents
  PROVE  CallsFit' /\ DetailIsSpared' /\ SpinnersFit' /\ FlagsFit'
<1>0. /\ gestures \in Nat /\ selected \in Spellings /\ loading \in Flags
      /\ \A r \in calls : r.controller \in Nat /\ r.controller <= gestures
  BY DEF SpinnerInv, IndInv, Placed, WellFormed, Records, CallsFit, IsSound, FlagsFit,
         RetryAvailableEvents, DetailIsSelected
<1> PICK c \in Nat : c = gestures + 1
  BY <1>0
<1> PICK rs : rs = calls
  OBVIOUS
<1>1. ~loading.events /\ ~loading.event
  BY DEF RetryAvailableEvents, SpinnerInv, FlagsFit
<1>2. OwnCalls("events") = {} /\ OwnCalls("event") = {}
  BY <1>1 DEF SpinnerInv, SpinnersFit, SpinsFor, IsKept, Spinners
<1>3. loading' = [loading EXCEPT !.events = TRUE, !.event = FALSE]
  BY <1>0, <1>1 DEF RetryAvailableEvents, Flags
<1>4. /\ controllers' = [controllers EXCEPT !.events = c] /\ eventsError' = FALSE
      /\ calls' = Aborted(rs, {controllers.events})
                    \cup {Events(selected, generation, c, FALSE)}
      /\ generation' = generation /\ selected' = selected /\ gestures' = gestures + 1
  BY DEF RetryAvailableEvents, StartAvailableEventsLoad, Gesture
<1>5. /\ \A r \in calls : Spinner(r) = "detail" => r \in rs /\ r.controller # c
      /\ Creations \subseteq rs /\ OwnCalls("event") \cap rs = {} /\ c <= gestures'
  BY <1>0, <1>2, <1>4 DEF Creations
<1>6. LoadsEvents(rs, c)
  BY <1>0, <1>3, <1>4, <1>5 DEF LoadsEvents
<1> QED
  BY <1>0, <1>2, <1>5, <1>6, EventsTurnSpinner

(***************************************************************************)
(* One call is made of an order on the page, or to create one, and its     *)
(* spinner turns, which no other call had.                                 *)
(* (applyEventToSelectedOrder, createNewOrder)                             *)
(***************************************************************************)
LEMMA ApplyTurnsSpinner ==
  ASSUME SpinnerInv, ApplyEvent
  PROVE  CallsFit' /\ DetailIsSpared' /\ SpinnersFit' /\ FlagsFit'
<1>0. /\ gestures \in Nat /\ loading \in Flags /\ selected \in Spellings
      /\ detail.order = Named(selected) /\ Named(selected) \in Spellings
      /\ \A r \in calls : r.controller \in Nat /\ r.controller <= gestures
  BY WorkspaceAssumption DEF SpinnerInv, IndInv, Placed, WellFormed, Records, CallsFit,
     IsSound, FlagsFit, ApplyEvent, DetailIsSelected, Named
<1> PICK o, g, c : o = Named(selected) /\ g = generation /\ c = gestures + 1
  OBVIOUS
<1> DEFINE a == Call("apply", o, g, c, FALSE, FALSE)
<1>1. /\ a.kind = "apply" /\ a.order = o /\ a.generation = g /\ a.controller = c
      /\ ~a.clears /\ ~a.aborted
  BY DEF Call
<1>2. PICK all, none, made : all = calls /\ none = {} /\ made = {a} /\ Turns(all, none, made)
  BY <1>0, NothingAborted DEF Turns, ApplyEvent
<1>3. /\ gestures' = gestures + 1 /\ generation' = generation /\ selected' = selected
      /\ controllers' = controllers /\ eventsError' = eventsError
      /\ loading' = [loading EXCEPT !.event = TRUE]
      /\ ~loading.events /\ ~eventsError /\ ~loading.event
  BY DEF ApplyEvent, Gesture
<1> HIDE DEF a
<1>4. Spinner(a) = "event" /\ (IsOwn(a) <=> Named(selected) = selected) /\ IsMade(a)
  BY <1>0, <1>1, <1>3 DEF Spinner, IsOwn, IsCurrent, IsMade, IsSound
<1>5. CallsFit'
  <2>1. \A q \in made : IsMade(q) /\ Spinner(q) = "event"
    BY <1>2, <1>4
  <2> QED
    BY <1>2, <1>3, <2>1, CallsStayFit
<1>6. ASSUME NEW s \in Spinners
      PROVE  OwnCalls(s)' = OwnCalls(s) \cup IF s = "event" /\ IsOwn(a) THEN {a} ELSE {}
  <2>1. OwnCalls(s)' = {r \in OwnCalls(s) : r \in all /\ ~Hears(r, none)}
                         \cup {q \in made : IsOwn(q) /\ Spinner(q) = s}
    BY <1>2, <1>3, OwnCallsOfSame
  <2>2. \A r \in OwnCalls(s) : r \in all /\ ~Hears(r, none)
    BY <1>2 DEF OwnCalls, Hears
  <2> QED
    BY <1>2, <1>4, <2>1, <2>2 DEF Spinners
<1>7. Creations' = Creations
  <2>1. Creations' = {r \in Creations : r \in all} \cup {q \in made : q.kind = "create"}
    BY <1>2, CreationsStay
  <2> QED
    BY <1>1, <1>2, <2>1 DEF Creations
<1>8. OwnCalls("event") = {}
  BY <1>3 DEF SpinnerInv, SpinnersFit, SpinsFor, IsKept, Spinners
<1>9. /\ OwnCalls("detail")' = OwnCalls("detail") /\ OwnCalls("events")' = OwnCalls("events")
      /\ OwnCalls("event")' = IF IsOwn(a) THEN {a} ELSE {}
  BY <1>6, <1>8 DEF Spinners
<1>10. /\ loading' \in Flags /\ loading'.event /\ loading'.events = loading.events
       /\ loading'.detail = loading.detail /\ loading'.create = loading.create
  BY <1>0, <1>3 DEF Flags
<1>11. SpinnersFit'
  BY <1>3, <1>4, <1>7, <1>9, <1>10 DEF SpinnerInv, SpinnersFit, SpinsFor, IsKept, Spinners
<1>12. DetailIsSpared'
  BY <1>3, <1>9 DEF SpinnerInv, DetailIsSpared
<1> QED
  BY <1>3, <1>5, <1>10, <1>11, <1>12 DEF SpinnerInv, FlagsFit

(***************************************************************************)
(* A creation turns the spinner of the form. (createNewOrder.)             *)
(***************************************************************************)
LEMMA CreateTurnsSpinner ==
  ASSUME SpinnerInv, CreateOrder
  PROVE  CallsFit' /\ DetailIsSpared' /\ SpinnersFit' /\ FlagsFit'
<1>0. gestures \in Nat /\ loading \in Flags
  BY DEF SpinnerInv, IndInv, Placed, WellFormed, FlagsFit
<1> PICK g, c : g = generation /\ c = gestures + 1
  OBVIOUS
<1> DEFINE n == Call("create", NoOrder, g, c, FALSE, FALSE)
<1>1. /\ n.kind = "create" /\ n.controller = c /\ ~n.clears /\ ~n.aborted
      /\ n.status = "pending"
  BY DEF Call
<1>2. PICK all, none, made : all = calls /\ none = {} /\ made = {n} /\ Turns(all, none, made)
  BY NothingAborted DEF Turns, CreateOrder
<1>3. /\ gestures' = gestures + 1 /\ generation' = generation /\ selected' = selected
      /\ controllers' = controllers /\ eventsError' = eventsError
      /\ loading' = [loading EXCEPT !.create = TRUE] /\ ~loading.create
  BY DEF CreateOrder, Gesture
<1> HIDE DEF n
<1>4. Spinner(n) = "none" /\ IsMade(n)
  BY <1>0, <1>1, <1>3 DEF Spinner, IsMade, IsSound
<1>5. CallsFit'
  <2>1. \A q \in made : IsMade(q) /\ Spinner(q) = "none"
    BY <1>2, <1>4
  <2> QED
    BY <1>2, <1>3, <2>1, CallsStayFit
<1>6. ASSUME NEW s \in Spinners PROVE OwnCalls(s)' = OwnCalls(s)
  <2>1. OwnCalls(s)' = {r \in OwnCalls(s) : r \in all /\ ~Hears(r, none)}
                         \cup {q \in made : IsOwn(q) /\ Spinner(q) = s}
    BY <1>2, <1>3, OwnCallsOfSame
  <2>2. \A r \in OwnCalls(s) : r \in all /\ ~Hears(r, none)
    BY <1>2 DEF OwnCalls, Hears
  <2> QED
    BY <1>2, <1>4, <2>1, <2>2 DEF Spinners
<1>7. Creations' = {n}
  <2>1. Creations' = {r \in Creations : r \in all} \cup {q \in made : q.kind = "create"}
    BY <1>2, CreationsStay
  <2>2. Creations = {}
    BY <1>3 DEF SpinnerInv, SpinnersFit, SpinsFor, IsKept
  <2> QED
    BY <1>1, <1>2, <2>1, <2>2
<1>8. /\ loading' \in Flags /\ loading'.create
      /\ \A s \in Spinners : loading'[s] = loading[s]
      /\ loading'.event = loading.event /\ loading'.events = loading.events
  BY <1>0, <1>3 DEF Flags, Spinners
<1>9. SpinnersFit'
  BY <1>3, <1>6, <1>7, <1>8 DEF SpinnerInv, SpinnersFit, SpinsFor, IsKept, Named
<1>10. DetailIsSpared'
  BY <1>3, <1>6 DEF SpinnerInv, DetailIsSpared, Spinners
<1> QED
  BY <1>3, <1>5, <1>8, <1>9, <1>10 DEF SpinnerInv, FlagsFit

-----------------------------------------------------------------------------
(* What the API does *)

\* A call as it was, but for its status, its answer and what it created.
IsServed(n, r) ==
  /\ n.kind = r.kind /\ n.generation = r.generation /\ n.controller = r.controller
  /\ n.clears = r.clears /\ n.aborted = r.aborted
  /\ \/ n.order = r.order /\ r.kind # "create"
     \/ r.kind = "create" /\ (n.status = "answered" => n.order \in Spellings)

(***************************************************************************)
(* The API, and what happens to it, leaves the page alone.                 *)
(***************************************************************************)
LEMMA ServedCall ==
  ASSUME calls \subseteq Records, NEW r \in calls,
         ServeRead(r) \/ ServeApply(r) \/ ServeCreate(r) \/ Fail(r)
  PROVE  /\ \E n : IsServed(n, r) /\ calls' = (calls \ {r}) \cup {n}
         /\ UNCHANGED <<gestures, view>>
<1>0. r \in Records
  OBVIOUS
<1>1. CASE ServeRead(r) \/ ServeApply(r)
  <2> DEFINE answer == [o \in Orders |-> IF r.kind = "list" \/ o = Named(r.order)
                                         THEN server'[o] ELSE Absent]
  <2>1. PICK status \in {"answered", "failed"} :
          calls' = (calls \ {r}) \cup {[r EXCEPT !.status = status, !.answer = answer]}
    BY <1>1 DEF ServeRead, ServeApply, Answered
  <2>2. r.kind # "create"
    BY <1>1 DEF ServeRead, ServeApply
  <2> HIDE DEF answer
  <2>3. IsServed([r EXCEPT !.status = status, !.answer = answer], r)
    BY <1>0, <2>2 DEF Records, IsServed
  <2> QED
    BY <1>1, <2>1, <2>3 DEF ServeRead, ServeApply
<1>2. CASE ServeCreate(r)
  <2>1. PICK o \in Orders, status \in {"answered", "failed"} :
          calls' = (calls \ {r}) \cup
            {[r EXCEPT !.status = status, !.order = o,
                       !.answer = [p \in Orders |-> IF p = o THEN 0 ELSE Absent]]}
    BY <1>2 DEF ServeCreate
  <2> DEFINE answer == [p \in Orders |-> IF p = o THEN 0 ELSE Absent]
  <2> HIDE DEF answer
  <2>2. IsServed([r EXCEPT !.status = status, !.order = o, !.answer = answer], r)
    BY <1>0, <1>2, WorkspaceAssumption DEF Records, IsServed, ServeCreate
  <2> QED
    BY <1>2, <2>1, <2>2 DEF ServeCreate, answer
<1>3. CASE Fail(r)
  <2>1. IsServed([r EXCEPT !.status = "failed"], r)
    BY <1>0 DEF Records, IsServed
  <2> QED
    BY <1>3, <2>1 DEF Fail
<1> QED
  BY <1>1, <1>2, <1>3

(***************************************************************************)
(* The API serving a call leaves every spinner its call.                   *)
(***************************************************************************)
LEMMA ServedCallsFit ==
  ASSUME SpinnerInv, NEW r \in calls, NEW n, IsServed(n, r),
         calls' = (calls \ {r}) \cup {n}, UNCHANGED <<gestures, view>>
  PROVE  CallsFit' /\ DetailIsSpared' /\ SpinnersFit' /\ FlagsFit'
<1>0. /\ generation' = generation /\ selected' = selected /\ controllers' = controllers
      /\ loading' = loading /\ eventsError' = eventsError /\ gestures' = gestures
  BY DEF view
<1>1. Spinner(n) = Spinner(r)
  BY DEF IsServed, Spinner
<1>2. IsSound(n)' /\ \A q \in calls : IsSound(q)'
  BY <1>0, <1>1 DEF SpinnerInv, CallsFit, IsServed, IsSound, Spinner
<1>3. CallsFit'
  BY <1>1, <1>2 DEF SpinnerInv, CallsFit, IsServed
<1>4. ASSUME NEW s \in Spinners
      PROVE  OwnCalls(s)' = IF r \in OwnCalls(s) THEN (OwnCalls(s) \ {r}) \cup {n}
                            ELSE OwnCalls(s)
  <2>1. Spinner(r) = s => r.kind # "create"
    BY <1>4 DEF SpinnerInv, CallsFit, IsSound, Spinner, Spinners
  <2>2. Spinner(r) = s => (IsOwn(n)' <=> IsOwn(r))
    BY <1>0, <2>1 DEF IsOwn, IsCurrent, IsServed
  <2>3. \A q : IsOwn(q)' <=> IsOwn(q)
    BY <1>0 DEF IsOwn, IsCurrent
  <2> QED
    BY <1>1, <2>2, <2>3 DEF OwnCalls
<1>5. Creations' = IF r \in Creations THEN (Creations \ {r}) \cup {n} ELSE Creations
  BY DEF Creations, IsServed
<1>6. ASSUME NEW s \in Spinners PROVE SpinsFor(loading[s], OwnCalls(s))' /\ IsKept(s)'
  BY <1>0, <1>4 DEF SpinnerInv, SpinnersFit, SpinsFor, IsKept
<1>7. SpinsFor(loading.create, Creations)' /\ (loading'.create => Creations' # {})
  BY <1>0, <1>5 DEF SpinnerInv, SpinnersFit, SpinsFor, IsKept
<1>8. DetailIsSpared'
  BY <1>0, <1>4 DEF SpinnerInv, DetailIsSpared, IsServed, Spinners
<1> QED
  BY <1>0, <1>3, <1>6, <1>7, <1>8 DEF SpinnerInv, SpinnersFit, FlagsFit

(***************************************************************************)
(* A step that makes and settles no call leaves the spinners alone.        *)
(***************************************************************************)
LEMMA IdleKeepsSpinners ==
  ASSUME SpinnerInv, UNCHANGED <<calls, view>>, gestures' \in {gestures, gestures + 1}
  PROVE  CallsFit' /\ DetailIsSpared' /\ SpinnersFit' /\ FlagsFit'
<1>0. /\ generation' = generation /\ selected' = selected /\ controllers' = controllers
      /\ loading' = loading /\ eventsError' = eventsError /\ calls' = calls
  BY DEF view
<1>1. /\ gestures \in Nat /\ gestures' \in {gestures, gestures + 1}
      /\ \A r \in calls : r.controller \in Nat
  BY DEF SpinnerInv, IndInv, Placed, WellFormed, Records
<1>2. \A r \in calls : IsSound(r)'
  BY <1>1 DEF SpinnerInv, CallsFit, IsSound
<1>3. \A q : IsOwn(q)' <=> IsOwn(q)
  BY <1>0 DEF IsOwn, IsCurrent
<1>4. Creations' = Creations /\ \A s \in Spinners : OwnCalls(s)' = OwnCalls(s)
  BY <1>0, <1>3 DEF Creations, OwnCalls
<1>5. CallsFit'
  BY <1>0, <1>2 DEF SpinnerInv, CallsFit
<1>6. SpinnersFit' /\ DetailIsSpared' /\ FlagsFit'
  BY <1>0, <1>4 DEF SpinnerInv, SpinnersFit, SpinsFor, IsKept, Named, DetailIsSpared, FlagsFit, Spinners
<1> QED
  BY <1>5, <1>6

-----------------------------------------------------------------------------
(* What the page does with an answer *)

(***************************************************************************)
(* A call that settles stops its spinner if it is one of what is selected  *)
(* now and was not aborted, and no other.  (finally blocks,                *)
(* useOrderWorkspace.ts)                                                   *)
(***************************************************************************)
LEMMA SettledStopsSpinner ==
  ASSUME SpinnerInv, NEW r \in calls, calls' = calls \ {r}, r.kind # "create",
         generation' = generation, selected' = selected, controllers' = controllers,
         gestures' = gestures,
         IF IsOwn(r) /\ Spinner(r) # "none"
         THEN loading' = [loading EXCEPT ![Spinner(r)] = FALSE]
         ELSE loading' = loading
  PROVE  CallsFit' /\ DetailIsSpared' /\ SpinnersFit' /\ loading' \in Flags
<1>1. \A q : IsOwn(q)' <=> IsOwn(q)
  BY DEF IsOwn, IsCurrent
<1>2. CallsFit'
  BY DEF SpinnerInv, CallsFit, IsSound
<1>3. ASSUME NEW s \in Spinners PROVE OwnCalls(s)' = OwnCalls(s) \ {r}
  BY <1>1 DEF OwnCalls
<1>4. Creations' = Creations
  BY DEF Creations
<1>5. Spinner(r) \in Spinners \cup {"none"} /\ loading \in Flags
  BY DEF Spinner, Spinners, SpinnerInv, FlagsFit
<1>6. /\ loading' \in Flags /\ loading'.create = loading.create
      /\ \A s \in Spinners : loading'[s] =
           IF IsOwn(r) /\ Spinner(r) = s THEN FALSE ELSE loading[s]
  BY <1>5 DEF Flags, Spinners
<1>7. ASSUME NEW s \in Spinners PROVE SpinsFor(loading[s], OwnCalls(s))' /\ IsKept(s)'
  <2>1. SpinsFor(loading[s], OwnCalls(s)) /\ IsKept(s)
    BY DEF SpinnerInv, SpinnersFit
  <2>2. r \in OwnCalls(s) <=> IsOwn(r) /\ Spinner(r) = s
    BY DEF OwnCalls
  <2> QED
    BY <1>3, <1>6, <2>1, <2>2 DEF SpinsFor, IsKept
<1>8. SpinnersFit'
  BY <1>4, <1>6, <1>7 DEF SpinnerInv, SpinnersFit
<1>9. DetailIsSpared'
  BY <1>3 DEF SpinnerInv, DetailIsSpared, Spinners
<1> QED
  BY <1>2, <1>6, <1>8, <1>9

\* What a call says of itself, and what it stands for.
LEMMA CallFacts ==
  ASSUME SpinnerInv, NEW r \in calls
  PROVE  /\ r \in Records /\ IsSound(r) /\ r.controller \in Nat /\ r.controller <= gestures
         /\ r.kind = "detail" => Spinner(r) = "detail" /\ ~r.clears
         /\ r.kind = "events" => Spinner(r) = "events" /\ ~r.clears
         /\ r.kind = "apply" => Spinner(r) = "event" /\ ~r.clears /\ ~r.aborted
         /\ r.kind = "create" => Spinner(r) = "none"
         /\ r.kind = "list" => Spinner(r) = IF r.clears THEN "detail" ELSE "none"
         /\ Spinner(r) # "none" => r.order \in Spellings
BY DEF SpinnerInv, CallsFit, IsSound, IndInv, Placed, WellFormed, Records, Spinner

(***************************************************************************)
(* A load that ends, with or without an answer.                            *)
(* (refreshSummaries, loadWorkspaceOrder, loadAvailableEventsForSelection) *)
(***************************************************************************)
LEMMA LoadsStopSpinners ==
  ASSUME SpinnerInv, NEW r \in calls,
         \/ Cancel(r) \/ ReceiveList(r) \/ ReceiveEvents(r)
         \/ ReceiveDetail(r) /\ calls' = calls \ {r}
  PROVE  CallsFit' /\ DetailIsSpared' /\ SpinnersFit' /\ FlagsFit'
<1>0. /\ generation' = generation /\ selected' = selected /\ controllers' = controllers
      /\ gestures' = gestures /\ calls' = calls \ {r} /\ r.kind # "create"
  BY DEF Cancel, ReceiveList, ReceiveEvents, ReceiveDetail, Settles, HasSignal, view
<1>1. IF IsOwn(r) /\ Spinner(r) # "none"
      THEN loading' = [loading EXCEPT ![Spinner(r)] = FALSE]
      ELSE loading' = loading
  <2>1. CASE Cancel(r)
    BY <2>1 DEF Cancel, IsOwn, view
  <2>2. CASE ReceiveList(r)
    BY <2>2, CallFacts DEF ReceiveList, Settles, StopSpinner, IsOwn
  <2>3. CASE ReceiveEvents(r)
    BY <2>3, CallFacts DEF ReceiveEvents, Settles, StopSpinner, IsOwn
  <2>4. CASE ReceiveDetail(r) /\ calls' = calls \ {r}
    <3>1. r.kind = "detail" /\ Spinner(r) = "detail"
      BY <2>4, CallFacts DEF ReceiveDetail, Settles
    <3>2. StopSpinner(r, "detail")
      <4> DEFINE l == Call("list", r.order, r.generation, r.controller, r.refresh, TRUE)
      <4>1. /\ l.kind = "list" /\ l.clears /\ ~l.aborted
            /\ l.order = r.order /\ l.generation = r.generation
        BY DEF Call
      <4>2. ASSUME IsOwn(r) PROVE l \notin calls'
        <5>1. r \in OwnCalls("detail")
          BY <3>1, <4>2 DEF OwnCalls
        <5>2. l \in calls => l \in OwnCalls("detail")
          BY <4>1, <4>2 DEF OwnCalls, IsOwn, IsCurrent, Spinner
        <5>3. l \in calls => l = r
          BY <5>1, <5>2 DEF SpinnerInv, SpinnersFit, SpinsFor, IsKept, Spinners
        <5> QED
          BY <2>4, <5>3
      <4>3. ~(IsMissing(r) /\ IsOwn(r))
        BY <2>4, <4>2 DEF ReceiveDetail, IsOwn
      <4> QED
        BY <2>4, <4>3 DEF ReceiveDetail, IsOwn
    <3> QED
      BY <3>1, <3>2 DEF StopSpinner, IsOwn
  <2> QED
    BY <2>1, <2>2, <2>3, <2>4
<1>2. CallsFit' /\ DetailIsSpared' /\ SpinnersFit' /\ loading' \in Flags
  BY <1>0, <1>1, SettledStopsSpinner
<1>3. /\ loading'.event => loading.event
      /\ loading'.events => loading.events
  BY <1>1 DEF SpinnerInv, FlagsFit, Flags
<1>4. CASE eventsError' = eventsError
  BY <1>0, <1>2, <1>3, <1>4 DEF SpinnerInv, FlagsFit
<1>5. CASE eventsError' # eventsError
  <2>1. ReceiveEvents(r) /\ IsOwn(r) /\ eventsError' = TRUE
    BY <1>5 DEF Cancel, ReceiveList, ReceiveEvents, ReceiveDetail, IsOwn, view
  <2>2. Spinner(r) = "events"
    BY <2>1, CallFacts DEF ReceiveEvents, Settles
  <2>3. loading.events
    BY <2>1, <2>2 DEF SpinnerInv, SpinnersFit, SpinsFor, IsKept, Spinners, OwnCalls
  <2>4. ~loading'.events /\ ~loading'.event
    BY <1>1, <2>1, <2>2, <2>3 DEF SpinnerInv, FlagsFit, Flags
  <2> QED
    BY <1>0, <1>2, <2>1, <2>4 DEF SpinnerInv, FlagsFit
<1> QED
  BY <1>4, <1>5

(***************************************************************************)
(* The list that a missing order makes necessary keeps the spinner of the  *)
(* detail turning.  (loadWorkspaceOrder)                                   *)
(***************************************************************************)
LEMMA MissingKeepsSpinner ==
  ASSUME SpinnerInv, NEW r \in calls, ReceiveDetail(r), calls' # calls \ {r}
  PROVE  CallsFit' /\ DetailIsSpared' /\ SpinnersFit' /\ FlagsFit'
<1> DEFINE l == Call("list", r.order, r.generation, r.controller, r.refresh, TRUE)
<1>1. /\ l.kind = "list" /\ l.clears /\ ~l.aborted /\ l.order = r.order
      /\ l.generation = r.generation /\ l.controller = r.controller
  BY DEF Call
<1>2. /\ generation' = generation /\ selected' = selected /\ controllers' = controllers
      /\ gestures' = gestures /\ loading' = loading /\ eventsError' = eventsError
      /\ calls' = (calls \ {r}) \cup {l} /\ IsOwn(r)
  BY DEF ReceiveDetail, Settles, IsOwn
<1>3. r.kind = "detail" /\ Spinner(r) = "detail" /\ r.order \in Spellings
      /\ r.controller <= gestures
  BY CallFacts DEF ReceiveDetail, Settles
<1>4. PICK rest, none, made : /\ rest = calls \ {r} /\ none = {} /\ made = {l}
                              /\ Turns(rest, none, made)
  BY <1>2, NothingAborted DEF Turns
<1> HIDE DEF l
<1>5. Spinner(l) = "detail" /\ IsOwn(l) /\ IsMade(l)
  BY <1>1, <1>2, <1>3 DEF Spinner, IsOwn, IsCurrent, IsMade, IsSound
<1>6. CallsFit'
  <2>1. \A q \in made : IsMade(q) /\ q.kind = "list"
    BY <1>1, <1>4, <1>5
  <2> QED
    BY <1>2, <1>4, <2>1, CallsStayFit
<1>7. ASSUME NEW s \in Spinners
      PROVE  OwnCalls(s)' = (OwnCalls(s) \ {r}) \cup IF s = "detail" THEN {l} ELSE {}
  <2>1. OwnCalls(s)' = {q \in OwnCalls(s) : q \in rest /\ ~Hears(q, none)}
                         \cup {q \in made : IsOwn(q) /\ Spinner(q) = s}
    BY <1>2, <1>4, OwnCallsOfSame
  <2>2. \A q \in OwnCalls(s) : q \in rest /\ ~Hears(q, none) <=> q # r
    BY <1>4 DEF OwnCalls, Hears
  <2> QED
    BY <1>4, <1>5, <2>1, <2>2 DEF Spinners
<1>8. OwnCalls("detail") = {r} /\ r \notin OwnCalls("events") /\ r \notin OwnCalls("event")
  <2>1. r \in OwnCalls("detail")
    BY <1>2, <1>3 DEF OwnCalls
  <2> QED
    BY <1>3, <2>1 DEF OwnCalls, SpinnerInv, SpinnersFit, SpinsFor, IsKept, Spinners
<1>9. /\ OwnCalls("detail")' = {l} /\ OwnCalls("events")' = OwnCalls("events")
      /\ OwnCalls("event")' = OwnCalls("event")
  BY <1>7, <1>8 DEF Spinners
<1>10. Creations' = Creations
  <2>1. Creations' = {q \in Creations : q \in rest} \cup {q \in made : q.kind = "create"}
    BY <1>4, CreationsStay
  <2> QED
    BY <1>1, <1>3, <1>4, <2>1 DEF Creations
<1>11. SpinnersFit'
  BY <1>2, <1>8, <1>9, <1>10 DEF SpinnerInv, SpinnersFit, SpinsFor, IsKept, Spinners
<1>12. DetailIsSpared'
  BY <1>1, <1>2, <1>8, <1>9 DEF SpinnerInv, DetailIsSpared
<1> QED
  BY <1>2, <1>6, <1>11, <1>12 DEF SpinnerInv, FlagsFit

(***************************************************************************)
(* The answer to an applied event: the events are loaded again, the order  *)
(* is left, or the form works again.  (applyEventToSelectedOrder)          *)
(***************************************************************************)
LEMMA AppliedTurnsSpinner ==
  ASSUME SpinnerInv, NEW r \in calls, ReceiveApplied(r), IsCurrent(r)
  PROVE  CallsFit' /\ DetailIsSpared' /\ SpinnersFit' /\ FlagsFit'
<1>1. /\ r.kind = "apply" /\ Spinner(r) = "event" /\ ~r.aborted
      /\ r.controller \in Nat /\ r.controller <= gestures /\ r.order \in Spellings
  BY CallFacts DEF ReceiveApplied, Settles
<1>2. PICK rest, c : rest = calls \ {r} /\ c = r.controller
  OBVIOUS
<1>3. /\ generation' = generation /\ selected' = selected /\ gestures' = gestures
      /\ controllers' = [controllers EXCEPT !.events = c] /\ eventsError' = FALSE
      /\ loading' = [loading EXCEPT !.events = TRUE, !.event = FALSE]
      /\ calls' = Aborted(rest, {controllers.events})
                    \cup {Events(selected, generation, c, FALSE)}
  BY <1>2 DEF ReceiveApplied, Settles, IsCurrent
<1>4. r \in OwnCalls("event") /\ selected \in Spellings
  BY <1>1 DEF OwnCalls, IsOwn, IsCurrent
<1>5. OwnCalls("events") = {} /\ OwnCalls("event") \cap rest = {}
  BY <1>2, <1>4 DEF SpinnerInv, SpinnersFit, SpinsFor, IsKept, FlagsFit, Spinners
<1>6. \A p \in calls : Spinner(p) = "detail" => p \in rest /\ p.controller # c
  BY <1>1, <1>2 DEF SpinnerInv, CallsFit
<1>7. Creations \subseteq rest /\ rest \in SUBSET calls
  BY <1>1, <1>2 DEF Creations
<1>8. LoadsEvents(rest, c)
  BY <1>1, <1>2, <1>3, <1>7 DEF LoadsEvents
<1> QED
  BY <1>4, <1>5, <1>6, <1>7, <1>8, EventsTurnSpinner

(***************************************************************************)
(* The answer of an apply stops its spinner, or reloads what it stands     *)
(* for. (applyEventToSelectedOrder.)                                       *)
(***************************************************************************)
LEMMA AppliesStopSpinners ==
  ASSUME SpinnerInv, NEW r \in calls, ReceiveApplied(r) \/ ReceiveNotApplied(r)
  PROVE  CallsFit' /\ DetailIsSpared' /\ SpinnersFit' /\ FlagsFit'
<1>1. /\ r.kind = "apply" /\ Spinner(r) = "event" /\ ~r.aborted /\ r.controller \in Nat
      /\ r.controller <= gestures /\ gestures' = gestures
  BY CallFacts DEF ReceiveApplied, ReceiveNotApplied, Settles
<1>2. CASE ReceiveApplied(r) /\ IsCurrent(r)
  BY <1>2, AppliedTurnsSpinner
<1>3. CASE ReceiveNotApplied(r) /\ IsCurrent(r) /\ IsMissing(r)
  <2>1. PICK rest, cs, made, c : /\ rest = calls \ {r} /\ cs = BothControllers
                                 /\ made = {List(c, FALSE)} /\ c = r.controller
                                 /\ Turns(rest, cs, made)
    BY <1>3 DEF ReceiveNotApplied, Turns
  <2>2. \A q \in made : IsMade(q) /\ Spinner(q) = "none" /\ q.kind = "list"
    BY <1>1, <2>1, ListIsMade
  <2>3. Creations \subseteq rest
    BY <1>1, <2>1 DEF Creations
  <2>4. LeaveOrder
    BY <1>3 DEF ReceiveNotApplied
  <2>5. Turns(rest, cs, made) /\ gestures' \in {gestures, gestures + 1}
    BY <1>1, <2>1
  <2> QED
    BY <2>2, <2>3, <2>4, <2>5, LeavingStopsSpinners
<1>4. CASE ~(IsCurrent(r) /\ (ReceiveApplied(r) \/ IsMissing(r)))
  <2>1. /\ generation' = generation /\ selected' = selected /\ controllers' = controllers
        /\ eventsError' = eventsError /\ calls' = calls \ {r}
        /\ loading' = IF IsCurrent(r) THEN [loading EXCEPT !.event = FALSE] ELSE loading
    BY <1>4 DEF ReceiveApplied, ReceiveNotApplied
  <2>2. IF IsOwn(r) /\ Spinner(r) # "none"
        THEN loading' = [loading EXCEPT ![Spinner(r)] = FALSE]
        ELSE loading' = loading
    BY <1>1, <2>1 DEF IsOwn
  <2>3. CallsFit' /\ DetailIsSpared' /\ SpinnersFit' /\ loading' \in Flags
    BY <1>1, <2>1, <2>2, SettledStopsSpinner
  <2>4. loading'.events = loading.events /\ (loading'.event => loading.event)
    BY <2>1 DEF SpinnerInv, FlagsFit, Flags
  <2> QED
    BY <2>1, <2>3, <2>4 DEF SpinnerInv, FlagsFit
<1> QED
  BY <1>2, <1>3, <1>4

(***************************************************************************)
(* The answer to a creation: where it began its order is selected and its  *)
(* events are loaded, elsewhere the button works again.                    *)
(* (selectCreatedOrderIfCurrent, createNewOrder)                           *)
(***************************************************************************)
LEMMA CreatedTurnsSpinners ==
  ASSUME SpinnerInv, NEW r \in calls, ReceiveCreated(r), IsStillThere(r)
  PROVE  CallsFit' /\ DetailIsSpared' /\ SpinnersFit' /\ FlagsFit'
<1>1. /\ r.kind = "create" /\ r.status = "answered" /\ r.order \in Spellings
      /\ r.controller \in Nat /\ r.controller <= gestures
      /\ generation \in Nat /\ selected = NoOrder /\ loading \in Flags
  BY CallFacts DEF ReceiveCreated, Settles, IsFound, IsSound, IsStillThere, SpinnerInv,
     IndInv, Placed, WellFormed, IsInPlace, FlagsFit
<1>2. PICK o, g, c : o = r.order /\ g = generation + 1 /\ c = r.controller
  OBVIOUS
<1> DEFINE e == Events(o, g, c, FALSE)
<1>3. /\ e.kind = "events" /\ e.order = o /\ e.generation = g /\ e.controller = c
      /\ ~e.clears /\ ~e.aborted /\ e.status = "pending"
  BY DEF Events, Call
<1>4. PICK rest, cs, made : /\ rest = calls \ {r} /\ cs = BothControllers /\ made = {e}
                            /\ Turns(rest, cs, made)
  BY <1>2 DEF ReceiveCreated, Turns
<1>5. /\ generation' = g /\ selected' = o /\ gestures' = gestures /\ eventsError' = FALSE
      /\ controllers' = [workspace |-> 0, events |-> c]
      /\ loading' = [loading EXCEPT !.detail = FALSE, !.events = TRUE, !.create = FALSE]
  BY <1>2 DEF ReceiveCreated, Settles
<1> HIDE DEF e
<1>6. Spinner(e) = "events" /\ IsOwn(e)' /\ IsMade(e)
  BY <1>1, <1>2, <1>3, <1>5 DEF Spinner, IsOwn, IsCurrent, IsMade, IsSound
<1>7. CallsFit'
  <2>1. \A q \in made : IsMade(q) /\ Spinner(q) = "events"
    BY <1>4, <1>6
  <2> QED
    BY <1>4, <1>5, <2>1, CallsStayFit
<1>8. ASSUME NEW s \in Spinners
      PROVE  OwnCalls(s)' = IF s = "events" THEN {e} ELSE {}
  <2>1. OwnCalls(s)' = {q \in made : IsOwn(q)' /\ Spinner(q) = s}
    BY <1>2, <1>4, <1>5, OwnCallsOfNew
  <2> QED
    BY <1>4, <1>6, <2>1
<1>9. ~loading.event
  <2>1. OwnCalls("event") = {}
    BY <1>1, CallFacts, WorkspaceAssumption DEF OwnCalls, IsOwn, IsCurrent
  <2>2. Named(selected) = selected
    BY <1>1, WorkspaceAssumption DEF Named
  <2> QED
    BY <2>1, <2>2 DEF SpinnerInv, SpinnersFit, SpinsFor, IsKept, Spinners
<1>10. Creations' = {}
  <2>1. Creations' = {q \in Creations : q \in rest} \cup {q \in made : q.kind = "create"}
    BY <1>4, CreationsStay
  <2>2. r \in Creations /\ \A p, q \in Creations : p = q
    BY <1>1 DEF Creations, SpinnerInv, SpinnersFit, SpinsFor, IsKept
  <2> QED
    BY <1>3, <1>4, <2>1, <2>2
<1>11. /\ loading' \in Flags /\ loading'.events /\ ~loading'.detail
       /\ ~loading'.event /\ ~loading'.create
  BY <1>1, <1>5, <1>9 DEF Flags
<1>12. SpinnersFit'
  BY <1>8, <1>10, <1>11 DEF SpinnersFit, SpinsFor, IsKept, Spinners
<1>13. DetailIsSpared'
  BY <1>8 DEF DetailIsSpared, Spinners
<1>14. controllers' \in [workspace : Nat, events : Nat]
  BY <1>1, <1>2, <1>5
<1> QED
  BY <1>5, <1>7, <1>11, <1>12, <1>13, <1>14 DEF FlagsFit

(***************************************************************************)
(* The answer of a creation stops the spinner of the form.                 *)
(* (createNewOrder.)                                                       *)
(***************************************************************************)
LEMMA CreationsStopSpinner ==
  ASSUME SpinnerInv, NEW r \in calls, ReceiveCreated(r) \/ ReceiveNotCreated(r)
  PROVE  CallsFit' /\ DetailIsSpared' /\ SpinnersFit' /\ FlagsFit'
<1>1. CASE ReceiveCreated(r) /\ IsStillThere(r)
  BY <1>1, CreatedTurnsSpinners
<1>2. CASE ReceiveNotCreated(r) \/ (ReceiveCreated(r) /\ ~IsStillThere(r))
  <2>1. /\ generation' = generation /\ selected' = selected /\ controllers' = controllers
        /\ gestures' = gestures /\ eventsError' = eventsError /\ calls' = calls \ {r}
        /\ loading' = [loading EXCEPT !.create = FALSE] /\ r.kind = "create"
    BY <1>2 DEF ReceiveCreated, ReceiveNotCreated, Settles
  <2>2. \A q : IsOwn(q)' <=> IsOwn(q)
    BY <2>1 DEF IsOwn, IsCurrent
  <2>3. CallsFit'
    BY <2>1 DEF SpinnerInv, CallsFit, IsSound
  <2>4. ASSUME NEW s \in Spinners PROVE OwnCalls(s)' = OwnCalls(s)
    BY <2>1, <2>2, CallFacts DEF OwnCalls, Spinners
  <2>5. Creations' = {}
    BY <2>1 DEF Creations, SpinnerInv, SpinnersFit, SpinsFor, IsKept
  <2>6. /\ loading' \in Flags /\ ~loading'.create
        /\ \A s \in Spinners : loading'[s] = loading[s]
        /\ loading'.event = loading.event /\ loading'.events = loading.events
    BY <2>1 DEF SpinnerInv, FlagsFit, Flags, Spinners
  <2>7. SpinnersFit'
    <3>1. ASSUME NEW s \in Spinners PROVE SpinsFor(loading[s], OwnCalls(s))' /\ IsKept(s)'
      <4>1. SpinsFor(loading[s], OwnCalls(s)) /\ IsKept(s)
        BY DEF SpinnerInv, SpinnersFit
      <4>2. SpinsFor(loading[s], OwnCalls(s))'
        BY <2>4, <2>6, <4>1 DEF SpinsFor
      <4>3. Named(selected)' = Named(selected) /\ selected' = selected
        BY <2>1 DEF Named
      <4> QED
        BY <2>4, <2>6, <4>1, <4>2, <4>3 DEF IsKept
    <3>2. SpinsFor(loading.create, Creations)' /\ (loading'.create => Creations' # {})
      BY <2>5, <2>6 DEF SpinsFor
    <3> QED
      BY <3>1, <3>2 DEF SpinnersFit
  <2>8. DetailIsSpared'
    BY <2>1, <2>4 DEF SpinnerInv, DetailIsSpared, Spinners
  <2> QED
    BY <2>1, <2>3, <2>6, <2>7, <2>8 DEF SpinnerInv, FlagsFit
<1> QED
  BY <1>1, <1>2

-----------------------------------------------------------------------------
(* Every step *)

(***************************************************************************)
(* The order on the page is of what is selected, and of something.         *)
(***************************************************************************)
LEMMA StepShowsDetailOfSelected ==
  ASSUME SpinnerInv, [Next]_vars
  PROVE  DetailIsSelected'
<1> USE DEF DetailIsSelected
<1>0. DetailIsSelected
  BY DEF SpinnerInv
<1>1. CASE BackToOrders \/ (\E id \in Spellings : OpenOrder(id))
  BY <1>1 DEF BackToOrders, LeaveOrder, OpenOrder
<1>2. CASE RefreshDashboard \/ RetryAvailableEvents \/ ApplyEvent \/ CreateOrder
  BY <1>0, <1>2 DEF RefreshDashboard, RetryAvailableEvents, ApplyEvent, CreateOrder, view
<1>3. CASE Restart \/ (\E o \in Orders : Foreign(o)) \/ UNCHANGED vars
  BY <1>0, <1>3 DEF Restart, Foreign, view, vars
<1>4. ASSUME NEW r \in calls, Deliver(r) PROVE DetailIsSelected'
  <2>1. CASE ServeRead(r) \/ ServeApply(r) \/ ServeCreate(r) \/ Fail(r) \/ Cancel(r)
    BY <1>0, <2>1 DEF ServeRead, ServeApply, ServeCreate, Fail, Cancel, view
  <2>2. CASE ReceiveList(r) \/ ReceiveNotCreated(r) \/ ReceiveEvents(r)
    BY <1>0, <2>2 DEF ReceiveList, ReceiveNotCreated, ReceiveEvents
  <2>3. CASE ReceiveDetail(r) \/ ReceiveApplied(r)
    <3>1. r.order \in Spellings /\ Answer(r).order = Named(r.order)
      BY <2>3, CallFacts DEF ReceiveDetail, ReceiveApplied, Settles, Answer
    <3> QED
      BY <1>0, <2>3, <3>1, WorkspaceAssumption DEF ReceiveDetail, ReceiveApplied, IsCurrent
  <2>4. CASE ReceiveNotApplied(r)
    BY <1>0, <2>4 DEF ReceiveNotApplied, LeaveOrder
  <2>5. CASE ReceiveCreated(r)
    <3>1. r.order \in Spellings /\ Answer(r).order = Named(r.order)
      BY <2>5, CallFacts DEF ReceiveCreated, Settles, Answer, IsFound, IsSound
    <3> QED
      BY <1>0, <2>5, <3>1, WorkspaceAssumption DEF ReceiveCreated
  <2> QED
    BY <1>4, <2>1, <2>2, <2>3, <2>4, <2>5 DEF Deliver
<1> QED
  BY <1>1, <1>2, <1>3, <1>4 DEF Next, Rest

(***************************************************************************)
(* Every gesture leaves each spinner a call and each call its spinner.     *)
(***************************************************************************)
LEMMA GesturesKeepSpinners ==
  ASSUME SpinnerInv,
         \/ \E id \in Spellings : OpenOrder(id)
         \/ \E o \in Orders : Foreign(o)
         \/ BackToOrders \/ RefreshDashboard \/ RetryAvailableEvents
         \/ ApplyEvent \/ CreateOrder \/ Restart \/ UNCHANGED vars
  PROVE  CallsFit' /\ DetailIsSpared' /\ SpinnersFit' /\ FlagsFit'
<1>1. ASSUME NEW id \in Spellings, OpenOrder(id)
      PROVE  CallsFit' /\ DetailIsSpared' /\ SpinnersFit' /\ FlagsFit'
  BY <1>1, LoadTurnsSpinners DEF OpenOrder, Gesture
<1>2. CASE BackToOrders
  <2>1. PICK all, cs, made : all = calls /\ cs = BothControllers /\ made = {}
                             /\ Turns(all, cs, made)
    <3>1. Turns(calls, BothControllers, {})
      BY <1>2 DEF BackToOrders, Turns
    <3> QED
      BY <3>1
  <2>2. LeaveOrder /\ gestures' \in {gestures, gestures + 1}
    BY <1>2 DEF BackToOrders, Gesture
  <2>3. Creations \subseteq all
    BY <2>1 DEF Creations
  <2>4. Turns(all, cs, made) /\ \A q : q \notin made
    BY <2>1
  <2> QED
    BY <2>2, <2>3, <2>4, LeavingStopsSpinners
<1>3. CASE RefreshDashboard
  <2>1. CASE selected = NoOrder
    BY <1>3, <2>1, ListTurnsNothing DEF RefreshDashboard, Gesture
  <2>2. CASE selected # NoOrder
    <3>1. PICK o \in Spellings : o = selected
      BY <2>2 DEF SpinnerInv, IndInv, Placed, WellFormed
    <3>2. /\ LoadWorkspaceOrder(o, TRUE) /\ gestures' = gestures + 1
          /\ selected' = o
      BY <1>3, <2>2, <3>1 DEF RefreshDashboard, Gesture
    <3> QED
      BY <3>2, LoadTurnsSpinners
  <2> QED
    BY <2>1, <2>2
<1>4. CASE RetryAvailableEvents \/ ApplyEvent \/ CreateOrder
  BY <1>4, RetryTurnsSpinner, ApplyTurnsSpinner, CreateTurnsSpinner
<1>5. CASE Restart \/ (\E o \in Orders : Foreign(o)) \/ UNCHANGED vars
  <2>1. UNCHANGED <<calls, view>> /\ gestures' \in {gestures, gestures + 1}
    BY <1>5 DEF Restart, Foreign, Gesture, vars
  <2> QED
    BY <2>1, IdleKeepsSpinners
<1> QED
  BY <1>1, <1>2, <1>3, <1>4, <1>5

(***************************************************************************)
(* Every answer leaves each spinner a call and each call its spinner.      *)
(***************************************************************************)
LEMMA AnswersKeepSpinners ==
  ASSUME SpinnerInv, NEW r \in calls, Deliver(r)
  PROVE  CallsFit' /\ DetailIsSpared' /\ SpinnersFit' /\ FlagsFit'
<1>1. CASE ServeRead(r) \/ ServeApply(r) \/ ServeCreate(r) \/ Fail(r)
  <2>1. calls \subseteq Records
    BY DEF SpinnerInv, IndInv, Placed, WellFormed
  <2>2. /\ \E n : IsServed(n, r) /\ calls' = (calls \ {r}) \cup {n}
        /\ UNCHANGED <<gestures, view>>
    BY <1>1, <2>1, ServedCall
  <2> QED
    BY <2>2, ServedCallsFit
<1>2. CASE Cancel(r) \/ ReceiveList(r) \/ ReceiveEvents(r) \/ ReceiveDetail(r)
  BY <1>2, LoadsStopSpinners, MissingKeepsSpinner
<1>3. CASE ReceiveApplied(r) \/ ReceiveNotApplied(r)
  BY <1>3, AppliesStopSpinners
<1>4. CASE ReceiveCreated(r) \/ ReceiveNotCreated(r)
  BY <1>4, CreationsStopSpinner
<1> QED
  BY <1>1, <1>2, <1>3, <1>4 DEF Deliver

(***************************************************************************)
(* The first load has its calls.                                           *)
(***************************************************************************)
LEMMA InitSpins ==
  ASSUME Init
  PROVE  SpinnerInv
<1>1. IndInv
  BY InitInPlace
<1>2. PICK l : l = List(0, FALSE) /\ calls = {l}
  BY DEF Init
<1>3. /\ l.kind = "list" /\ ~l.clears /\ l.controller = 0 /\ Spinner(l) = "none"
  BY <1>2 DEF List, Call, Spinner
<1>4. /\ gestures = 0 /\ detail = Nothing /\ eventsError = FALSE /\ loading = Idle
      /\ controllers = [workspace |-> 0, events |-> 0]
  BY DEF Init
<1>5. CallsFit
  <2>1. IsSound(l)
    BY <1>3, <1>4 DEF IsSound
  <2> QED
    BY <1>2, <1>3, <2>1 DEF CallsFit
<1>6. Creations = {} /\ \A s \in Spinners : OwnCalls(s) = {}
  BY <1>2, <1>3 DEF Creations, OwnCalls, Spinners
<1>7. SpinnersFit
  BY <1>4, <1>6 DEF SpinnersFit, SpinsFor, IsKept, Spinners, Idle
<1>8. DetailIsSpared
  BY <1>6 DEF DetailIsSpared, Spinners
<1>9. FlagsFit
  BY <1>4 DEF FlagsFit, Flags, Idle
<1> QED
  BY <1>1, <1>4, <1>5, <1>7, <1>8, <1>9 DEF SpinnerInv, DetailIsSelected

(***************************************************************************)
(* Every step of the workspace keeps the invariant of the spinners.        *)
(***************************************************************************)
LEMMA StepSpins ==
  ASSUME SpinnerInv, [Next]_vars
  PROVE  SpinnerInv'
<1>1. IndInv'
  BY StepKeepsInvariant DEF SpinnerInv
<1>2. DetailIsSelected'
  BY StepShowsDetailOfSelected
<1>3. CallsFit' /\ DetailIsSpared' /\ SpinnersFit' /\ FlagsFit'
  BY GesturesKeepSpinners, AnswersKeepSpinners DEF Next, Rest
<1> QED
  BY <1>1, <1>2, <1>3 DEF SpinnerInv

(***************************************************************************)
(* What the invariant says of the spinners is what the page promises.      *)
(***************************************************************************)
LEMMA InvariantGivesCalls ==
  ASSUME SpinnerInv, IdsAreCanonical
  PROVE  EverySpinnerHasItsCall
<1> DEFINE Own == {r \in calls : /\ Named(r.order) = Named(selected)
                                 /\ r.generation = generation /\ ~r.aborted}
<1>1. \A id \in Spellings \cup {NoOrder} : Named(id) = id
  BY DEF IdsAreCanonical, Named
<1>2. \A r \in calls : r \in Own <=> IsOwn(r)
  BY <1>1 DEF SpinnerInv, IndInv, Placed, WellFormed, Records, IsOwn, IsCurrent
<1>3. \A s \in Spinners : loading[s] <=> \E r \in Own : Spinner(r) = s
  <2>1. Named(selected) = selected
    BY <1>1 DEF SpinnerInv, IndInv, Placed, WellFormed
  <2>2. Own = {r \in calls : IsOwn(r)}
    BY <1>2
  <2> HIDE DEF Own
  <2> QED
    BY <2>1, <2>2 DEF SpinnerInv, SpinnersFit, SpinsFor, IsKept, OwnCalls
<1>4. ASSUME NEW r \in calls
      PROVE  /\ Spinner(r) = "detail" <=> r.kind = "detail" \/ r.clears
             /\ Spinner(r) = "events" <=> r.kind = "events"
             /\ Spinner(r) = "event" <=> r.kind = "apply"
  BY CallFacts DEF Spinner
<1>5. /\ loading.detail <=> \E r \in Own : r.kind = "detail" \/ r.clears
      /\ loading.events <=> \E r \in Own : r.kind = "events"
      /\ loading.event <=> \E r \in Own : r.kind = "apply"
  BY <1>3, <1>4 DEF Spinners
<1>6. loading.create <=> \E r \in calls : r.kind = "create"
  BY DEF SpinnerInv, SpinnersFit, SpinsFor, IsKept, Creations
<1> QED
  BY <1>5, <1>6 DEF EverySpinnerHasItsCall

(***************************************************************************)
(* A spinner of the workspace turns exactly while a call it stands for is  *)
(* in flight for what is selected now, however calls are aborted,          *)
(* overtaken or answered late, if ids are typed as the API writes them.    *)
(* (updateLoading, useOrderWorkspace.ts)                                   *)
(***************************************************************************)
THEOREM SpinnersHaveCalls ==
  ASSUME IdsAreCanonical
  PROVE  Spec => []EverySpinnerHasItsCall
<1>1. Init => SpinnerInv
  BY InitSpins
<1>2. SpinnerInv /\ [Next]_vars => SpinnerInv'
  BY StepSpins
<1>3. SpinnerInv => EverySpinnerHasItsCall
  BY InvariantGivesCalls
<1> QED
  BY <1>1, <1>2, <1>3, PTL DEF Spec

-----------------------------------------------------------------------------
(* The page around the order *)

(***************************************************************************)
(* A list that is loaded again after it failed is one more call.           *)
(* (refreshSummaries, from OrderList.tsx)                                  *)
(***************************************************************************)
LEMMA RetrySpins ==
  ASSUME SpinnerInv, RetryList
  PROVE  SpinnerInv'
<1>1. /\ gestures \in Nat /\ gestures' = gestures + 1 /\ UNCHANGED <<server, view>>
      /\ calls' = calls \cup {List(gestures + 1, FALSE)}
  BY DEF RetryList, Gesture, SpinnerInv, IndInv, Placed, WellFormed
<1>2. /\ generation' = generation /\ selected' = selected
      /\ detail' = detail /\ events' = events
      /\ server' = server /\ gestures' \in Nat
  BY <1>1 DEF view
<1>3. PICK c \in Nat : c = gestures + 1
  BY <1>1
<1> DEFINE l == List(c, FALSE)
<1>4. l \in Records /\ l.kind = "list" /\ l.generation = 0
  BY <1>3 DEF List, Call, Records, Absent
<1>5. calls' = calls \cup {l}
  BY <1>1, <1>3
<1> HIDE DEF l
<1>6. WellFormed'
  <2>1. WellFormed
    BY DEF SpinnerInv, IndInv, Placed
  <2> QED
    BY <1>2, <1>4, <1>5, <2>1 DEF WellFormed
<1>7. Placed'
  <2>1. Placed /\ generation' \in Nat
    BY <1>2 DEF SpinnerInv, IndInv, Placed, WellFormed
  <2>2. \A q \in calls' : (\E r \in calls : Comes(q, r)) \/ q = l
    BY <1>5 DEF Comes
  <2> QED
    BY <1>2, <1>4, <1>6, <2>1, <2>2, CallsStayInPlace
<1>8. ShowsSelected' /\ DetailIsSelected'
  BY <1>2 DEF SpinnerInv, IndInv, ShowsSelected, DetailIsSelected, Named
<1>9. CallsFit' /\ DetailIsSpared' /\ SpinnersFit' /\ FlagsFit'
  BY <1>1, ListTurnsNothing
<1> QED
  BY <1>7, <1>8, <1>9 DEF SpinnerInv, IndInv

\* The steps of the page that are steps of the workspace, too.
PageStep ==
  \/ \E id \in Spellings : OpenFromPage(id)
  \/ BackToPage \/ RefreshPage \/ SubmitDraft
  \/ \E r \in calls : SettleList(r) \/ SettleDetail(r) \/ SettleApply(r) \/ SettleCreate(r)
  \/ Unseen /\ UNCHANGED overviewVars

\* The steps that leave the workspace as it is.
PageRest ==
  /\ UNCHANGED vars
  /\ TypeDraft \/ (\E p \in probes : SettleProbe(p)) \/ UNCHANGED overviewVars

(***************************************************************************)
(* Beside the retry of the list, the page does nothing that the workspace  *)
(* does not do.                                                            *)
(***************************************************************************)
LEMMA PageSteps ==
  ASSUME [OverviewNext]_<<vars, overviewVars>>
  PROVE  \/ PageStep /\ Next
         \/ PageRest
         \/ RetryList
<1>1. ASSUME PageStep PROVE Next
  <2>1. CASE \/ \E id \in Spellings : OpenFromPage(id)
             \/ BackToPage \/ RefreshPage \/ SubmitDraft
    BY <2>1 DEF OpenFromPage, BackToPage, RefreshPage, SubmitDraft, Next
  <2>2. CASE \E r \in calls : SettleList(r) \/ SettleDetail(r) \/ SettleApply(r)
                                \/ SettleCreate(r)
    BY <2>2 DEF SettleList, SettleDetail, SettleApply, SettleCreate, Deliver, Next
  <2>3. CASE Unseen
    BY <2>3 DEF Unseen, Deliver, Next
  <2> QED
    BY <1>1, <2>1, <2>2, <2>3 DEF PageStep
<1>2. PageStep \/ PageRest \/ RetryList
  <2>1. CASE OverviewNext
    BY <2>1 DEF OverviewNext, PageStep, PageRest, TypeDraft, SettleProbe, Rest
  <2>2. CASE UNCHANGED <<vars, overviewVars>>
    BY <2>2 DEF PageRest
  <2> QED
    BY <2>1, <2>2
<1> QED
  BY <1>1, <1>2

(***************************************************************************)
(* Every step of the page keeps the invariant of the spinners.             *)
(***************************************************************************)
LEMMA PageSpins ==
  ASSUME SpinnerInv, [OverviewNext]_<<vars, overviewVars>>
  PROVE  SpinnerInv'
BY PageSteps, StepSpins, RetrySpins DEF PageRest

(***************************************************************************)
(* Whoever waits for the list waits for a call: nothing but its answer     *)
(* takes a list away.                                                      *)
(***************************************************************************)
ListInFlight == \E r \in calls : r.kind = "list"

(***************************************************************************)
(* The calls for the list are of that kind. (listOrders.)                  *)
(***************************************************************************)
LEMMA ListsAreLists ==
  /\ \A c, refresh : List(c, refresh).kind = "list"
  /\ \A o, g, c, refresh : Call("list", o, g, c, refresh, TRUE).kind = "list"
BY DEF List, Call

(***************************************************************************)
(* An answer does not both carry an order and say there is none.           *)
(***************************************************************************)
LEMMA MissingIsNotFound ==
  ASSUME SpinnerInv, NEW r \in calls, r.kind \in {"detail", "apply"}
  PROVE  ~(IsFound(r) /\ IsMissing(r))
<1>1. r.order \in Spellings /\ r.answer \in [Orders -> Int]
  BY CallFacts DEF SpinnerInv, IndInv, Placed, WellFormed, Records, CallsFit, IsSound
<1>2. Answer(r).version \in Int
  BY <1>1, WorkspaceAssumption DEF Answer, Named
<1> QED
  BY <1>2 DEF IsFound, IsMissing

(***************************************************************************)
(* Aborts of other calls keep a list in flight.                            *)
(* (abortAllWorkspaceRequests.)                                            *)
(***************************************************************************)
LEMMA AbortsKeepLists ==
  ASSUME SpinnerInv, ListInFlight, NEW r, r.kind # "list", NEW cs,
         Aborted(calls, cs) \subseteq calls' \/ Aborted(calls \ {r}, cs) \subseteq calls'
  PROVE  ListInFlight'
<1>1. calls \subseteq Records
  BY DEF SpinnerInv, IndInv, Placed, WellFormed
<1>2. PICK l \in calls : l.kind = "list"
  BY DEF ListInFlight
<1>3. PICK rs : /\ rs \in SUBSET Records /\ l \in rs
                /\ Aborted(rs, cs) \subseteq calls'
  <2>1. calls \ {r} \in SUBSET Records /\ l \in calls \ {r}
    BY <1>1, <1>2
  <2> QED
    BY <1>1, <2>1
<1>4. \E q \in Aborted(rs, cs) : q.kind = "list"
  BY <1>2, <1>3, AbortedParts
<1> QED
  BY <1>3, <1>4 DEF ListInFlight

(***************************************************************************)
(* A list in flight stays there while nothing settles it or asks for       *)
(* another.                                                                *)
(***************************************************************************)
LEMMA ListsStay ==
  ASSUME SpinnerInv, ListInFlight,
         \/ \E id \in Spellings : OpenOrder(id)
         \/ \E o \in Orders : Foreign(o)
         \/ BackToOrders \/ RetryAvailableEvents \/ ApplyEvent \/ CreateOrder \/ Restart
         \/ \E r \in calls :
              \/ ServeRead(r) \/ ServeApply(r) \/ ServeCreate(r) \/ Fail(r) \/ Cancel(r)
              \/ ReceiveDetail(r) \/ ReceiveEvents(r)
              \/ ReceiveApplied(r) \/ ReceiveNotApplied(r)
              \/ ReceiveCreated(r) \/ ReceiveNotCreated(r)
  PROVE  ListInFlight'
<1>1. ASSUME NEW cs, Aborted(calls, cs) \subseteq calls'
      PROVE  ListInFlight'
  <2>1. PICK r : r.kind # "list"
    <3>1. [kind |-> "none"].kind # "list"
      OBVIOUS
    <3> QED
      BY <3>1
  <2> QED
    BY <1>1, <2>1, AbortsKeepLists
<1>2. CASE \/ \E id \in Spellings : OpenOrder(id)
           \/ BackToOrders \/ RetryAvailableEvents
  <2>1. \E cs : Aborted(calls, cs) \subseteq calls'
    BY <1>2 DEF OpenOrder, BackToOrders, RetryAvailableEvents, LoadWorkspaceOrder,
       StartAvailableEventsLoad
  <2> QED
    BY <1>1, <2>1
<1>3. CASE ApplyEvent \/ CreateOrder \/ Restart \/ (\E o \in Orders : Foreign(o))
  BY <1>3 DEF ApplyEvent, CreateOrder, Restart, Foreign, ListInFlight
<1>4. ASSUME NEW r \in calls, ServeRead(r) \/ ServeApply(r) \/ ServeCreate(r) \/ Fail(r)
      PROVE  ListInFlight'
  <2>1. \E n : IsServed(n, r) /\ calls' = (calls \ {r}) \cup {n}
    BY <1>4, ServedCall DEF SpinnerInv, IndInv, Placed, WellFormed
  <2> QED
    BY <2>1 DEF IsServed, ListInFlight
<1>5. ASSUME NEW r \in calls, r.kind # "list", calls \ {r} \subseteq calls'
      PROVE  ListInFlight'
  BY <1>5 DEF ListInFlight
<1>6. ASSUME NEW r \in calls,
             \/ Cancel(r) \/ ReceiveDetail(r) \/ ReceiveEvents(r) \/ ReceiveNotCreated(r)
             \/ ReceiveApplied(r) /\ ~IsCurrent(r)
             \/ ReceiveNotApplied(r) /\ ~(IsCurrent(r) /\ IsMissing(r))
             \/ ReceiveCreated(r) /\ ~IsStillThere(r)
      PROVE  ListInFlight'
  <2>1. r.kind # "list" /\ calls \ {r} \subseteq calls'
    BY <1>6 DEF Cancel, HasSignal, ReceiveDetail, ReceiveEvents, ReceiveNotCreated,
       ReceiveApplied, ReceiveNotApplied, ReceiveCreated, Settles
  <2> QED
    BY <1>5, <2>1
<1>7. ASSUME NEW r \in calls,
             \/ ReceiveApplied(r) /\ IsCurrent(r)
             \/ ReceiveNotApplied(r) /\ IsCurrent(r) /\ IsMissing(r)
             \/ ReceiveCreated(r) /\ IsStillThere(r)
      PROVE  ListInFlight'
  <2>1. r.kind # "list" /\ \E cs : Aborted(calls \ {r}, cs) \subseteq calls'
    BY <1>7 DEF ReceiveApplied, ReceiveNotApplied, ReceiveCreated, Settles
  <2> QED
    BY <2>1, AbortsKeepLists
<1> QED
  BY <1>2, <1>3, <1>4, <1>6, <1>7

WaitsFit ==
  /\ probes \subseteq [kind : Probed, refresh : BOOLEAN]
  /\ "list" \in waiting => ListInFlight
  /\ waiting \ {"list"} \subseteq {p.kind : p \in probes}

(***************************************************************************)
(* Where a list is said to be waited for, one begins, or one was waited    *)
(* for and is there still.                                                 *)
(***************************************************************************)
LEMMA ListIsAwaited ==
  ASSUME SpinnerInv, WaitsFit, PageStep, "list" \in waiting'
  PROVE  ListInFlight'
<1> USE DEF WaitsFit
<1>1. CASE \/ \E id \in Spellings : OpenFromPage(id)
           \/ BackToPage \/ SubmitDraft \/ (\E r \in calls : SettleCreate(r))
  BY <1>1, ListsStay DEF OpenFromPage, BackToPage, SubmitDraft, SettleCreate
<1>2. CASE RefreshPage
  <2>1. \E c, refresh : List(c, refresh) \in calls'
    <3>1. CASE selected = NoOrder
      BY <1>2, <3>1 DEF RefreshPage, RefreshDashboard
    <3>2. CASE selected # NoOrder
      <4>1. LoadWorkspaceOrder(selected, TRUE)
        BY <1>2, <3>2 DEF RefreshPage, RefreshDashboard
      <4> QED
        BY <4>1 DEF LoadWorkspaceOrder
    <3> QED
      BY <3>1, <3>2
  <2> QED
    BY <2>1, ListsAreLists DEF ListInFlight
<1>3. ASSUME NEW r \in calls, SettleList(r) PROVE FALSE
  BY <1>3 DEF SettleList, ListSettles
<1>4. ASSUME NEW r \in calls, SettleDetail(r) PROVE ListInFlight'
  <2>1. CASE ~IsFound(r) /\ ~r.aborted /\ IsCurrent(r) /\ IsMissing(r)
    <3>1. \E o, g, c, refresh : Call("list", o, g, c, refresh, TRUE) \in calls'
      BY <1>4, <2>1 DEF SettleDetail, ReceiveDetail
    <3> QED
      BY <3>1, ListsAreLists DEF ListInFlight
  <2>2. CASE ~(~IsFound(r) /\ ~r.aborted /\ IsCurrent(r) /\ IsMissing(r))
    <3>1. waiting' = waiting /\ ReceiveDetail(r)
      BY <1>4, <2>2 DEF SettleDetail
    <3> QED
      BY <3>1, ListsStay
  <2> QED
    BY <2>1, <2>2
<1>5. ASSUME NEW r \in calls, SettleApply(r) PROVE ListInFlight'
  <2>1. CASE IsCurrent(r) /\ IsMissing(r)
    <3>1. ReceiveNotApplied(r)
      BY <1>5, <2>1, MissingIsNotFound DEF SettleApply, ReceiveApplied, Settles
    <3>2. List(r.controller, FALSE) \in calls'
      BY <2>1, <3>1 DEF ReceiveNotApplied
    <3> QED
      BY <3>2, ListsAreLists DEF ListInFlight
  <2>2. CASE ~(IsCurrent(r) /\ IsMissing(r))
    <3>1. waiting' = waiting
      BY <1>5, <2>2 DEF SettleApply
    <3>2. ReceiveApplied(r) \/ ReceiveNotApplied(r)
      BY <1>5 DEF SettleApply
    <3> QED
      BY <3>1, <3>2, ListsStay
  <2> QED
    BY <2>1, <2>2
<1>6. CASE Unseen /\ UNCHANGED overviewVars
  BY <1>6, ListsStay DEF Unseen, overviewVars, Foreign, ServeRead, Fail
<1> QED
  BY <1>1, <1>2, <1>3, <1>4, <1>5, <1>6 DEF PageStep

(***************************************************************************)
(* Every step of the page leaves what it waits for under way.              *)
(* (useOrdersOverview.ts.)                                                 *)
(***************************************************************************)
LEMMA StepAwaits ==
  ASSUME SpinnerInv, WaitsFit, [OverviewNext]_<<vars, overviewVars>>
  PROVE  WaitsFit'
<1>1. ASSUME "list" \in waiting' PROVE ListInFlight'
  <2>1. CASE PageRest
    <3>1. calls' = calls /\ waiting' \subseteq waiting
      BY <2>1 DEF PageRest, vars, overviewVars, TypeDraft, SettleProbe
    <3> QED
      BY <1>1, <3>1 DEF WaitsFit, ListInFlight
  <2>2. CASE RetryList
    BY <2>2, ListsAreLists DEF RetryList, ListInFlight
  <2> QED
    BY <1>1, <2>1, <2>2, PageSteps, ListIsAwaited
<1>2. /\ probes' \subseteq [kind : Probed, refresh : BOOLEAN]
      /\ waiting' \ {"list"} \subseteq {p.kind : p \in probes'}
  <2>1. CASE waiting' \ {"list"} \subseteq waiting \ {"list"} /\ probes' = probes
    BY <2>1 DEF WaitsFit
  <2>2. CASE RefreshPage
    <3>1. probes' = probes \cup Probes(TRUE) /\ waiting' = Probed \cup {"list"}
      BY <2>2 DEF RefreshPage
    <3>2. /\ Probes(TRUE) \subseteq [kind : Probed, refresh : BOOLEAN]
          /\ \A k \in Probed : \E p \in Probes(TRUE) : p.kind = k
      <4>1. ASSUME NEW k \in Probed
            PROVE  \E p \in Probes(TRUE) : p.kind = k
        <5>1. [kind |-> k, refresh |-> TRUE] \in Probes(TRUE)
          BY DEF Probes
        <5> QED
          BY <5>1
      <4> QED
        BY <4>1 DEF Probes
    <3> QED
      BY <3>1, <3>2 DEF WaitsFit
  <2>3. CASE \E p \in probes : SettleProbe(p)
    BY <2>3 DEF WaitsFit, SettleProbe
  <2>4. CASE PageRest
    BY <2>1, <2>3, <2>4 DEF PageRest, TypeDraft, overviewVars
  <2>5. CASE RetryList
    BY <2>1, <2>5 DEF RetryList, ListStarts
  <2>6. CASE PageStep /\ ~RefreshPage
    <3>1. CASE \/ \E id \in Spellings : OpenFromPage(id)
               \/ BackToPage \/ SubmitDraft \/ (Unseen /\ UNCHANGED overviewVars)
      BY <2>1, <3>1 DEF OpenFromPage, BackToPage, SubmitDraft, overviewVars, Switches
    <3>2. ASSUME NEW r \in calls, SettleList(r) \/ SettleDetail(r) \/ SettleCreate(r)
          PROVE  waiting' \ {"list"} \subseteq waiting \ {"list"} /\ probes' = probes
      BY <3>2 DEF SettleList, ListSettles, SettleDetail, SettleCreate
    <3>3. ASSUME NEW r \in calls, SettleApply(r)
          PROVE  waiting' \ {"list"} \subseteq waiting \ {"list"} /\ probes' = probes
      BY <3>3 DEF SettleApply, Switches
    <3> QED
      BY <2>1, <2>6, <3>1, <3>2, <3>3 DEF PageStep
  <2> QED
    BY <2>2, <2>4, <2>5, <2>6, PageSteps
<1> QED
  BY <1>1, <1>2 DEF WaitsFit

PageInv == SpinnerInv /\ WaitsFit

(***************************************************************************)
(* The page starts with the calls it waits for.                            *)
(***************************************************************************)
LEMMA InitAwaits ==
  ASSUME OverviewInit
  PROVE  PageInv
<1>1. SpinnerInv
  BY InitSpins DEF OverviewInit
<1>2. ListInFlight
  BY DEF OverviewInit, Init, List, Call, ListInFlight
<1>3. \A k \in Probed : \E p \in Probes(FALSE) : p.kind = k
  <2>1. ASSUME NEW k \in Probed
        PROVE  \E p \in Probes(FALSE) : p.kind = k
    <3>1. [kind |-> k, refresh |-> FALSE] \in Probes(FALSE)
      BY DEF Probes
    <3> QED
      BY <3>1
  <2> QED
    BY <2>1
<1>4. Probes(FALSE) \subseteq [kind : Probed, refresh : BOOLEAN]
  BY DEF Probes
<1> QED
  BY <1>1, <1>2, <1>3, <1>4 DEF OverviewInit, PageInv, WaitsFit

(***************************************************************************)
(* What turns or says "Checking" on the page stands for a call in flight,  *)
(* for any orders, any calls beside the list and any number of gestures,   *)
(* if ids are typed as the API writes them. (useOrdersOverview.ts)         *)
(***************************************************************************)
THEOREM PageSpinnersHaveCalls ==
  ASSUME IdsAreCanonical
  PROVE  OverviewSpec => []OverviewSpinnersHaveCalls
<1>1. OverviewInit => PageInv
  BY InitAwaits
<1>2. PageInv /\ [OverviewNext]_<<vars, overviewVars>> => PageInv'
  BY PageSpins, StepAwaits DEF PageInv
<1>3. PageInv => OverviewSpinnersHaveCalls
  BY InvariantGivesCalls DEF PageInv, WaitsFit, ListInFlight, OverviewSpinnersHaveCalls
<1> QED
  BY <1>1, <1>2, <1>3, PTL DEF OverviewSpec

-----------------------------------------------------------------------------
(* The form for the next order *)

\* The form on the page came with this selection of nothing; the form whose order
\* is being created came with the selection in which it was sent.
DraftFit ==
  /\ draft \in [form : [instance : Int, complete : BOOLEAN], creating : Int]
  /\ selected = NoOrder => draft.form.instance = generation
  /\ \A r \in Creations : draft.creating = r.generation

\* A panel without its order says so, or waits; the list that a missing order made
\* necessary is waited for where that was told.
PanelsFit ==
  /\ summaries \in [Orders -> Int]
  /\ ~SaysUnavailable
  /\ \A r \in calls : r.clears /\ IsOwn(r) => "detail" \in failed \/ detail # Nothing

-----------------------------------------------------------------------------
(* Where the calls of the next state come from *)

\* The detail that is missing is the one the page waits for.
IsTold(r) == ReceiveDetail(r) /\ ~IsFound(r) /\ ~r.aborted /\ IsCurrent(r)

ComesFrom(q) ==
  \/ q \in calls
  \/ q.aborted /\ \E r \in calls : IsLike(q, r)
  \/ \E r \in calls : IsServed(q, r)

StepElsewhere ==
  \/ \E id \in Spellings : OpenOrder(id)
  \/ \E o \in Orders : Foreign(o)
  \/ BackToOrders \/ RefreshDashboard \/ RetryAvailableEvents \/ ApplyEvent \/ Restart
  \/ \E r \in calls :
       \/ ServeRead(r) \/ ServeApply(r) \/ ServeCreate(r) \/ Fail(r) \/ Cancel(r)
       \/ ReceiveList(r) \/ ReceiveEvents(r)
       \/ ReceiveApplied(r) \/ ReceiveNotApplied(r)
       \/ ReceiveCreated(r) \/ ReceiveNotCreated(r)

WorkspaceStep == StepElsewhere \/ \E r \in calls : ReceiveDetail(r)

(***************************************************************************)
(* Details, events and applies clear no page; only a list may.             *)
(***************************************************************************)
LEMMA NewCallsAreLoads ==
  /\ \A o, g, c, refresh :
       /\ Detail(o, g, c, refresh).kind = "detail" /\ ~Detail(o, g, c, refresh).clears
       /\ Events(o, g, c, refresh).kind = "events" /\ ~Events(o, g, c, refresh).clears
  /\ \A c, refresh : ~List(c, refresh).clears
  /\ \A o, g, c :
       LET a == Call("apply", o, g, c, FALSE, FALSE) IN a.kind = "apply" /\ ~a.clears
BY DEF Detail, Events, List, Call

(***************************************************************************)
(* A call was there before, or is a new load, or the list that a missing   *)
(* order makes necessary.                                                  *)
(***************************************************************************)
LEMMA WhereCallsComeFrom ==
  ASSUME SpinnerInv, WorkspaceStep, NEW q \in calls'
  PROVE  \/ ComesFrom(q)
         \/ q.kind # "create" /\ ~q.clears
         \/ /\ q.kind = "list" /\ ~StepElsewhere
            /\ \E r \in calls : IsTold(r) /\ IsMissing(r)
<1>0. calls \subseteq Records
  BY DEF SpinnerInv, IndInv, Placed, WellFormed
<1>1. ASSUME NEW cs, NEW rs \in SUBSET calls, q \in Aborted(rs, cs)
      PROVE  ComesFrom(q)
  <2>1. rs \in SUBSET Records
    BY <1>0
  <2> QED
    BY <1>1, <2>1, AbortedParts DEF ComesFrom
<1> DEFINE IsNew == q.kind # "create" /\ ~q.clears
<1>2. ASSUME NEW o, NEW refresh, LoadWorkspaceOrder(o, refresh)
      PROVE  ComesFrom(q) \/ IsNew
  <2>1. \/ q \in Aborted(calls, BothControllers)
        \/ \E g, c : q \in {Detail(o, g, c, refresh), Events(o, g, c, refresh), List(c, TRUE)}
    BY <1>2 DEF LoadWorkspaceOrder
  <2> QED
    BY <1>1, <2>1, NewCallsAreLoads, ListsAreLists
<1>3. CASE (\E id \in Spellings : OpenOrder(id)) \/ (RefreshDashboard /\ selected # NoOrder)
  BY <1>2, <1>3 DEF OpenOrder, RefreshDashboard
<1>4. CASE RefreshDashboard /\ selected = NoOrder
  <2>1. q \in calls \/ \E c : q = List(c, TRUE)
    BY <1>4 DEF RefreshDashboard
  <2> QED
    BY <2>1, NewCallsAreLoads, ListsAreLists DEF ComesFrom
<1>5. CASE BackToOrders
  BY <1>1, <1>5 DEF BackToOrders
<1>6. CASE RetryAvailableEvents
  <2>1. \/ \E cs : q \in Aborted(calls, cs)
        \/ \E o, g, c : q = Events(o, g, c, FALSE)
    BY <1>6 DEF RetryAvailableEvents, StartAvailableEventsLoad
  <2> QED
    BY <1>1, <2>1, NewCallsAreLoads
<1>7. CASE ApplyEvent
  <2>1. q \in calls \/ \E o, g, c : q = Call("apply", o, g, c, FALSE, FALSE)
    BY <1>7 DEF ApplyEvent
  <2> QED
    BY <2>1, NewCallsAreLoads DEF ComesFrom
<1>8. CASE Restart \/ (\E o \in Orders : Foreign(o))
  BY <1>8 DEF Restart, Foreign, ComesFrom
<1>9. ASSUME NEW r \in calls, ServeRead(r) \/ ServeApply(r) \/ ServeCreate(r) \/ Fail(r)
      PROVE  ComesFrom(q)
  <2>1. PICK n : IsServed(n, r) /\ calls' = (calls \ {r}) \cup {n}
    BY <1>0, <1>9, ServedCall
  <2> QED
    BY <2>1 DEF ComesFrom
<1>10. ASSUME NEW r \in calls, ReceiveDetail(r)
       PROVE  ComesFrom(q) \/ (q.kind = "list" /\ IsTold(r) /\ IsMissing(r))
  <2>1. CASE IsMissing(r) /\ ~r.aborted /\ IsCurrent(r)
    <3>1. q \in calls \/ \E o, g, c, refresh : q = Call("list", o, g, c, refresh, TRUE)
      BY <1>10, <2>1 DEF ReceiveDetail
    <3>2. IsTold(r)
      BY <1>10, <2>1, MissingIsNotFound DEF IsTold, ReceiveDetail, Settles
    <3> QED
      BY <2>1, <3>1, <3>2, ListsAreLists DEF ComesFrom
  <2>2. CASE ~(IsMissing(r) /\ ~r.aborted /\ IsCurrent(r))
    BY <1>10, <2>2 DEF ReceiveDetail, ComesFrom
  <2> QED
    BY <2>1, <2>2
<1>11. ASSUME NEW r \in calls,
              \/ Cancel(r) \/ ReceiveList(r) \/ ReceiveEvents(r) \/ ReceiveNotCreated(r)
              \/ ReceiveApplied(r) \/ ReceiveNotApplied(r) \/ ReceiveCreated(r)
       PROVE  ComesFrom(q) \/ IsNew
  <2>1. \/ q \in calls
        \/ \E cs : q \in Aborted(calls \ {r}, cs)
        \/ \E o, g, c : q = Events(o, g, c, FALSE)
        \/ \E c : q = List(c, FALSE)
    BY <1>11 DEF Cancel, ReceiveList, ReceiveEvents, ReceiveNotCreated,
       ReceiveApplied, ReceiveNotApplied, ReceiveCreated
  <2> QED
    BY <1>1, <2>1, NewCallsAreLoads, ListsAreLists DEF ComesFrom
<1>12. ASSUME StepElsewhere PROVE ComesFrom(q) \/ IsNew
  BY <1>3, <1>4, <1>5, <1>6, <1>7, <1>8, <1>9, <1>11, <1>12 DEF StepElsewhere
<1> QED
  BY <1>10, <1>12 DEF WorkspaceStep

(***************************************************************************)
(* The generation moves with the selection, and not while nothing is       *)
(* selected.  (selectionGeneration)                                        *)
(***************************************************************************)
LEMMA GenerationMoves ==
  ASSUME SpinnerInv, [Next]_vars
  PROVE  /\ generation' \in {generation, generation + 1}
         /\ generation' = generation => selected' = selected
         /\ selected = NoOrder /\ selected' = NoOrder => generation' = generation
<1> DEFINE Shifts ==
      /\ generation' \in {generation, generation + 1}
      /\ generation' = generation => selected' = selected
      /\ selected = NoOrder /\ selected' = NoOrder => generation' = generation
<1>0. generation \in Nat
  BY DEF SpinnerInv, IndInv, Placed, WellFormed
<1>1. ASSUME NEW id \in Spellings, OpenOrder(id) PROVE Shifts
  BY <1>0, <1>1, WorkspaceAssumption DEF OpenOrder, LoadWorkspaceOrder
<1>2. CASE BackToOrders
  BY <1>0, <1>2 DEF BackToOrders, LeaveOrder
<1>3. CASE RefreshDashboard
  BY <1>0, <1>3 DEF RefreshDashboard, LoadWorkspaceOrder, view
<1>4. CASE RetryAvailableEvents \/ ApplyEvent \/ CreateOrder
  BY <1>4 DEF RetryAvailableEvents, ApplyEvent, CreateOrder
<1>5. CASE Restart \/ (\E o \in Orders : Foreign(o)) \/ UNCHANGED vars
  BY <1>5 DEF Restart, Foreign, view, vars
<1>6. CASE \E r \in calls : ServeRead(r) \/ ServeApply(r) \/ ServeCreate(r) \/ Fail(r)
  BY <1>6 DEF ServeRead, ServeApply, ServeCreate, Fail, view
<1>7. CASE \E r \in calls : Cancel(r) \/ ReceiveList(r) \/ ReceiveDetail(r)
               \/ ReceiveEvents(r) \/ ReceiveApplied(r) \/ ReceiveNotCreated(r)
  BY <1>7, AnswersKeepPlace DEF SpinnerInv
<1>8. ASSUME NEW r \in calls, ReceiveNotApplied(r) PROVE Shifts
  <2>1. IsCurrent(r) => selected # NoOrder
    BY <1>8, CallFacts, WorkspaceAssumption DEF ReceiveNotApplied, Settles, IsCurrent
  <2>2. CASE IsCurrent(r) /\ IsMissing(r)
    <3>1. generation' = generation + 1 /\ selected # NoOrder
      BY <1>8, <2>1, <2>2 DEF ReceiveNotApplied, LeaveOrder
    <3> QED
      BY <1>0, <3>1
  <2>3. CASE ~(IsCurrent(r) /\ IsMissing(r))
    BY <1>8, <2>3 DEF ReceiveNotApplied
  <2> QED
    BY <2>2, <2>3
<1>9. ASSUME NEW r \in calls, ReceiveCreated(r) PROVE Shifts
  <2>1. r.order # NoOrder
    BY <1>9, CallFacts, WorkspaceAssumption DEF ReceiveCreated, Settles, IsFound, IsSound
  <2>2. CASE IsStillThere(r)
    <3>1. generation' = generation + 1 /\ selected' # NoOrder
      BY <1>9, <2>1, <2>2 DEF ReceiveCreated
    <3> QED
      BY <1>0, <3>1
  <2>3. CASE ~IsStillThere(r)
    BY <1>9, <2>3 DEF ReceiveCreated
  <2> QED
    BY <2>2, <2>3
<1> QED
  BY <1>1, <1>2, <1>3, <1>4, <1>5, <1>6, <1>7, <1>8, <1>9 DEF Next, Rest, Deliver

(***************************************************************************)
(* Creations come from the submission of the form alone.                   *)
(***************************************************************************)
LEMMA CreationsWereThere ==
  ASSUME SpinnerInv, DraftFit, WorkspaceStep, NEW q \in Creations'
  PROVE  draft.creating = q.generation
<1>1. ComesFrom(q)
  BY WhereCallsComeFrom DEF Creations
<1>2. \E r \in Creations : r.generation = q.generation
  BY <1>1 DEF ComesFrom, Creations, IsLike, IsServed
<1> QED
  BY <1>2 DEF DraftFit

(***************************************************************************)
(* Every step of the page that is one of the workspace sends the draft or  *)
(* is one of the others.                                                   *)
(***************************************************************************)
LEMMA PageStepIsWorkspaceStep ==
  ASSUME PageStep
  PROVE  SubmitDraft \/ WorkspaceStep
BY DEF PageStep, OpenFromPage, BackToPage, RefreshPage, SettleList, SettleDetail,
   SettleApply, SettleCreate, Unseen, WorkspaceStep, StepElsewhere

\* What is on the page where the form is: a form of this selection, or the one
\* that was there, as long as nothing else was selected.
LEMMA FormOfSelection ==
  ASSUME SpinnerInv, DraftFit, [Next]_vars,
         NEW entry, entry \in [instance : Int, complete : BOOLEAN],
         entry.instance = draft.form.instance
  PROVE  /\ FormShown(entry) \in [instance : Int, complete : BOOLEAN]
         /\ selected' = NoOrder => FormShown(entry).instance = generation'
<1>1. generation' \in Int
  BY GenerationMoves DEF SpinnerInv, IndInv, Placed, WellFormed
<1>2. CASE selected' = selected
  BY <1>2, GenerationMoves DEF FormShown, DraftFit
<1>3. CASE selected' # selected
  BY <1>1, <1>3 DEF FormShown, NewForm
<1> QED
  BY <1>2, <1>3

(***************************************************************************)
(* Every step keeps the calls of creations with the forms that sent them.  *)
(* (CreateOrderForm.tsx.)                                                  *)
(***************************************************************************)
LEMMA StepKeepsDraft ==
  ASSUME SpinnerInv, DraftFit, [OverviewNext]_<<vars, overviewVars>>
  PROVE  DraftFit'
<1> DEFINE Entries == [instance : Int, complete : BOOLEAN]
           Drafts == [form : Entries, creating : Int]
<1>0. draft \in Drafts /\ draft.form \in Entries /\ draft.creating \in Int
  BY DEF DraftFit
<1>1. SpinnerInv'
  BY PageSpins
<1>2. ASSUME draft' = draft, generation' = generation \/ selected' # NoOrder,
             selected' = selected \/ selected' # NoOrder,
             \A q \in Creations' : draft.creating = q.generation
      PROVE  DraftFit'
  BY <1>2 DEF DraftFit
<1>3. CASE RetryList
  <2>1. draft' = draft /\ generation' = generation /\ selected' = selected
    BY <1>3 DEF RetryList, view
  <2>2. \E c : calls' = calls \cup {List(c, FALSE)}
    BY <1>3 DEF RetryList
  <2>3. Creations' = Creations
    BY <2>2, ListsAreLists DEF Creations
  <2> QED
    BY <1>2, <2>1, <2>3 DEF DraftFit
<1>4. CASE PageRest
  <2>1. generation' = generation /\ selected' = selected /\ Creations' = Creations
    BY <1>4 DEF PageRest, vars, view, Creations
  <2>2. draft' \in Drafts /\ draft'.form.instance = draft.form.instance
        /\ draft'.creating = draft.creating
    <3>1. CASE TypeDraft
      <4>1. draft' = [draft EXCEPT !.form = [draft.form EXCEPT !.complete = ~@]]
        BY <1>0, <3>1 DEF TypeDraft
      <4>2. [draft.form EXCEPT !.complete = ~@] \in Entries
            /\ [draft.form EXCEPT !.complete = ~@].instance = draft.form.instance
        BY <1>0
      <4> QED
        BY <1>0, <4>1, <4>2
    <3>2. CASE draft' = draft
      BY <1>0, <3>2
    <3> QED
      BY <1>4, <3>1, <3>2 DEF PageRest, SettleProbe, overviewVars
  <2> QED
    BY <2>1, <2>2 DEF DraftFit
<1>5. CASE SubmitDraft
  <2>1. /\ draft' = [draft EXCEPT !.creating = draft.form.instance]
        /\ selected' = selected /\ generation' = generation /\ selected = NoOrder
        /\ \E c : Call("create", NoOrder, generation, c, FALSE, FALSE) \in calls'
    BY <1>5 DEF SubmitDraft, CreateOrder
  <2>2. \E n \in Creations' : n.generation = generation
    BY <2>1 DEF Call, Creations
  <2>3. \A p, q \in Creations' : p = q
    BY <1>1 DEF SpinnerInv, SpinnersFit, SpinsFor
  <2>4. draft' \in Drafts /\ draft'.form = draft.form /\ draft'.creating = generation
    BY <1>0, <2>1 DEF DraftFit
  <2> QED
    BY <2>1, <2>2, <2>3, <2>4 DEF DraftFit
<1>6. ASSUME NEW r \in calls, SettleCreate(r)
      PROVE  DraftFit'
  <2>1. PICK entry : /\ entry \in Entries /\ entry.instance = draft.form.instance
                     /\ draft' = [form |-> FormShown(entry), creating |-> -1]
    <3> DEFINE isEmptied == IsFound(r) /\ IsOwnForm(draft.form)
               left == [draft.form EXCEPT !.complete = @ /\ ~isEmptied]
    <3>1. isEmptied \in BOOLEAN
      BY DEF IsFound, IsOwnForm
    <3>2. left \in Entries /\ left.instance = draft.form.instance
      <4> HIDE DEF isEmptied
      <4> QED
        BY <1>0, <3>1
    <3>3. draft' = [form |-> FormShown(left), creating |-> -1]
      BY <1>6 DEF SettleCreate
    <3> QED
      BY <3>2, <3>3
  <2>2. Creations' = {}
    <3>1. loading'.create = FALSE
      BY <1>6 DEF SettleCreate, ReceiveCreated, ReceiveNotCreated, SpinnerInv, FlagsFit, Flags
    <3> QED
      BY <1>1, <3>1 DEF SpinnerInv, SpinnersFit, SpinsFor
  <2>3. Next
    BY <1>6 DEF SettleCreate, Deliver, Next
  <2>4. /\ FormShown(entry) \in Entries
        /\ selected' = NoOrder => FormShown(entry).instance = generation'
    BY <2>1, <2>3, FormOfSelection
  <2> HIDE DEF Entries
  <2>5. draft' \in Drafts /\ draft'.form = FormShown(entry)
    BY <2>1, <2>4
  <2> QED
    BY <2>2, <2>4, <2>5 DEF DraftFit, Entries
<1>7. CASE PageStep /\ WorkspaceStep /\ Next /\ draft' = draft /\ selected' = selected
  BY <1>2, <1>7, CreationsWereThere, GenerationMoves
<1>8. CASE PageStep /\ WorkspaceStep /\ Next /\ Switches
  <2>1. draft' = [draft EXCEPT !.form = FormShown(draft.form)]
    BY <1>0, <1>8 DEF Switches
  <2>2. /\ FormShown(draft.form) \in Entries
        /\ selected' = NoOrder => FormShown(draft.form).instance = generation'
    BY <1>0, <1>8, FormOfSelection
  <2> HIDE DEF Entries
  <2>3. draft' \in Drafts /\ draft'.form = FormShown(draft.form) /\ draft'.creating = draft.creating
    BY <1>0, <2>1, <2>2
  <2> QED
    BY <1>8, <2>2, <2>3, CreationsWereThere DEF DraftFit, Entries
<1>9. ASSUME PageStep, ~SubmitDraft
      PROVE  \/ \E r \in calls : SettleCreate(r)
             \/ Switches
             \/ draft' = draft /\ selected' = selected
  <2>1. CASE BackToPage \/ (\E id \in Spellings : OpenFromPage(id))
             \/ (\E r \in calls : SettleApply(r))
    BY <2>1 DEF BackToPage, OpenFromPage, SettleApply
  <2>2. CASE RefreshPage \/ (\E r \in calls : SettleList(r) \/ SettleDetail(r))
    BY <2>2 DEF RefreshPage, RefreshDashboard, SettleList, SettleDetail, ReceiveList,
       ReceiveDetail, view
  <2>3. CASE Unseen /\ UNCHANGED overviewVars
    BY <2>3 DEF Unseen, overviewVars, Foreign, Restart, RetryAvailableEvents, ApplyEvent,
       ServeRead, ServeApply, ServeCreate, Fail, Cancel, ReceiveEvents, view
  <2> QED
    BY <1>9, <2>1, <2>2, <2>3 DEF PageStep
<1> QED
  BY <1>3, <1>4, <1>5, <1>6, <1>7, <1>8, <1>9, PageSteps, PageStepIsWorkspaceStep

\* The answer to a creation whose form is still on the page takes the page along.
LEMMA OwnFormLeaves ==
  ASSUME SpinnerInv, DraftFit, NEW r \in calls, SettleCreate(r), selected = NoOrder,
         IsFound(r), IsOwnForm(draft.form)
  PROVE  selected' # NoOrder
<1>1. ReceiveCreated(r) /\ r.kind = "create"
  BY DEF SettleCreate, ReceiveCreated, ReceiveNotCreated, Settles
<1>2. IsStillThere(r)
  BY <1>1 DEF DraftFit, Creations, IsOwnForm, IsStillThere
<1>3. r.order # NoOrder
  BY <1>1, CallFacts, WorkspaceAssumption DEF IsFound, IsSound
<1> QED
  BY <1>1, <1>2, <1>3 DEF ReceiveCreated

(***************************************************************************)
(* Where no order is open, calls come and settle without changing whether  *)
(* the draft is complete.                                                  *)
(***************************************************************************)
LEMMA StepSparesDraft ==
  ASSUME SpinnerInv, DraftFit, [OverviewNext]_<<vars, overviewVars>>,
         selected = NoOrder, selected' = NoOrder, calls' # calls
  PROVE  draft'.form.complete = draft.form.complete
<1>0. /\ draft \in [form : [instance : Int, complete : BOOLEAN], creating : Int]
      /\ draft.form \in [instance : Int, complete : BOOLEAN] /\ draft.form.complete \in BOOLEAN
  BY DEF DraftFit
<1>1. CASE \E r \in calls : SettleCreate(r)
  <2>1. PICK r \in calls : SettleCreate(r)
    BY <1>1
  <2>2. ~(IsFound(r) /\ IsOwnForm(draft.form))
    BY <2>1, OwnFormLeaves
  <2> DEFINE entry == [draft.form EXCEPT
                        !.complete = @ /\ ~(IsFound(r) /\ IsOwnForm(draft.form))]
  <2>3. draft'.form = entry
    BY <2>1 DEF SettleCreate, FormShown
  <2>4. entry.complete = (draft.form.complete /\ ~(IsFound(r) /\ IsOwnForm(draft.form)))
    BY <1>0
  <2>5. (draft.form.complete /\ ~(IsFound(r) /\ IsOwnForm(draft.form))) = draft.form.complete
    BY <1>0, <2>2
  <2> QED
    BY <2>3, <2>4, <2>5
<1>2. CASE SubmitDraft \/ RetryList
  BY <1>0, <1>2 DEF SubmitDraft, RetryList
<1>3. CASE PageRest
  BY <1>3 DEF PageRest, vars
<1>4. CASE BackToPage \/ (\E id \in Spellings : OpenFromPage(id))
           \/ (\E r \in calls : SettleApply(r))
  <2>1. Switches
    BY <1>4 DEF BackToPage, OpenFromPage, SettleApply
  <2> QED
    BY <1>0, <2>1 DEF Switches, FormShown
<1>5. CASE RefreshPage \/ (\E r \in calls : SettleList(r) \/ SettleDetail(r))
           \/ (Unseen /\ UNCHANGED overviewVars)
  BY <1>5 DEF RefreshPage, SettleList, SettleDetail, overviewVars
<1> QED
  BY <1>1, <1>2, <1>3, <1>4, <1>5, PageSteps DEF PageStep

(***************************************************************************)
(* The page starts with an empty form and no creation.                     *)
(***************************************************************************)
LEMMA InitDrafts ==
  ASSUME OverviewInit
  PROVE  DraftFit
<1>1. Creations = {}
  BY ListsAreLists DEF OverviewInit, Init, Creations
<1> QED
  BY <1>1 DEF OverviewInit, Init, NewForm, DraftFit

(***************************************************************************)
(* What is typed for the next order is the user's alone: an answer empties *)
(* the form that created the order, and no form that came after it.        *)
(* (CreateOrderForm.tsx 56; App.tsx 100)                                   *)
(***************************************************************************)
THEOREM DraftIsSpared == OverviewSpec => DraftSurvives
<1>1. OverviewInit => PageInv /\ DraftFit
  BY InitAwaits, InitDrafts
<1>2. PageInv /\ DraftFit /\ [OverviewNext]_<<vars, overviewVars>> => (PageInv /\ DraftFit)'
  BY PageSpins, StepAwaits, StepKeepsDraft DEF PageInv
<1>3. PageInv /\ DraftFit /\ [OverviewNext]_<<vars, overviewVars>> =>
        [selected = NoOrder /\ selected' = NoOrder /\ calls' # calls =>
           draft'.form.complete = draft.form.complete]_<<vars, overviewVars>>
  BY StepSparesDraft DEF PageInv
<1> QED
  BY <1>1, <1>2, <1>3, PTL DEF OverviewSpec, DraftSurvives

-----------------------------------------------------------------------------
(* What the panels say when they have nothing to show *)

\* What the list shows comes from an answer that lists, or has an order more.
ListIsAnswered == \E r \in calls \ calls' : r.kind = "list" /\ r.status = "answered"

(***************************************************************************)
(* A summary that is put in the list shows its order. (upsertSummary.)     *)
(***************************************************************************)
LEMMA UpsertShows ==
  ASSUME SpinnerInv, PanelsFit, NEW r \in calls, IsFound(r), r.kind # "list",
         r.kind # "events"
  PROVE  /\ Upsert(Answer(r)) \in [Orders -> Int]
         /\ \E o \in Orders : Upsert(Answer(r))[o] # Absent
         /\ Answer(r) # Nothing
<1>1. r.order \in Spellings /\ r.answer \in [Orders -> Int]
  <2>1. IsSound(r) /\ r \in Records /\ r.status = "answered"
    BY CallFacts DEF IsFound
  <2>2. r.kind \in {"detail", "apply", "create"}
    BY <2>1 DEF Records
  <2> QED
    BY <2>1, <2>2, CallFacts DEF IsSound, Records
<1>2. /\ Named(r.order) \in Orders /\ Answer(r).order = Named(r.order)
      /\ Answer(r).version \in Int /\ Answer(r).version >= 0
  BY <1>1, WorkspaceAssumption DEF Answer, Named, IsFound
<1>3. PICK o \in Orders, v \in Int : /\ Answer(r).order = o /\ Answer(r).version = v
                                     /\ v # Absent
  BY <1>2 DEF Absent
<1>4. Upsert(Answer(r)) = [summaries EXCEPT ![o] = v]
  BY <1>3 DEF Upsert
<1>5. summaries \in [Orders -> Int]
  BY DEF PanelsFit
<1>6. Answer(r) # Nothing
  BY <1>3 DEF Nothing, Absent
<1> QED
  BY <1>3, <1>4, <1>5, <1>6

(***************************************************************************)
(* The list changes by an answer that lists, or is left with an order in   *)
(* it.                                                                     *)
(***************************************************************************)
LEMMA SummariesMove ==
  ASSUME SpinnerInv, PanelsFit, [Next]_vars
  PROVE  /\ summaries' \in [Orders -> Int]
         /\ \/ summaries' = summaries
            \/ ListIsAnswered
            \/ \E o \in Orders : summaries'[o] # Absent
<1>0. summaries \in [Orders -> Int]
  BY DEF PanelsFit
<1>1. CASE \/ \E id \in Spellings : OpenOrder(id)
           \/ BackToOrders \/ RefreshDashboard \/ RetryAvailableEvents
           \/ ApplyEvent \/ CreateOrder
  BY <1>0, <1>1 DEF OpenOrder, BackToOrders, RefreshDashboard, RetryAvailableEvents,
     ApplyEvent, CreateOrder, view
<1>2. CASE Restart \/ (\E o \in Orders : Foreign(o)) \/ UNCHANGED vars
  BY <1>0, <1>2 DEF Restart, Foreign, view, vars
<1>3. ASSUME NEW r \in calls,
             \/ ServeRead(r) \/ ServeApply(r) \/ ServeCreate(r) \/ Fail(r) \/ Cancel(r)
             \/ ReceiveEvents(r) \/ ReceiveNotApplied(r) \/ ReceiveNotCreated(r)
      PROVE  summaries' = summaries
  BY <1>3 DEF ServeRead, ServeApply, ServeCreate, Fail, Cancel, view,
     ReceiveEvents, ReceiveNotApplied, ReceiveNotCreated
<1>4. ASSUME NEW r \in calls, ReceiveList(r)
      PROVE  /\ summaries' \in [Orders -> Int]
             /\ summaries' = summaries \/ ListIsAnswered
  <2>1. CASE r.status = "answered"
    <3>1. r.answer \in [Orders -> Int]
      BY CallFacts DEF Records
    <3>2. Listed(r.answer) \in [Orders -> Int]
      BY <3>1 DEF Listed, Absent
    <3>3. summaries' = Listed(r.answer) /\ r.kind = "list" /\ calls' = calls \ {r}
      BY <1>4, <2>1 DEF ReceiveList, Settles
    <3> QED
      BY <2>1, <3>2, <3>3 DEF ListIsAnswered
  <2>2. CASE r.status # "answered"
    BY <1>0, <1>4, <2>2 DEF ReceiveList
  <2> QED
    BY <2>1, <2>2
<1>5. ASSUME NEW r \in calls, ReceiveDetail(r) \/ ReceiveApplied(r) \/ ReceiveCreated(r)
      PROVE  \/ summaries' = summaries
             \/ /\ summaries' \in [Orders -> Int]
                /\ \E o \in Orders : summaries'[o] # Absent
  <2>1. \/ summaries' = summaries
        \/ /\ IsFound(r) /\ r.kind \in {"detail", "apply", "create"}
           /\ summaries' = Upsert(Answer(r))
    BY <1>5 DEF ReceiveDetail, ReceiveApplied, ReceiveCreated, Settles
  <2> QED
    BY <2>1, UpsertShows
<1> QED
  BY <1>0, <1>1, <1>2, <1>3, <1>4, <1>5 DEF Next, Rest, Deliver

(***************************************************************************)
(* A list that is neither waited for nor failed any more was answered.     *)
(***************************************************************************)
LEMMA ListsSayWhatFailed ==
  ASSUME SpinnerInv, WaitsFit, [OverviewNext]_<<vars, overviewVars>>,
         "list" \in waiting \cup failed, "list" \notin waiting' \cup failed'
  PROVE  ListIsAnswered
<1>1. CASE \E r \in calls : SettleList(r)
  <2>1. PICK r \in calls : SettleList(r)
    BY <1>1
  <2>2. /\ r \in Records /\ r.status # "pending" /\ r.status # "failed"
        /\ r.kind = "list" /\ calls' = calls \ {r}
    BY <2>1, CallFacts DEF SettleList, ListSettles, ReceiveList, Settles
  <2>3. r.status = "answered"
    BY <2>2 DEF Records
  <2> QED
    BY <2>2, <2>3 DEF ListIsAnswered
<1>2. CASE RetryList \/ RefreshPage
  BY <1>2 DEF RetryList, ListStarts, RefreshPage
<1>3. CASE PageRest
  BY <1>3, OverviewAssumption
     DEF PageRest, TypeDraft, SettleProbe, overviewVars, WaitsFit
<1>4. CASE SubmitDraft \/ BackToPage \/ (\E id \in Spellings : OpenFromPage(id))
           \/ (\E r \in calls : SettleCreate(r)) \/ (Unseen /\ UNCHANGED overviewVars)
  BY <1>4 DEF SubmitDraft, BackToPage, OpenFromPage, SettleCreate, overviewVars
<1>5. CASE \E r \in calls : SettleDetail(r) \/ SettleApply(r)
  BY <1>5 DEF SettleDetail, SettleApply
<1> QED
  BY <1>1, <1>2, <1>3, <1>4, <1>5, PageSteps DEF PageStep

(***************************************************************************)
(* The page comes to say that there are no orders only by an answer that   *)
(* says so.                                                                *)
(***************************************************************************)
LEMMA NoFalseEmptyList ==
  ASSUME SpinnerInv, WaitsFit, PanelsFit, [OverviewNext]_<<vars, overviewVars>>,
         ~SaysNoOrders, SaysNoOrders'
  PROVE  ListIsAnswered
<1>1. CASE summaries' = summaries
  BY <1>1, ListsSayWhatFailed DEF SaysNoOrders
<1>2. CASE \E o \in Orders : summaries'[o] # Absent
  BY <1>2 DEF SaysNoOrders
<1>3. CASE RetryList
  BY <1>1, <1>3 DEF RetryList, view
<1> QED
  BY <1>1, <1>2, <1>3, SummariesMove, PageSteps DEF PageRest

IsClearing(r) == r.clears /\ IsOwn(r)

(***************************************************************************)
(* The list that a missing order makes necessary is of the selection it    *)
(* was missing in: it was waited for before, or the order is found missing *)
(* in this step.                                                           *)
(***************************************************************************)
LEMMA ClearingListsCome ==
  ASSUME SpinnerInv, WorkspaceStep \/ CreateOrder, NEW q \in calls', IsClearing(q)'
  PROVE  /\ generation' = generation /\ selected' = selected
         /\ \/ \E r \in calls : IsClearing(r)
            \/ ~StepElsewhere /\ \E r \in calls : IsTold(r) /\ IsMissing(r)
<1>0. generation \in Nat /\ \A r \in calls : r.generation \in Nat /\ r.generation <= generation
  BY DEF SpinnerInv, IndInv, Placed, WellFormed, Records, IsInPlace
<1>1. /\ q.clears /\ ~q.aborted /\ q.order = selected' /\ q.generation = generation'
  BY DEF IsClearing, IsOwn, IsCurrent
<1>2. ComesFrom(q) \/ (~StepElsewhere /\ \E r \in calls : IsTold(r) /\ IsMissing(r))
  <2>1. CASE WorkspaceStep
    BY <1>1, <2>1, WhereCallsComeFrom
  <2>2. CASE CreateOrder
    <3>1. q \in calls \/ \E g, c : q = Call("create", NoOrder, g, c, FALSE, FALSE)
      BY <2>2 DEF CreateOrder
    <3>2. \A g, c : ~Call("create", NoOrder, g, c, FALSE, FALSE).clears
      BY DEF Call
    <3> QED
      BY <1>1, <3>1, <3>2 DEF ComesFrom
  <2> QED
    BY <2>1, <2>2
<1>3. [Next]_vars
  BY DEF WorkspaceStep, StepElsewhere, Deliver, Next
<1>4. CASE ~StepElsewhere /\ \E r \in calls : IsTold(r) /\ IsMissing(r)
  BY <1>4 DEF IsTold, ReceiveDetail
<1>5. CASE ComesFrom(q)
  <2>1. PICK r \in calls : /\ r.clears /\ ~r.aborted
                           /\ r.order = selected' /\ r.generation = generation'
    <3>1. CASE q \in calls
      BY <1>1, <3>1
    <3>2. CASE \E r \in calls : IsServed(q, r)
      <4>1. PICK r \in calls : IsServed(q, r)
        BY <3>2
      <4>2. r.clears /\ ~r.aborted /\ r.generation = q.generation
        BY <1>1, <4>1 DEF IsServed
      <4>3. r.kind # "create"
        BY <4>2, CallFacts DEF IsSound
      <4> QED
        BY <1>1, <4>1, <4>2, <4>3 DEF IsServed
    <3> QED
      BY <1>1, <1>5, <3>1, <3>2 DEF ComesFrom
  <2>2. generation' = generation
    BY <1>0, <1>3, <2>1, GenerationMoves
  <2> QED
    BY <1>3, <2>1, <2>2, GenerationMoves DEF IsClearing, IsOwn, IsCurrent
<1> QED
  BY <1>2, <1>4, <1>5

SaysWhy == "detail" \in failed \/ detail # Nothing

(***************************************************************************)
(* Where the selection changes, nothing is cleared any more; where it does *)
(* not, it is enough that what was said is not taken back.                 *)
(***************************************************************************)
LEMMA ClearingListsAreTold ==
  ASSUME SpinnerInv, PanelsFit, WorkspaceStep \/ CreateOrder,
         \/ generation' # generation
         \/ SaysWhy => SaysWhy',
         StepElsewhere \/ ((\E r \in calls : IsTold(r) /\ IsMissing(r)) => SaysWhy')
  PROVE  \A q \in calls' : IsClearing(q)' => SaysWhy'
<1> SUFFICES ASSUME NEW q \in calls', IsClearing(q)'
             PROVE  SaysWhy'
  OBVIOUS
<1>1. /\ generation' = generation
      /\ \/ \E r \in calls : IsClearing(r)
         \/ ~StepElsewhere /\ \E r \in calls : IsTold(r) /\ IsMissing(r)
  BY ClearingListsCome
<1>2. (\E r \in calls : IsClearing(r)) => SaysWhy
  BY DEF PanelsFit, IsClearing, SaysWhy
<1> QED
  BY <1>1, <1>2

\* In the workspace, a spinner, an order or a word of what failed.
Waits == loading.detail
LeavesNothingUnsaid == selected # NoOrder => Waits \/ SaysWhy

(***************************************************************************)
(* What a step has to leave true of the panels.                            *)
(***************************************************************************)
LEMMA PanelsOfStep ==
  ASSUME PanelsFit, summaries' \in [Orders -> Int], LeavesNothingUnsaid',
         \A q \in calls' : IsClearing(q)' => SaysWhy'
  PROVE  PanelsFit'
<1>1. ~SaysUnavailable'
  BY DEF LeavesNothingUnsaid, Waits, SaysWhy, SaysUnavailable
<1>2. \A q \in calls' : q.clears /\ IsOwn(q)' => SaysWhy'
  BY DEF IsClearing
<1> QED
  BY <1>1, <1>2 DEF PanelsFit, SaysWhy

(***************************************************************************)
(* What the panels give a step to start from.                              *)
(***************************************************************************)
LEMMA PanelsNow ==
  ASSUME PanelsFit
  PROVE  LeavesNothingUnsaid /\ \A r \in calls : IsClearing(r) => SaysWhy
BY DEF PanelsFit, SaysUnavailable, LeavesNothingUnsaid, Waits, SaysWhy, IsClearing

(***************************************************************************)
(* What the page does around the order: where one is open, it says what    *)
(* failed, or waits.                                                       *)
(***************************************************************************)
LEMMA VisitsSayWhy ==
  ASSUME SpinnerInv, PanelsFit,
         \/ \E id \in Spellings : OpenFromPage(id)
         \/ BackToPage \/ RefreshPage \/ SubmitDraft
  PROVE  LeavesNothingUnsaid' /\ \A q \in calls' : IsClearing(q)' => SaysWhy'
<1>0. generation \in Nat /\ loading \in Flags
  BY DEF SpinnerInv, IndInv, Placed, WellFormed, FlagsFit
<1>1. ASSUME NEW o, NEW refresh, LoadWorkspaceOrder(o, refresh)
      PROVE  loading'.detail /\ generation' # generation
  BY <1>0, <1>1 DEF LoadWorkspaceOrder, Flags
<1>2. CASE \E id \in Spellings : OpenFromPage(id)
  <2>1. StepElsewhere /\ loading'.detail /\ generation' # generation
    BY <1>1, <1>2 DEF OpenFromPage, OpenOrder, StepElsewhere
  <2> QED
    BY <2>1, ClearingListsAreTold DEF WorkspaceStep, LeavesNothingUnsaid, Waits
<1>3. CASE BackToPage
  <2>1. StepElsewhere /\ selected' = NoOrder /\ generation' # generation
    BY <1>0, <1>3 DEF BackToPage, BackToOrders, LeaveOrder, StepElsewhere
  <2> QED
    BY <2>1, ClearingListsAreTold DEF WorkspaceStep, LeavesNothingUnsaid
<1>4. CASE RefreshPage /\ selected # NoOrder
  <2>1. StepElsewhere /\ loading'.detail /\ generation' # generation
    BY <1>1, <1>4 DEF RefreshPage, RefreshDashboard, StepElsewhere
  <2> QED
    BY <2>1, ClearingListsAreTold DEF WorkspaceStep, LeavesNothingUnsaid, Waits
<1>5. CASE RefreshPage /\ selected = NoOrder
  <2>1. /\ StepElsewhere /\ selected' = NoOrder /\ detail' = detail
        /\ "detail" \in failed => "detail" \in failed'
    BY <1>5 DEF RefreshPage, RefreshDashboard, StepElsewhere, view
  <2>2. SaysWhy => SaysWhy'
    BY <2>1 DEF SaysWhy
  <2> QED
    BY <2>1, <2>2, ClearingListsAreTold DEF WorkspaceStep, LeavesNothingUnsaid
<1>6. CASE SubmitDraft
  <2>1. /\ CreateOrder /\ selected = NoOrder /\ selected' = NoOrder
        /\ detail' = detail /\ failed' = failed
    BY <1>6 DEF SubmitDraft, CreateOrder
  <2>2. \A r \in calls : ~IsTold(r)
    BY <2>1, CallFacts, WorkspaceAssumption DEF IsTold, ReceiveDetail, Settles, IsCurrent
  <2>3. SaysWhy => SaysWhy'
    BY <2>1 DEF SaysWhy
  <2> QED
    BY <2>1, <2>2, <2>3, ClearingListsAreTold DEF LeavesNothingUnsaid
<1> QED
  BY <1>2, <1>3, <1>4, <1>5, <1>6

(***************************************************************************)
(* An answer that leaves the workspace where it is and the spinner of the  *)
(* order turning, if it did, leaves nothing unsaid.                        *)
(***************************************************************************)
LEMMA QuietStepsSayWhy ==
  ASSUME SpinnerInv, PanelsFit, StepElsewhere,
         selected' = selected, SaysWhy => SaysWhy',
         Waits => Waits' \/ SaysWhy'
  PROVE  LeavesNothingUnsaid' /\ \A q \in calls' : IsClearing(q)' => SaysWhy'
<1>1. LeavesNothingUnsaid'
  BY PanelsNow DEF LeavesNothingUnsaid
<1> QED
  BY <1>1, ClearingListsAreTold DEF WorkspaceStep

(***************************************************************************)
(* The answer of a list leaves a panel that tells, or an error.            *)
(* (refreshSummaries.)                                                     *)
(***************************************************************************)
LEMMA ListSaysWhy ==
  ASSUME SpinnerInv, PanelsFit, NEW r \in calls, SettleList(r)
  PROVE  LeavesNothingUnsaid' /\ \A q \in calls' : IsClearing(q)' => SaysWhy'
<1>1. /\ selected' = selected /\ detail' = detail /\ ReceiveList(r)
      /\ "detail" \in failed => "detail" \in failed'
  BY DEF SettleList, ReceiveList, ListSettles
<1>2. SaysWhy => SaysWhy'
  BY <1>1 DEF SaysWhy
<1>3. Waits => Waits' \/ SaysWhy'
  <2>1. CASE IsClearing(r)
    BY <1>2, <2>1, PanelsNow
  <2>2. CASE ~IsClearing(r)
    BY <1>1, <2>2 DEF ReceiveList, StopSpinner, IsClearing, IsOwn, Waits
  <2> QED
    BY <2>1, <2>2
<1>4. StepElsewhere
  BY <1>1 DEF StepElsewhere
<1> QED
  BY <1>1, <1>2, <1>3, <1>4, QuietStepsSayWhy

\* A load that ends for what is selected shows the order or says what failed.
LEMMA DetailSaysWhy ==
  ASSUME SpinnerInv, PanelsFit, NEW r \in calls, SettleDetail(r)
  PROVE  LeavesNothingUnsaid' /\ \A q \in calls' : IsClearing(q)' => SaysWhy'
<1>1. ReceiveDetail(r) /\ r.kind = "detail" /\ selected' = selected
  BY DEF SettleDetail, ReceiveDetail, Settles
<1>2. "detail" \in failed => "detail" \in failed'
  BY DEF SettleDetail
<1>3. detail # Nothing => detail' # Nothing
  BY <1>1, UpsertShows DEF ReceiveDetail
<1>4. SaysWhy => SaysWhy'
  BY <1>2, <1>3 DEF SaysWhy
<1>5. ~r.aborted /\ IsCurrent(r) => SaysWhy'
  <2>1. CASE IsFound(r)
    BY <1>1, <2>1, UpsertShows DEF ReceiveDetail, SaysWhy
  <2>2. CASE ~IsFound(r)
    BY <2>2 DEF SettleDetail, SaysWhy
  <2> QED
    BY <2>1, <2>2
<1>6. Waits => Waits' \/ SaysWhy'
  BY <1>1, <1>5 DEF ReceiveDetail, StopSpinner, Waits
<1>7. (\E q \in calls : IsTold(q) /\ IsMissing(q)) => SaysWhy'
  <2>1. ASSUME NEW q \in calls, IsTold(q), IsMissing(q), q # r PROVE FALSE
    <3>1. q \in calls' /\ q.kind = "detail"
      BY <1>1, <2>1 DEF ReceiveDetail, IsTold, Settles
    <3>2. \A p \in calls' : p \in calls \ {q} \/ p.kind = "list"
      <4> DEFINE l == Call("list", q.order, q.generation, q.controller, q.refresh, TRUE)
      <4>1. l.kind = "list"
        BY ListsAreLists
      <4>2. calls' \subseteq (calls \ {q}) \cup {l}
        BY <2>1 DEF IsTold, ReceiveDetail
      <4> HIDE DEF l
      <4> QED
        BY <4>1, <4>2
    <3> QED
      BY <3>1, <3>2
  <2> QED
    BY <1>5, <2>1 DEF IsTold
<1>8. LeavesNothingUnsaid'
  BY <1>1, <1>4, <1>6, PanelsNow DEF LeavesNothingUnsaid
<1> QED
  BY <1>1, <1>4, <1>7, <1>8, ClearingListsAreTold DEF WorkspaceStep

(***************************************************************************)
(* The answer of an apply leaves a panel that tells, or an error.          *)
(* (applyEventToSelectedOrder.)                                            *)
(***************************************************************************)
LEMMA ApplySaysWhy ==
  ASSUME SpinnerInv, PanelsFit, NEW r \in calls, SettleApply(r)
  PROVE  LeavesNothingUnsaid' /\ \A q \in calls' : IsClearing(q)' => SaysWhy'
<1>1. /\ ReceiveApplied(r) \/ ReceiveNotApplied(r)
      /\ r.kind = "apply" /\ StepElsewhere
  BY DEF SettleApply, ReceiveApplied, ReceiveNotApplied, Settles, StepElsewhere
<1>2. CASE IsCurrent(r) /\ IsFound(r)
  <2>1. selected' = selected /\ detail' = Answer(r)
    BY <1>1, <1>2 DEF ReceiveApplied, ReceiveNotApplied
  <2>2. SaysWhy'
    BY <1>1, <1>2, <2>1, UpsertShows DEF SaysWhy
  <2> QED
    BY <1>1, <2>1, <2>2, QuietStepsSayWhy
<1>3. CASE IsCurrent(r) /\ ~IsFound(r) /\ IsMissing(r)
  <2>1. selected' = NoOrder /\ generation' # generation
    <3>1. LeaveOrder
      BY <1>1, <1>3 DEF ReceiveApplied, ReceiveNotApplied
    <3>2. generation \in Nat
      BY DEF SpinnerInv, IndInv, Placed, WellFormed
    <3> QED
      BY <3>1, <3>2 DEF LeaveOrder
  <2> QED
    BY <1>1, <2>1, ClearingListsAreTold DEF WorkspaceStep, LeavesNothingUnsaid
<1>4. CASE ~IsCurrent(r) \/ (~IsFound(r) /\ ~IsMissing(r))
  <2>1. /\ selected' = selected /\ detail' = detail
        /\ loading' = loading \/ loading' = [loading EXCEPT !.event = FALSE]
    BY <1>1, <1>4 DEF ReceiveApplied, ReceiveNotApplied
  <2>2. failed' = failed
    BY <1>4 DEF SettleApply
  <2>3. (SaysWhy => SaysWhy') /\ (Waits => Waits')
    BY <2>1, <2>2 DEF SaysWhy, Waits, SpinnerInv, FlagsFit, Flags
  <2> QED
    BY <1>1, <2>1, <2>3, QuietStepsSayWhy
<1> QED
  BY <1>2, <1>3, <1>4

(***************************************************************************)
(* The answer of a creation leaves a panel that tells, or an error.        *)
(* (createNewOrder.)                                                       *)
(***************************************************************************)
LEMMA CreatedSaysWhy ==
  ASSUME SpinnerInv, PanelsFit, NEW r \in calls, SettleCreate(r)
  PROVE  LeavesNothingUnsaid' /\ \A q \in calls' : IsClearing(q)' => SaysWhy'
<1>1. /\ ReceiveCreated(r) \/ ReceiveNotCreated(r)
      /\ r.kind = "create" /\ StepElsewhere
  BY DEF SettleCreate, ReceiveCreated, ReceiveNotCreated, Settles, StepElsewhere
<1>2. CASE ReceiveCreated(r) /\ IsStillThere(r)
  <2>1. detail' = Answer(r) /\ IsFound(r) /\ generation' # generation
    BY <1>2 DEF ReceiveCreated, SpinnerInv, IndInv, Placed, WellFormed
  <2>2. SaysWhy'
    BY <1>1, <2>1, UpsertShows DEF SaysWhy
  <2> QED
    BY <2>2 DEF LeavesNothingUnsaid
<1>3. CASE ~(ReceiveCreated(r) /\ IsStillThere(r))
  <2>1. /\ selected' = selected /\ detail' = detail
        /\ loading' = [loading EXCEPT !.create = FALSE]
    BY <1>1, <1>3 DEF ReceiveCreated, ReceiveNotCreated
  <2>2. failed' = failed
    BY <2>1 DEF SettleCreate
  <2>3. (SaysWhy => SaysWhy') /\ (Waits => Waits')
    BY <2>1, <2>2 DEF SaysWhy, Waits, SpinnerInv, FlagsFit, Flags
  <2> QED
    BY <1>1, <2>1, <2>3, QuietStepsSayWhy
<1> QED
  BY <1>2, <1>3

(***************************************************************************)
(* A step the page does not see leaves its panels alone.                   *)
(***************************************************************************)
LEMMA UnseenSaysWhy ==
  ASSUME SpinnerInv, PanelsFit, Unseen, UNCHANGED overviewVars
  PROVE  LeavesNothingUnsaid' /\ \A q \in calls' : IsClearing(q)' => SaysWhy'
<1>1. StepElsewhere
  BY DEF Unseen, StepElsewhere
<1>2. loading \in Flags
  BY DEF SpinnerInv, FlagsFit
<1>3. selected' = selected /\ detail' = detail /\ (Waits => Waits')
  <2>1. CASE \/ Restart \/ (\E o \in Orders : Foreign(o))
             \/ \E r \in calls : ServeRead(r) \/ ServeApply(r) \/ ServeCreate(r) \/ Fail(r)
                                   \/ Cancel(r)
    BY <2>1 DEF Restart, Foreign, ServeRead, ServeApply, ServeCreate, Fail, Cancel, view, Waits
  <2>2. CASE RetryAvailableEvents \/ ApplyEvent
    BY <1>2, <2>2 DEF RetryAvailableEvents, ApplyEvent, Waits, Flags
  <2>3. CASE \E r \in calls : ReceiveEvents(r)
    BY <1>2, <2>3 DEF ReceiveEvents, StopSpinner, Waits, Flags
  <2> QED
    BY <2>1, <2>2, <2>3 DEF Unseen
<1>4. SaysWhy => SaysWhy'
  BY <1>3 DEF SaysWhy, overviewVars
<1> QED
  BY <1>1, <1>3, <1>4, QuietStepsSayWhy

\* The list that is loaded again is no list of a missing order.
LEMMA RestSaysWhy ==
  ASSUME SpinnerInv, PanelsFit, PageRest \/ RetryList
  PROVE  LeavesNothingUnsaid' /\ \A q \in calls' : IsClearing(q)' => SaysWhy'
<1>1. /\ generation' = generation /\ selected' = selected
      /\ detail' = detail /\ loading' = loading
  BY DEF PageRest, RetryList, vars, view
<1>2. "detail" \in failed => "detail" \in failed'
  BY DEF PageRest, RetryList, ListStarts, TypeDraft, SettleProbe, overviewVars
<1>3. (SaysWhy => SaysWhy') /\ (Waits => Waits')
  BY <1>1, <1>2 DEF SaysWhy, Waits
<1>4. LeavesNothingUnsaid'
  BY <1>1, <1>3, PanelsNow DEF LeavesNothingUnsaid
<1>5. ASSUME NEW q \in calls', IsClearing(q)' PROVE SaysWhy'
  <2>1. q \in calls \/ \E c : q = List(c, FALSE)
    BY DEF PageRest, RetryList, vars
  <2>2. q \in calls
    BY <1>5, <2>1, NewCallsAreLoads DEF IsClearing
  <2>3. IsClearing(q)
    BY <1>1, <1>5 DEF IsClearing, IsOwn, IsCurrent
  <2> QED
    BY <1>3, <2>2, <2>3, PanelsNow
<1> QED
  BY <1>4, <1>5

(***************************************************************************)
(* Every step of the page keeps the invariant of the panels.               *)
(***************************************************************************)
LEMMA StepKeepsPanels ==
  ASSUME SpinnerInv, PanelsFit, [OverviewNext]_<<vars, overviewVars>>
  PROVE  PanelsFit'
<1>1. summaries' \in [Orders -> Int]
  <2>1. CASE RetryList
    BY <2>1 DEF RetryList, view, PanelsFit
  <2> QED
    BY <2>1, PageSteps, SummariesMove DEF PageRest
<1>2. LeavesNothingUnsaid' /\ \A q \in calls' : IsClearing(q)' => SaysWhy'
  BY PageSteps, VisitsSayWhy, ListSaysWhy, DetailSaysWhy, ApplySaysWhy, CreatedSaysWhy,
     UnseenSaysWhy, RestSaysWhy DEF PageStep
<1> QED
  BY <1>1, <1>2, PanelsOfStep

(***************************************************************************)
(* The page starts with panels that wait.                                  *)
(***************************************************************************)
LEMMA InitPanels ==
  ASSUME OverviewInit
  PROVE  PanelsFit
<1>1. summaries \in [Orders -> Int]
  BY DEF OverviewInit, Init, Absent
<1>2. \A r \in calls : ~r.clears
  BY NewCallsAreLoads DEF OverviewInit, Init
<1> QED
  BY <1>1, <1>2 DEF OverviewInit, Init, PanelsFit, SaysUnavailable

(***************************************************************************)
(* No panel shows emptiness in place of a failure, whatever fails, is      *)
(* missing or arrives late. (OrderList.tsx 122; OrderDetail.tsx 44)        *)
(***************************************************************************)
THEOREM EmptinessIsTrue == OverviewSpec => NoFalseEmptiness
<1>1. OverviewInit => PageInv /\ PanelsFit
  BY InitAwaits, InitPanels
<1>2. PageInv /\ PanelsFit /\ [OverviewNext]_<<vars, overviewVars>> => (PageInv /\ PanelsFit)'
  BY PageSpins, StepAwaits, StepKeepsPanels DEF PageInv
<1>3. PageInv /\ PanelsFit /\ [OverviewNext]_<<vars, overviewVars>> =>
        [/\ ~SaysNoOrders /\ SaysNoOrders' =>
              \E r \in calls \ calls' : r.kind = "list" /\ r.status = "answered"
         /\ ~SaysUnavailable']_<<vars, overviewVars>>
  BY NoFalseEmptyList, StepKeepsPanels DEF PageInv, PanelsFit, ListIsAnswered
<1> QED
  BY <1>1, <1>2, <1>3, PTL DEF OverviewSpec, NoFalseEmptiness
=============================================================================
