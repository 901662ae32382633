------------------------------ MODULE EventForm ------------------------------
(***************************************************************************)
(* The form that applies an event to the order in the workspace, on top of *)
(* OrderWorkspace: what it offers, what is chosen and typed in it, when it *)
(* is there at all, and what becomes of a submission.                      *)
(* (frontend EventForm.tsx, availableEventPresentation.ts)                 *)
(*                                                                         *)
(* The form is a component of its own with state React keeps as long as    *)
(* some order is shown; it begins empty each time one is shown after none. *)
(***************************************************************************)
EXTENDS OrderWorkspace, SequencesExt

CONSTANTS StoredState,  \* the lifecycle state of an order stored at the start
          ForeignEvents \* the events other clients apply

Lifecycle == INSTANCE StateMachineDefinition

ASSUME FormAssumption ==
  StoredState \in Lifecycle!States /\ ForeignEvents \subseteq Lifecycle!Events

VARIABLES
  path,          \* the states of each order, one for each of its versions
  hasDefinition, \* whether the definition of the state machine was loaded
  form,          \* the form, if there is one
  requests       \* what each event call in flight asks, by its controller

formVars == <<path, hasDefinition, form, requests>>

\* What may be typed as metadata: nothing, an object that asks for a review of
\* the payment, or no JSON object.
Texts == {"{}", "review", "broken"}

\* for: the order shown when something was last chosen or typed, if anything was.
EmptyForm(instance) ==
  [instance |-> instance, event |-> "", metadata |-> "{}", error |-> FALSE,
   for |-> NoOrder]

FormInit ==
  /\ Init
  /\ path = [o \in Orders |-> IF o \in Stored THEN <<StoredState>> ELSE <<>>]
  /\ hasDefinition = FALSE
  /\ form = EmptyForm(0)
  /\ requests = <<>>

-----------------------------------------------------------------------------
(* What the form shows *)

StateAt(shown) == path[shown.order][shown.version + 1]

AvailableEvents == [state \in Lifecycle!States |-> Lifecycle!AvailableEventList(state)]

Offered == IF events = Nothing THEN <<>> ELSE AvailableEvents[StateAt(events)]

\* The transitions of the definition, and the states none of them leaves.
Definition == ToSet(Lifecycle!TransitionDefinitions)
EndStates  == Lifecycle!States \ {t.fromState : t \in Definition}

\* Where the definition says an event leads from a state.
Targets == [state \in Lifecycle!States |-> [event \in Lifecycle!Events |->
  {t.toState : t \in {u \in Definition : u.fromState = state /\ u.eventType = event}}]]

EndsOrder(state, event) == Targets[state][event] \subseteq EndStates

\* Mutant: the form keeps the order of the API.
AsOffered(availableEvents, currentState) == availableEvents

\* Events that end the order come last.  Until the definition is there, or when
\* some event is none of the state shown, the order of the API is kept.
OrderAvailableEventsForDisplay(availableEvents, currentState) ==
  IF \/ ~hasDefinition
     \/ \E event \in ToSet(availableEvents) : Targets[currentState][event] = {}
  THEN availableEvents
  ELSE LET ends == {event \in ToSet(availableEvents) : EndsOrder(currentState, event)}
       IN Lifecycle!Among(availableEvents, ToSet(availableEvents) \ ends)
            \o Lifecycle!Among(availableEvents, ends)

DisplayEvents ==
  IF detail = Nothing THEN <<>> ELSE OrderAvailableEventsForDisplay(Offered, StateAt(detail))

\* The event chosen, while it is offered, and otherwise the first one.
SelectedEventValue ==
  IF form.event \in ToSet(DisplayEvents) THEN form.event ELSE DisplayEvents[1]

\* Mutant: what is still loaded is taken for none.
SaysEndWhileLoading == detail # Nothing /\ ~eventsError /\ Offered = <<>>

SaysEnd == detail # Nothing /\ ~loading.events /\ ~eventsError /\ Offered = <<>>

IsShown == detail # Nothing /\ ~loading.events /\ ~eventsError /\ Offered # <<>>

-----------------------------------------------------------------------------
(* What the user does in the form *)

Touch(g) ==
  /\ Gesture(g) /\ IsShown
  /\ UNCHANGED <<server, calls, view, path, hasDefinition, requests>>

ChooseEvent(event) ==
  /\ Touch("choose") /\ ~loading.event
  /\ event \in ToSet(DisplayEvents)
  /\ form' = [form EXCEPT !.event = event, !.for = detail.order]

\* The text may also be changed while an event is being applied.
TypeMetadata(text) ==
  /\ Touch("type") /\ text # form.metadata
  /\ form' = [form EXCEPT !.metadata = text, !.for = detail.order]

\* parseMetadata throws before anything is called.
SubmitBroken ==
  /\ Touch("apply") /\ ~loading.event
  /\ form.metadata = "broken"
  /\ form' = [form EXCEPT !.error = TRUE]

Submit ==
  /\ ApplyEvent /\ IsShown
  /\ form.metadata # "broken"
  /\ form' = [form EXCEPT !.error = FALSE]
  /\ requests' = [c \in DOMAIN requests \cup {gestures'} |->
       IF c # gestures' THEN requests[c]
       ELSE [event |-> SelectedEventValue, metadata |-> form.metadata,
             instance |-> form.instance, for |-> form.for]]
  /\ UNCHANGED <<path, hasDefinition>>

-----------------------------------------------------------------------------
(* The API moves an order along the lifecycle. *)

\* A review turns a successful payment into a hold (default_rules.json).
Leads(state, event, metadata) ==
  IF event = "paymentSuccessful" /\ metadata = "review" THEN "OnHold"
  ELSE Lifecycle!NextState(state, event)

Moves(o, event, metadata) ==
  /\ Contains(AvailableEvents[Last(path[o])], event)
  /\ path' = [path EXCEPT ![o] = Append(@, Leads(Last(@), event, metadata))]

ForeignEvent(o, event) ==
  /\ Foreign(o) /\ Moves(o, event, "{}")
  /\ UNCHANGED <<hasDefinition, form, requests>>

\* An event that the state does not take is refused: the call fails.
ServeEvent(r) ==
  /\ ServeApply(r)
  /\ LET asked == requests[r.controller]
     IN IF Exists(r.order) THEN Moves(r.order, asked.event, asked.metadata)
        ELSE UNCHANGED path
  /\ UNCHANGED <<hasDefinition, form, requests>>

ServeNewOrder(r) ==
  /\ ServeCreate(r)
  /\ path' = [o \in Orders |-> IF server'[o] # server[o] THEN <<"Pending">> ELSE path[o]]
  /\ UNCHANGED <<hasDefinition, form, requests>>

-----------------------------------------------------------------------------
(* What becomes of the form *)

\* Mutant: the form is never taken from the page.
KeptForm == form

\* It is there while an order is shown, and an order shown after none has a new one.
FormAfter ==
  CASE detail' = Nothing -> EmptyForm(0)
    [] detail' # Nothing /\ detail = Nothing -> EmptyForm(gestures')
    [] OTHER -> form

Rendered == form' = FormAfter /\ UNCHANGED <<path, hasDefinition>>

\* A submission that failed says so in the form it came from, if it is still there.
FormAfterFailure(instance) ==
  IF detail' # Nothing /\ form.instance = instance
  THEN [form EXCEPT !.error = TRUE] ELSE FormAfter

SettleEvent(r) ==
  /\ \/ ReceiveApplied(r) /\ form' = FormAfter
     \/ ReceiveNotApplied(r) /\ form' = FormAfterFailure(requests[r.controller].instance)
  /\ requests' = [c \in DOMAIN requests \ {r.controller} |-> requests[c]]
  /\ UNCHANGED <<path, hasDefinition>>

\* The state machine is asked for when the page is opened, and answers any time.
ReceiveDefinition ==
  /\ ~hasDefinition /\ hasDefinition' = TRUE
  /\ UNCHANGED <<vars, path, form, requests>>

Elsewhere ==
  \/ \E id \in Spellings : OpenOrder(id)
  \/ BackToOrders \/ RefreshDashboard \/ RetryAvailableEvents \/ CreateOrder
  \/ Restart
  \/ \E r \in calls :
       \/ ServeRead(r) \/ Fail(r) \/ Cancel(r)
       \/ ReceiveList(r) \/ ReceiveDetail(r) \/ ReceiveEvents(r)
       \/ ReceiveCreated(r) \/ ReceiveNotCreated(r)

FormNext ==
  \/ \E event \in Lifecycle!Events : ChooseEvent(event)
  \/ \E text \in Texts : TypeMetadata(text)
  \/ Submit \/ SubmitBroken
  \/ \E o \in Orders, event \in ForeignEvents : ForeignEvent(o, event)
  \/ \E r \in calls : ServeEvent(r) \/ ServeNewOrder(r) \/ SettleEvent(r)
  \/ ReceiveDefinition
  \/ Elsewhere /\ Rendered /\ UNCHANGED requests
  \/ Rest /\ UNCHANGED formVars

FormSpec == FormInit /\ [][FormNext]_<<vars, formVars>>

-----------------------------------------------------------------------------
(* Properties *)

\* The page says that no further transitions are available only of an order that
\* has ended: not while the events are loaded, when they could not be, or when
\* they are those of another order.  (EventForm.tsx 128; useOrderWorkspace.ts 126)
EndIsReal ==
  SaysEnd => Last(path[detail.order]) \in EndStates

\* What was chosen or typed for an order is kept while that order is shown, and
\* is never there for another one or sent to it.  (App.tsx 63; EventForm.tsx 53)
DraftStaysWithOrder ==
  /\ form.for \in {NoOrder, detail.order}
  /\ \A r \in calls : r.kind = "apply" => requests[r.controller].for \in {NoOrder, r.order}

\* A user who only presses the button ends no order that could go on: where the
\* events are those of the state shown, one that ends it is selected only if it
\* was chosen, or if there is no other.  (orderAvailableEventsForDisplay)
EndsOnlyByChoice ==
  IsShown /\ hasDefinition /\ detail.version = events.version =>
    LET state == StateAt(detail)
    IN EndsOrder(state, SelectedEventValue) =>
         \/ form.event = SelectedEventValue
         \/ \A event \in ToSet(Offered) : EndsOrder(state, event)
=============================================================================
