--------------------------- MODULE OrdersOverview ---------------------------
(***************************************************************************)
(* What the page shows around the order, on top of OrderWorkspace: what it *)
(* waits for, what failed, and the form that creates an order.             *)
(* (frontend useOrdersOverview.ts, useOrders.ts, App.tsx, OrderList.tsx,   *)
(* OrderDetail.tsx, CreateOrderForm.tsx)                                   *)
(*                                                                         *)
(* Whether the API is up, the definition of the state machine and the      *)
(* feedback are only shown: that they are waited for is what matters here. *)
(***************************************************************************)
EXTENDS OrderWorkspace

CONSTANT Probed \* what is asked for besides the list: "health", "definition"

ASSUME OverviewAssumption == "list" \notin Probed

VARIABLES
  probes,  \* the calls for health and definition that have not settled
  waiting, \* what the page says it is waiting for: health, definition, list
  failed,  \* the panels that show an error: the list, the detail
  draft    \* the form for a new order, and the one whose order is being created

overviewVars == <<probes, waiting, failed, draft>>

\* At most two calls of a kind are in flight: that of the opening of the page
\* and that of the refresh the button waits for.
Probes(refresh) == [kind : Probed, refresh : {refresh}]

\* A form is named by the generation in which it came on the page; its text is
\* an order or nothing that passes validation.
NewForm(instance) == [instance |-> instance, complete |-> FALSE]

OverviewInit ==
  /\ Init
  /\ probes = Probes(FALSE)
  /\ waiting = Probed \cup {"list"}
  /\ failed = {}
  /\ draft = [form |-> NewForm(0), creating |-> -1]

-----------------------------------------------------------------------------
(* The list.  refreshSummaries takes back its last error when it starts; an *)
(* answer does not take back the error of another list.                    *)

ListStarts == waiting' = waiting \cup {"list"} /\ failed' = failed \ {"list"}

\* Mutant: the catch of refreshSummaries only rethrows.
ListSettlesSilently(r) == waiting' = waiting \ {"list"} /\ UNCHANGED failed

\* Mutant: the spinner is stopped after the answer instead of finally.
ListSettlesIfAnswered(r) ==
  IF r.status = "answered" THEN waiting' = waiting \ {"list"} /\ UNCHANGED failed
  ELSE failed' = failed \cup {"list"} /\ UNCHANGED waiting

ListSettles(r) ==
  /\ waiting' = waiting \ {"list"}
  /\ failed' = IF r.status = "failed" THEN failed \cup {"list"} ELSE failed

SettleList(r) == ReceiveList(r) /\ ListSettles(r) /\ UNCHANGED <<probes, draft>>

\* The list offers to be loaded again once it failed.
RetryList ==
  /\ Gesture("relist")
  /\ selected = NoOrder /\ "list" \in failed
  /\ calls' = calls \cup {List(gestures + 1, FALSE)}
  /\ ListStarts
  /\ UNCHANGED <<server, view, probes, draft>>

-----------------------------------------------------------------------------
(* Health and definition depend on nothing but their answer.               *)

SettleProbe(p) ==
  /\ probes' = probes \ {p} /\ waiting' = waiting \ {p.kind}
  /\ UNCHANGED <<vars, failed, draft>>

\* refreshDashboard: the button waits for health and definition, too.
RefreshPage ==
  /\ RefreshDashboard
  /\ \A p \in probes : ~p.refresh
  /\ probes' = probes \cup Probes(TRUE)
  /\ waiting' = Probed \cup {"list"}
  /\ failed' = failed \ (IF selected = NoOrder THEN {"list"} ELSE {"list", "detail"})
  /\ UNCHANGED draft

-----------------------------------------------------------------------------
(* The form that creates an order.                                         *)

\* The form is on the page while no order is selected, and comes back empty.
FormShown(form) == IF selected' = selected THEN form ELSE NewForm(generation')

Switches == draft' = [draft EXCEPT !.form = FormShown(@)] /\ UNCHANGED probes

\* Typing is no gesture of those that are bounded.
TypeDraft ==
  /\ "create" \in Gestures /\ selected = NoOrder
  /\ draft' = [draft EXCEPT !.form.complete = ~@]
  /\ UNCHANGED <<vars, probes, waiting, failed>>

\* Validation refuses anything else before anything is called.
SubmitDraft ==
  /\ CreateOrder /\ draft.form.complete
  /\ draft' = [draft EXCEPT !.creating = draft.form.instance]
  /\ UNCHANGED <<probes, waiting, failed>>

\* Mutant: a creation settles in the form that is on the page.
IsAnyForm(form) == TRUE

IsOwnForm(form) == form.instance = draft.creating

\* The form that created the order is emptied: if it is not on the page any more,
\* nothing happens to the one that is.
SettleCreate(r) ==
  /\ ReceiveCreated(r) \/ ReceiveNotCreated(r)
  /\ LET isEmptied == IsFound(r) /\ IsOwnForm(draft.form)
         form == [draft.form EXCEPT !.complete = @ /\ ~isEmptied]
     IN  draft' = [form |-> FormShown(form), creating |-> -1]
  /\ failed' = IF selected' = selected THEN failed ELSE failed \ {"detail"}
  /\ UNCHANGED <<probes, waiting>>

-----------------------------------------------------------------------------
(* The order in the workspace.                                             *)

OpenFromPage(id) ==
  /\ OpenOrder(id) /\ Switches
  /\ failed' = failed \ {"detail"} /\ UNCHANGED waiting

BackToPage ==
  /\ BackToOrders /\ Switches
  /\ failed' = failed \ {"detail"} /\ UNCHANGED waiting

\* A load that was aborted or is stale says nothing of its failure; the list is
\* loaded again, with what it says, when the order is missing.
SettleDetail(r) ==
  /\ ReceiveDetail(r)
  /\ LET IsTold == ~IsFound(r) /\ ~r.aborted /\ IsCurrent(r)
     IN  IF IsTold /\ IsMissing(r)
         THEN failed' = (failed \cup {"detail"}) \ {"list"} /\ waiting' = waiting \cup {"list"}
         ELSE failed' = (IF IsTold THEN failed \cup {"detail"} ELSE failed) /\ UNCHANGED waiting
  /\ UNCHANGED <<probes, draft>>

\* A missing order takes the user back to the list, which is loaded again.
SettleApply(r) ==
  /\ ReceiveApplied(r) \/ ReceiveNotApplied(r)
  /\ CASE ~IsCurrent(r) -> UNCHANGED <<waiting, failed>>
       [] IsCurrent(r) /\ IsFound(r) -> failed' = failed \ {"detail"} /\ UNCHANGED waiting
       [] IsCurrent(r) /\ IsMissing(r) ->
            failed' = failed \ {"detail", "list"} /\ waiting' = waiting \cup {"list"}
       [] OTHER -> UNCHANGED <<waiting, failed>>
  /\ Switches

Unseen ==
  \/ \E o \in Orders : Foreign(o)
  \/ Restart \/ RetryAvailableEvents \/ ApplyEvent
  \/ \E r \in calls :
       \/ ServeRead(r) \/ ServeApply(r) \/ ServeCreate(r) \/ Fail(r) \/ Cancel(r)
       \/ ReceiveEvents(r)

OverviewNext ==
  \/ \E id \in Spellings : OpenFromPage(id)
  \/ BackToPage \/ RefreshPage \/ RetryList
  \/ TypeDraft \/ SubmitDraft
  \/ \E r \in calls : SettleList(r) \/ SettleDetail(r) \/ SettleApply(r) \/ SettleCreate(r)
  \/ \E p \in probes : SettleProbe(p)
  \/ Unseen /\ UNCHANGED overviewVars
  \/ Rest /\ UNCHANGED overviewVars

OverviewSpec == OverviewInit /\ [][OverviewNext]_<<vars, overviewVars>>

-----------------------------------------------------------------------------
(* What the panels say when they have nothing to show *)

SaysNoOrders ==
  (\A o \in Orders : summaries[o] = Absent) /\ "list" \notin waiting \cup failed

\* "Order unavailable", without a word of what failed.
SaysUnavailable ==
  selected # NoOrder /\ detail = Nothing /\ ~loading.detail /\ "detail" \notin failed

-----------------------------------------------------------------------------
(* Properties *)

\* What turns or says "Checking" on the page stands for a call in flight: also
\* after refreshes, retries and the lists that missing orders make necessary have
\* overtaken each other, nothing waits for ever.  (finally blocks, useOrdersOverview.ts)
OverviewSpinnersHaveCalls ==
  /\ EverySpinnerHasItsCall
  /\ "list" \in waiting => \E r \in calls : r.kind = "list"
  /\ waiting \ {"list"} \subseteq {p.kind : p \in probes}

\* A panel never shows emptiness in place of a failure: the list says that there
\* are no orders only from an answer that has none on, and a workspace without
\* its order says what failed.  (OrderList.tsx 122; OrderDetail.tsx 44)
NoFalseEmptiness ==
  [][/\ ~SaysNoOrders /\ SaysNoOrders' =>
          \E r \in calls \ calls' : r.kind = "list" /\ r.status = "answered"
     /\ ~SaysUnavailable']_<<vars, overviewVars>>

\* No answer changes what is typed for the next order: the creation of an earlier
\* one, whose form was left and came back, empties its own form only.
\* (CreateOrderForm.tsx 56; App.tsx 100)
DraftSurvives ==
  [][selected = NoOrder /\ selected' = NoOrder /\ calls' # calls =>
       draft'.form.complete = draft.form.complete]_<<vars, overviewVars>>
=============================================================================
