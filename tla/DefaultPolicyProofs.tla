------------------------ MODULE DefaultPolicyProofs -------------------------
(***************************************************************************)
(* What holds of every order for any rules (its types, the audit trail),   *)
(* and for the default rules whatever the amounts and the metadata (paid   *)
(* before processing, a repeated event refused, tickets for exactly the    *)
(* failed payments, amounts that replay the history).                      *)
(*                                                                         *)
(* The audit trail is inductive together with the types.  The promises on  *)
(* states follow from it and from one more invariant: an override only     *)
(* ever sends a successful payment to OnHold.  The promises on tickets and *)
(* amounts need what the default rules come to, which the folds of the     *)
(* rule engine compute: FoldFacts unrolls them, instantiated with the step *)
(* of each.                                                                *)
(*                                                                         *)
(* Last come the promises of the page's journey: what it draws of an order *)
(* is a function of the order, so that they follow from the types and the  *)
(* audit trail once the lists it is made of are known.                     *)
(***************************************************************************)
EXTENDS DefaultPolicy, JourneyPolicy, OrderServiceProofs, FiniteSetTheorems,
        SequenceTheorems

-----------------------------------------------------------------------------
(* Types *)

(***************************************************************************)
(* Orders are opened and advanced to orders, and every ticket is of an     *)
(* opened order, for any rules. (order_service.py create_order,            *)
(* apply_event.)                                                           *)
(***************************************************************************)
THEOREM LedgerTypes == Spec => []TypeOK
<1>1. Init => TypeOK
  BY DEF Init, TypeOK, Opened
<1>2. TypeOK /\ [Next]_vars => TypeOK'
  <2> SUFFICES ASSUME TypeOK, [Next]_vars
               PROVE  TypeOK'
    OBVIOUS
  <2> USE ServiceAssumption
  <2>1. ASSUME NEW o \in OrderIds, NEW amount \in Amounts,
               NEW count \in ProductCounts, Open(o, amount, count)
        PROVE  TypeOK'
    <3>1. NewOrder(amount, count) \in Order
      BY NewOrderIsOrder
    <3>2. orders' \in [OrderIds -> Order \cup {None}]
      BY <2>1, <3>1 DEF Open, TypeOK
    <3>3. Opened \subseteq Opened'
      BY <2>1 DEF Open, TypeOK, Opened
    <3> QED
      BY <2>1, <3>2, <3>3 DEF Open, TypeOK
  <2>2. ASSUME NEW o \in OrderIds, NEW r \in Requests, NEW id \in RequestIds,
               Advance(o, id, r.event, r.metadata)
        PROVE  TypeOK'
    <3> DEFINE context == Context(orders[o], r.event, r.metadata)
    <3>1. orders[o] \in Order /\ IsEnabled(orders[o].state, r.event)
      BY <2>2 DEF Advance, Accepts, TypeOK
    <3>2. UpdatedOrder(id, context) \in Order
      BY <3>1, UpdatedOrderIsOrder, LedgerAssumption
    <3>3. /\ orders' = [orders EXCEPT ![o] = UpdatedOrder(id, context)]
          /\ tickets' = tickets \cup SupportTickets(id, o, context)
      BY <2>2 DEF Advance
    <3> HIDE DEF context
    <3>4. orders' \in [OrderIds -> Order \cup {None}]
      BY <3>2, <3>3 DEF TypeOK
    <3>5. o \in Opened' /\ Opened \subseteq Opened'
      BY <3>2, <3>3 DEF TypeOK, Opened
    <3>6. \A k \in SupportTickets(id, o, context) : k.id = id /\ k.order = o
      BY DEF SupportTickets
    <3> QED
      BY <3>3, <3>4, <3>5, <3>6 DEF TypeOK
  <2>3. CASE UNCHANGED vars
    BY <2>3 DEF vars, TypeOK, Opened
  <2> QED
    BY <2>1, <2>2, <2>3 DEF Next
<1> QED
  BY <1>1, <1>2, PTL DEF Spec

-----------------------------------------------------------------------------
(* The audit trail *)

\* The promise of one entry and the state it was recorded in.
EntryFollows(entry, state) ==
  /\ entry.from = state
  /\ \/ <<entry.from, entry.event, entry.to>> \in Transitions
     \/ \E v \in entry.override :
          /\ v.final = entry.to
          /\ <<entry.from, entry.event, v.proposed>> \in Transitions

StateAfter(history, i) == IF i = 0 THEN "Pending" ELSE history[i].to

Chained(order) ==
  /\ order.version = Len(order.history)
  /\ order.state = StateAfter(order.history, Len(order.history))
  /\ \A i \in DOMAIN order.history :
       EntryFollows(order.history[i], StateAfter(order.history, i - 1))

(***************************************************************************)
(* The audit trail, said order by order.                                   *)
(***************************************************************************)
LEMMA ChainOfEach == HistoryIsChain <=> \A o \in Opened : Chained(orders[o])
BY DEF HistoryIsChain, Chained, EntryFollows, StateAfter

(***************************************************************************)
(* The same of the next state.                                             *)
(***************************************************************************)
LEMMA ChainOfEachNext == HistoryIsChain' <=> \A o \in Opened' : Chained(orders'[o])
BY DEF HistoryIsChain, Chained, EntryFollows, StateAfter

(***************************************************************************)
(* get_next_state takes the row of the table. (state_machine.py.)          *)
(***************************************************************************)
LEMMA NextStateIsRow ==
  ASSUME NEW s, NEW e, IsEnabled(s, e)
  PROVE  <<s, e, NextState(s, e)>> \in Transitions
<1>1. \A t \in Transitions : t = <<t[1], t[2], t[3]>>
  BY DEF Transitions, SpecificTransitions, UserCancellationTransitions
<1>2. Rows(s, e) # {}
  BY DEF IsEnabled
<1>3. PICK t \in Rows(s, e) : NextState(s, e) = t[3]
  BY <1>2 DEF NextState
<1> QED
  BY <1>1, <1>3 DEF Rows

(***************************************************************************)
(* The entry of an accepted event follows the state of its order: where    *)
(* the engine overrides the table, the entry names the override.           *)
(* (order_service.py apply_event, _build_event_metadata.)                  *)
(***************************************************************************)
LEMMA EntryFollowsOrder ==
  ASSUME NEW order, NEW event, NEW metadata, NEW id,
         IsEnabled(order.state, event)
  PROVE  LET entry == EventEntry(id, Context(order, event, metadata))
         IN  EntryFollows(entry, order.state)
<1> DEFINE context == Context(order, event, metadata)
           entry == EventEntry(id, context)
<1>1. /\ context.fromState = order.state
      /\ context.eventType = event
      /\ context.proposedState = NextState(order.state, event)
  BY DEF Context
<1> HIDE DEF context
<1>2. <<context.fromState, context.eventType, context.proposedState>> \in Transitions
  BY <1>1, NextStateIsRow
<1>3. /\ entry.from = context.fromState
      /\ entry.event = context.eventType
      /\ entry.to = FinalState(context)
      /\ entry.override = IF FinalStateOverrides(context) = {} THEN {}
                          ELSE {[proposed |-> context.proposedState,
                                 final    |-> FinalState(context)]}
  BY DEF EventEntry
<1> HIDE DEF entry
<1>4. ASSUME FinalStateOverrides(context) = {}
      PROVE  EntryFollows(entry, order.state)
  BY <1>1, <1>2, <1>3, <1>4 DEF EntryFollows, FinalState
<1>5. ASSUME FinalStateOverrides(context) # {}
      PROVE  EntryFollows(entry, order.state)
  <2> DEFINE v == [proposed |-> context.proposedState, final |-> FinalState(context)]
  <2>1. v \in entry.override /\ v.final = entry.to /\ v.proposed = context.proposedState
    BY <1>3, <1>5
  <2> QED
    BY <1>1, <1>2, <1>3, <2>1 DEF EntryFollows
<1> QED
  BY <1>4, <1>5 DEF entry, context

(***************************************************************************)
(* An accepted event keeps the chain: its entry is the last, and leads to  *)
(* the new state. (order_service.py apply_event.)                          *)
(***************************************************************************)
LEMMA UpdateKeepsChain ==
  ASSUME NEW order \in Order, NEW event, NEW metadata, NEW id,
         Chained(order), IsEnabled(order.state, event)
  PROVE  Chained(UpdatedOrder(id, Context(order, event, metadata)))
<1> DEFINE context == Context(order, event, metadata)
           entry   == EventEntry(id, context)
           updated == UpdatedOrder(id, context)
           h       == order.history
<1>1. EntryFollows(entry, order.state)
  BY EntryFollowsOrder
<1>2. context.order = order
  BY DEF Context
<1> HIDE DEF context
<1>3. entry.to = FinalState(context)
  BY DEF EventEntry
<1> HIDE DEF entry
<1>4. /\ updated.state = FinalState(context)
      /\ updated.version = order.version + 1
      /\ updated.history = Append(h, entry)
  BY <1>2 DEF UpdatedOrder, entry
<1> HIDE DEF updated
<1>5. h \in Seq(Entry) /\ order.version \in Nat
  BY DEF Order
<1> HIDE DEF h
<1>6. /\ Len(updated.history) = Len(h) + 1
      /\ \A i \in 1 .. Len(h) : updated.history[i] = h[i]
      /\ updated.history[Len(h) + 1] = entry
      /\ DOMAIN updated.history = 1 .. Len(h) + 1
      /\ DOMAIN h = 1 .. Len(h)
      /\ Len(h) \in Nat
  BY <1>4, <1>5
<1>7. \A i \in 0 .. Len(h) : StateAfter(updated.history, i) = StateAfter(h, i)
  BY <1>6 DEF StateAfter
<1>8. order.version = Len(h) /\ order.state = StateAfter(h, Len(h))
      /\ \A i \in 1 .. Len(h) : EntryFollows(h[i], StateAfter(h, i - 1))
  BY <1>6 DEF Chained, h
<1>9. ASSUME NEW i \in DOMAIN updated.history
      PROVE  EntryFollows(updated.history[i], StateAfter(updated.history, i - 1))
  <2>1. CASE i = Len(h) + 1
    BY <1>1, <1>6, <1>7, <1>8, <2>1
  <2>2. CASE i \in 1 .. Len(h)
    <3>1. updated.history[i] = h[i] /\ i - 1 \in 0 .. Len(h)
      BY <1>6, <2>2
    <3> QED
      BY <1>7, <1>8, <2>2, <3>1
  <2> QED
    BY <1>6, <2>1, <2>2
<1>10. updated.version = Len(updated.history)
  BY <1>4, <1>6, <1>8
<1>11. updated.state = StateAfter(updated.history, Len(updated.history))
  BY <1>3, <1>4, <1>6 DEF StateAfter
<1> QED
  BY <1>9, <1>10, <1>11 DEF Chained, updated, context

(***************************************************************************)
(* The audit trail holds for any rules: the history leads event by event   *)
(* from Pending to the current state, the version counts it, and an entry  *)
(* that leaves the transition table names its override.                    *)
(* (order_service.py apply_event.)                                         *)
(***************************************************************************)
THEOREM AuditTrail == Spec => []HistoryIsChain
<1>1. Init => HistoryIsChain
  BY ChainOfEach DEF Init, Opened
<1>2. TypeOK /\ HistoryIsChain /\ [Next]_vars => HistoryIsChain'
  <2> SUFFICES ASSUME TypeOK, HistoryIsChain, [Next]_vars,
                      NEW p \in Opened'
               PROVE  Chained(orders'[p])
    BY ChainOfEachNext
  <2>0. p \in OrderIds /\ orders'[p] # None
    BY DEF Opened
  <2>1. orders[p] # None => Chained(orders[p])
    BY <2>0, ChainOfEach DEF Opened
  <2>2. orders'[p] = orders[p] => Chained(orders'[p])
    BY <2>0, <2>1
  <2>3. ASSUME NEW o \in OrderIds, NEW amount \in Amounts,
               NEW count \in ProductCounts, Open(o, amount, count)
        PROVE  Chained(orders'[p])
    <3>1. Chained(NewOrder(amount, count))
      BY DEF Chained, NewOrder, StateAfter
    <3> QED
      BY <2>0, <2>2, <2>3, <3>1 DEF Open, TypeOK
  <2>4. ASSUME NEW o \in OrderIds, NEW r \in Requests, NEW id \in RequestIds,
               Advance(o, id, r.event, r.metadata)
        PROVE  Chained(orders'[p])
    <3>1. orders[o] \in Order /\ IsEnabled(orders[o].state, r.event)
      BY <2>4 DEF Advance, Accepts, TypeOK
    <3>2. orders' = [orders EXCEPT ![o] =
                       UpdatedOrder(id, Context(orders[o], r.event, r.metadata))]
      BY <2>4 DEF Advance
    <3>3. CASE p = o
      <4>1. Chained(orders[o])
        BY <2>1, <2>4, <3>3 DEF Advance
      <4> QED
        BY <2>0, <3>1, <3>2, <3>3, <4>1, UpdateKeepsChain DEF TypeOK
    <3>4. CASE p # o
      BY <2>0, <2>2, <3>2, <3>4 DEF TypeOK
    <3> QED
      BY <3>3, <3>4
  <2>5. CASE UNCHANGED vars
    BY <2>2, <2>5 DEF vars
  <2> QED
    BY <2>3, <2>4, <2>5 DEF Next
<1> QED
  BY <1>1, <1>2, LedgerTypes, PTL DEF Spec

-----------------------------------------------------------------------------
(* The default rules *)

(***************************************************************************)
(* Of the three default rules only the last overrides: it sends successful *)
(* payments to OnHold. (default_rules.json.)                               *)
(***************************************************************************)
LEMMA DefaultActions ==
  /\ DOMAIN DefaultRules = 1 .. 3
  /\ \A i \in 1 .. 2 : \A a \in Range(DefaultRules[i].actions) : a.type # "SET_FINAL_STATE"
  /\ \A a \in Range(DefaultRules[3].actions) : a.state = "OnHold"
  /\ DefaultRules[3].eventType = "paymentSuccessful"
<1>1. DOMAIN DefaultRules = 1 .. 3
  BY DEF DefaultRules
<1>2. DefaultRules[3].eventType = "paymentSuccessful"
  BY DEF DefaultRules
<1>3. ASSUME NEW a \in Range(DefaultRules[1].actions)
      PROVE  a.type = "CREATE_SUPPORT_TICKET"
  <2> DEFINE ticket == [type   |-> "CREATE_SUPPORT_TICKET",
                        reason |-> "High-value order payment failed"]
  <2>1. DefaultRules[1].actions = <<ticket>>
    BY DEF DefaultRules
  <2> HIDE DEF ticket
  <2>2. a = ticket
    BY <1>3, <2>1 DEF Range
  <2> QED
    BY <2>2 DEF ticket
<1>4. ASSUME NEW a \in Range(DefaultRules[2].actions)
      PROVE  a.type \in {"ADD_TAX", "ADD_FIXED_COST"}
  <2> DEFINE tax  == [type |-> "ADD_TAX", percentage |-> 10]
             cost == [type |-> "ADD_FIXED_COST", amount |-> 25]
  <2>1. DefaultRules[2].actions = <<tax, cost>>
    BY DEF DefaultRules
  <2> HIDE DEF tax, cost
  <2>2. a \in {tax, cost}
    BY <1>4, <2>1 DEF Range
  <2> QED
    BY <2>2 DEF tax, cost
<1>5. ASSUME NEW a \in Range(DefaultRules[3].actions)
      PROVE  a.state = "OnHold"
  <2> DEFINE hold == [type |-> "SET_FINAL_STATE", state |-> "OnHold"]
  <2>1. DefaultRules[3].actions = <<hold>>
    BY DEF DefaultRules
  <2> HIDE DEF hold
  <2>2. a = hold
    BY <1>5, <2>1 DEF Range
  <2> QED
    BY <2>2 DEF hold
<1>6. \A i \in 1 .. 2 : i = 1 \/ i = 2
  OBVIOUS
<1> QED
  BY <1>1, <1>2, <1>3, <1>4, <1>5, <1>6

(***************************************************************************)
(* The only override the default rules ask for sends a successful payment  *)
(* to OnHold. (default_rules.json, manual-review-payment-success.)         *)
(***************************************************************************)
LEMMA DefaultOverrides ==
  ASSUME Rules = DefaultRules, NEW context
  PROVE  /\ FinalStateOverrides(context) \subseteq {"OnHold"}
         /\ FinalStateOverrides(context) # {} => context.eventType = "paymentSuccessful"
<1>1. ASSUME NEW s \in FinalStateOverrides(context)
      PROVE  s = "OnHold" /\ context.eventType = "paymentSuccessful"
  <2>1. PICK i \in MatchedRuleNumbers(context) :
          \E a \in Range(Rules[i].actions) : a.type = "SET_FINAL_STATE" /\ s = a.state
    BY DEF FinalStateOverrides
  <2>2. i \in DOMAIN DefaultRules /\ DefaultRules[i].eventType = context.eventType
    BY DEF MatchedRuleNumbers, IndexedRules
  <2>3. i = 3
    BY DefaultActions, <2>1, <2>2
  <2> QED
    BY DefaultActions, <2>1, <2>2, <2>3
<1> QED
  BY <1>1

IsReview(entry) ==
  \A v \in entry.override :
    v.final = "OnHold" /\ entry.event = "paymentSuccessful"

OverridesAreReviews ==
  \A o \in Opened : \A i \in DOMAIN orders[o].history : IsReview(orders[o].history[i])

(***************************************************************************)
(* So is every override on record: part of the inductive invariant of the  *)
(* two promises below. (default_rules.json, apply_event.)                  *)
(***************************************************************************)
LEMMA ReviewsOnly ==
  ASSUME Rules = DefaultRules
  PROVE  Spec => []OverridesAreReviews
<1>1. Init => OverridesAreReviews
  BY DEF Init, OverridesAreReviews, Opened
<1>2. TypeOK /\ OverridesAreReviews /\ [Next]_vars => OverridesAreReviews'
  <2> SUFFICES ASSUME TypeOK, OverridesAreReviews, [Next]_vars,
                      NEW p \in OrderIds, orders'[p] # None,
                      NEW i \in DOMAIN orders'[p].history
               PROVE  IsReview(orders'[p].history[i])
    BY DEF OverridesAreReviews, Opened, IsReview
  <2>1. orders'[p] = orders[p] => IsReview(orders'[p].history[i])
    BY DEF OverridesAreReviews, Opened
  <2>2. ASSUME NEW o \in OrderIds, NEW amount \in Amounts,
               NEW count \in ProductCounts, Open(o, amount, count)
        PROVE  IsReview(orders'[p].history[i])
    <3>1. DOMAIN NewOrder(amount, count).history = {}
      BY DEF NewOrder
    <3> QED
      BY <2>1, <2>2, <3>1 DEF Open, TypeOK
  <2>3. ASSUME NEW o \in OrderIds, NEW r \in Requests, NEW id \in RequestIds,
               Advance(o, id, r.event, r.metadata)
        PROVE  IsReview(orders'[p].history[i])
    <3> DEFINE context == Context(orders[o], r.event, r.metadata)
               entry   == EventEntry(id, context)
               h       == orders[o].history
    <3>1. orders[o] \in Order
      BY <2>3 DEF Advance, TypeOK
    <3>2. orders' = [orders EXCEPT ![o] = UpdatedOrder(id, context)]
      BY <2>3 DEF Advance
    <3>3. UpdatedOrder(id, context).history = Append(h, entry)
      BY DEF UpdatedOrder, Context
    <3>4. IsReview(entry)
      BY DefaultOverrides DEF EventEntry, IsReview, FinalState
    <3>5. CASE p = o
      <4> HIDE DEF context, entry
      <4>1. orders'[p].history = Append(h, entry) /\ h \in Seq(Entry)
        BY <3>1, <3>2, <3>3, <3>5 DEF TypeOK, Order
      <4>2. \A j \in DOMAIN h : IsReview(h[j])
        BY <3>1, ServiceAssumption DEF OverridesAreReviews, Opened
      <4> HIDE DEF h
      <4>3. \/ i \in DOMAIN h /\ orders'[p].history[i] = h[i]
            \/ orders'[p].history[i] = entry
        BY <4>1
      <4> QED
        BY <3>4, <4>2, <4>3
    <3>6. CASE p # o
      BY <2>1, <3>2, <3>6 DEF TypeOK
    <3> QED
      BY <3>5, <3>6
  <2>4. CASE UNCHANGED vars
    BY <2>1, <2>4 DEF vars
  <2> QED
    BY <2>2, <2>3, <2>4 DEF Next
<1> QED
  BY <1>1, <1>2, LedgerTypes, PTL DEF Spec

(***************************************************************************)
(* No event is enabled in the state it leads to, and a payment is never    *)
(* enabled on hold. (state_machine.py, the transition table.)              *)
(***************************************************************************)
LEMMA NoEventTwice ==
  /\ \A t \in Transitions : ~IsEnabled(t[3], t[2])
  /\ ~IsEnabled("OnHold", "paymentSuccessful")
BY DEF IsEnabled, Rows, Transitions, SpecificTransitions,
       UserCancellationTransitions, CancellableStates

(***************************************************************************)
(* With the default rules, whatever the amounts and the metadata, a        *)
(* repeated request is refused: no event is enabled where it led.          *)
(* (order_service.py apply_event, state_machine.py get_next_state.)        *)
(***************************************************************************)
THEOREM RepeatsRefused ==
  ASSUME Rules = DefaultRules
  PROVE  Spec => []RepeatedEventIsRefused
<1>1. TypeOK /\ HistoryIsChain /\ OverridesAreReviews => RepeatedEventIsRefused
  <2> SUFFICES ASSUME TypeOK, HistoryIsChain, OverridesAreReviews,
                      NEW o \in Opened, orders[o].history # <<>>
               PROVE  LET h == orders[o].history
                      IN  ~IsEnabled(orders[o].state, h[Len(h)].event)
    BY DEF RepeatedEventIsRefused
  <2> DEFINE h == orders[o].history
             last == h[Len(h)]
  <2>1. h \in Seq(Entry)
    BY DEF Opened, TypeOK, Order
  <2>2. Len(h) \in DOMAIN h /\ Len(h) # 0
    BY <2>1
  <2>3. orders[o].state = last.to /\ EntryFollows(last, StateAfter(h, Len(h) - 1))
    BY <2>2, ChainOfEach DEF Chained, StateAfter
  <2>4. IsReview(last)
    BY <2>2 DEF OverridesAreReviews
  <2> HIDE DEF last
  <2>5. ~IsEnabled(last.to, last.event)
    <3>1. CASE <<last.from, last.event, last.to>> \in Transitions
      BY <3>1, NoEventTwice
    <3>2. CASE \E v \in last.override : v.final = last.to
      BY <2>4, <3>2, NoEventTwice DEF IsReview
    <3> QED
      BY <2>3, <3>1, <3>2 DEF EntryFollows
  <2> QED
    BY <2>3, <2>5 DEF last
<1> QED
  BY <1>1, LedgerTypes, AuditTrail, ReviewsOnly, PTL

(***************************************************************************)
(* With the default rules an order is processed only after a payment of    *)
(* its latest wait for one: the step before Processing led to Confirmed,   *)
(* and only a successful payment does that. (state_machine.py,             *)
(* default_rules.json.)                                                    *)
(***************************************************************************)
THEOREM PaidFirst ==
  ASSUME Rules = DefaultRules
  PROVE  Spec => []PaidBeforeProcessing
<1>1. /\ \A t \in Transitions : t[3] = "Processing" => t[1] = "Confirmed"
      /\ \A t \in Transitions : t[3] = "Confirmed" => t[2] = "paymentSuccessful"
  BY DEF Transitions, SpecificTransitions, UserCancellationTransitions
<1>2. TypeOK /\ HistoryIsChain /\ OverridesAreReviews => PaidBeforeProcessing
  <2> SUFFICES ASSUME TypeOK, HistoryIsChain, OverridesAreReviews,
                      NEW o \in Opened, NEW i \in DOMAIN orders[o].history,
                      orders[o].history[i].to = "Processing"
               PROVE  LET h == orders[o].history
                      IN \E j \in 1 .. i - 1 :
                           /\ h[j].event = "paymentSuccessful"
                           /\ \A k \in j .. i - 1 :
                                h[k].to \notin {"Pending", "OnHold", "PendingPayment"}
    BY DEF PaidBeforeProcessing
  <2> DEFINE h == orders[o].history
  <2>1. h \in Seq(Entry)
    BY DEF Opened, TypeOK, Order
  <2>2. \A k \in DOMAIN h : IsReview(h[k]) /\ EntryFollows(h[k], StateAfter(h, k - 1))
    BY ChainOfEach DEF OverridesAreReviews, Chained
  <2> HIDE DEF h
  <2>3. ASSUME NEW k \in DOMAIN h, h[k].to \in {"Processing", "Confirmed"}
        PROVE  <<h[k].from, h[k].event, h[k].to>> \in Transitions
    BY <2>2, <2>3 DEF EntryFollows, IsReview
  <2>4. h[i].to = "Processing" /\ i \in DOMAIN h
    BY DEF h
  <2>5. StateAfter(h, i - 1) = "Confirmed"
    BY <1>1, <2>2, <2>3, <2>4 DEF EntryFollows
  <2>6. i - 1 \in DOMAIN h /\ h[i - 1].to = "Confirmed"
    BY <2>1, <2>4, <2>5 DEF StateAfter
  <2>7. h[i - 1].event = "paymentSuccessful"
    BY <1>1, <2>3, <2>6
  <2>8. i - 1 \in 1 .. i - 1 /\ \A k \in i - 1 .. i - 1 : k = i - 1
    BY <2>1, <2>4, <2>6
  <2>9. \E j \in 1 .. i - 1 :
          /\ h[j].event = "paymentSuccessful"
          /\ \A k \in j .. i - 1 :
               h[k].to \notin {"Pending", "OnHold", "PendingPayment"}
    BY <2>6, <2>7, <2>8
  <2> QED
    BY <2>9 DEF h
<1> QED
  BY <1>2, LedgerTypes, AuditTrail, ReviewsOnly, PTL

-----------------------------------------------------------------------------
(* What the default rules come to *)

\* The steps of the folds of RuleEngine.
ListStep(numbers, state, list, i) ==
  IF i \in numbers
  THEN list \o [j \in 1 .. Cardinality({k \in DOMAIN Rules[i].fromStates :
                                          Rules[i].fromStates[k] = state})
                  |-> Rules[i]]
  ELSE list

ActionStep(p, q, actions, rule) == actions \o rule.actions

TotalStep(type, quantity, sum, action) ==
  IF action.type = type THEN sum + action[quantity] ELSE sum

DraftStep(rule, q, drafts, action) ==
  IF action.type = "CREATE_SUPPORT_TICKET"
  THEN Append(drafts, [rule |-> rule.id, reason |-> action.reason])
  ELSE drafts

Listing  == INSTANCE FoldFacts WITH Op <- ListStep
Acting   == INSTANCE FoldFacts WITH Op <- ActionStep
Totaling == INSTANCE FoldFacts WITH Op <- TotalStep
Drafting == INSTANCE FoldFacts WITH Op <- DraftStep

RuleStep(p, q, drafts, rule) == Drafting!Fold(rule, q, drafts, rule.actions)
Collecting == INSTANCE FoldFacts WITH Op <- RuleStep

(***************************************************************************)
(* The rule list of a state, the actions of the matched rules, their       *)
(* totals and their ticket drafts are the folds of these steps.            *)
(* (rule_engine.py _build_index, evaluate.)                                *)
(***************************************************************************)
LEMMA FoldsOfTheEngine ==
  /\ \A numbers, state :
       RuleList(numbers, state)
         = Listing!Fold(numbers, state, <<>>, [i \in DOMAIN Rules |-> i])
  /\ \A context : MatchedActions(context) = Acting!Fold(0, 0, <<>>, MatchedRules(context))
  /\ \A context, type, quantity :
       Total(context, type, quantity)
         = Totaling!Fold(type, quantity, 0, MatchedActions(context))
  /\ \A context : TicketDrafts(context) = Collecting!Fold(0, 0, <<>>, MatchedRules(context))
<1>1. ASSUME NEW numbers, NEW state
      PROVE  RuleList(numbers, state)
         = Listing!Fold(numbers, state, <<>>, [i \in DOMAIN Rules |-> i])
  BY DEF RuleList, Listing!Fold, ListStep, FoldLeft, MapThenFoldSet, Max,
         Listing!FoldLeft, Listing!MapThenFoldSet, Listing!Max
<1>2. ASSUME NEW context
      PROVE  MatchedActions(context) = Acting!Fold(0, 0, <<>>, MatchedRules(context))
  BY DEF MatchedActions, Acting!Fold, ActionStep, FoldLeft, MapThenFoldSet, Max,
         Acting!FoldLeft, Acting!MapThenFoldSet, Acting!Max
<1>3. ASSUME NEW context, NEW type, NEW quantity
      PROVE  Total(context, type, quantity)
         = Totaling!Fold(type, quantity, 0, MatchedActions(context))
  BY DEF Total, Totaling!Fold, TotalStep, FoldLeft, MapThenFoldSet, Max,
         Totaling!FoldLeft, Totaling!MapThenFoldSet, Totaling!Max
<1>4. ASSUME NEW context
      PROVE  TicketDrafts(context) = Collecting!Fold(0, 0, <<>>, MatchedRules(context))
  BY DEF TicketDrafts, Collecting!Fold, RuleStep, Drafting!Fold, DraftStep,
         FoldLeft, MapThenFoldSet, Max,
         Drafting!FoldLeft, Drafting!MapThenFoldSet, Drafting!Max,
         Collecting!FoldLeft, Collecting!MapThenFoldSet, Collecting!Max
<1> QED
  BY <1>1, <1>2, <1>3, <1>4

(***************************************************************************)
(* The fields of the three default rules the engine reads to index and to  *)
(* match them. (default_rules.json.)                                       *)
(***************************************************************************)
LEMMA DefaultRuleFields ==
  /\ DOMAIN DefaultRules = 1 .. 3
  /\ \A i \in 1 .. 3 : DefaultRules[i].enabled = TRUE
  /\ DefaultRules[1].eventType = "paymentFailed" /\ DefaultRules[1].fromStates = <<"Pending">>
  /\ DefaultRules[1].condition = <<HighValue>>
  /\ \A i \in 2 .. 3 : /\ DefaultRules[i].eventType = "paymentSuccessful"
                       /\ DefaultRules[i].fromStates = <<"PendingPayment">>
<1>1. DOMAIN DefaultRules = 1 .. 3 /\ DefaultRules[1].enabled = TRUE
      /\ DefaultRules[2].enabled = TRUE /\ DefaultRules[3].enabled = TRUE
  <2>1. /\ DefaultRules[1].enabled = TRUE
        /\ DefaultRules[2].enabled = TRUE /\ DefaultRules[3].enabled = TRUE
    BY Zenon DEF DefaultRules
  <2>2. DOMAIN DefaultRules = 1 .. 3
    BY DEF DefaultRules
  <2> QED
    BY <2>1, <2>2
<1>2. /\ DefaultRules[1].eventType = "paymentFailed"
      /\ DefaultRules[2].eventType = "paymentSuccessful"
      /\ DefaultRules[3].eventType = "paymentSuccessful"
  BY DEF DefaultRules
<1>3. /\ DefaultRules[1].fromStates = <<"Pending">>
      /\ DefaultRules[2].fromStates = <<"PendingPayment">>
      /\ DefaultRules[3].fromStates = <<"PendingPayment">>
  BY DEF DefaultRules
<1>4. DefaultRules[1].condition = <<HighValue>>
  BY DEF DefaultRules
<1>5. \A i \in 1 .. 3 : i = 1 \/ i = 2 \/ i = 3
  OBVIOUS
<1>6. \A i \in 2 .. 3 : i = 2 \/ i = 3
  OBVIOUS
<1> QED
  BY <1>1, <1>2, <1>3, <1>4, <1>5, <1>6

(***************************************************************************)
(* A list of one state names it once.                                      *)
(***************************************************************************)
LEMMA NamedOnce ==
  ASSUME NEW s
  PROVE  Cardinality({k \in DOMAIN <<s>> : <<s>>[k] = s}) = 1
<1>1. {k \in DOMAIN <<s>> : <<s>>[k] = s} = {1}
  OBVIOUS
<1> QED
  BY <1>1, FS_Singleton

(***************************************************************************)
(* Under the default rules the matched rules are those of the numbers that *)
(* match, once each and in the order of the file. (rule_engine.py          *)
(* _build_index, evaluate.)                                                *)
(***************************************************************************)
LEMMA MatchedRulesOfDefault ==
  ASSUME Rules = DefaultRules, NEW c
  PROVE  LET matched == MatchedRuleNumbers(c)
             part(i) == IF i \in matched THEN <<DefaultRules[i]>> ELSE <<>>
         IN MatchedRules(c) = (part(1) \o part(2)) \o part(3)
<1> DEFINE matched == MatchedRuleNumbers(c)
           state == c.fromState
           numbers == [i \in DOMAIN Rules |-> i]
           part(i) == IF i \in matched THEN <<DefaultRules[i]>> ELSE <<>>
<1>1. \A i \in matched : i \in 1 .. 3 /\ state \in Range(DefaultRules[i].fromStates)
  BY DefaultRuleFields DEF MatchedRuleNumbers, IndexedRules
<1>2. numbers = <<1, 2, 3>>
  BY DefaultRuleFields
<1>3. ASSUME NEW i \in matched
      PROVE  Cardinality({k \in DOMAIN Rules[i].fromStates :
                            Rules[i].fromStates[k] = state}) = 1
  <2>1. PICK name : DefaultRules[i].fromStates = <<name>>
    BY <1>1, DefaultRuleFields
  <2>2. state = name
    BY <1>1, <2>1 DEF Range
  <2> QED
    BY <2>1, <2>2, NamedOnce
<1> DEFINE S == {DefaultRules[k] : k \in 1 .. 3}
<1> HIDE DEF matched, S
<1>4. ASSUME NEW i \in 1 .. 3
      PROVE  part(i) \in Seq(S) /\ [j \in 1 .. 1 |-> DefaultRules[i]] = <<DefaultRules[i]>>
  <2>1. DefaultRules[i] \in S
    BY DEF S
  <2>2. ASSUME NEW r \in S
        PROVE  <<r>> \in Seq(S) /\ <<>> \in Seq(S) /\ [j \in 1 .. 1 |-> r] = <<r>>
    OBVIOUS
  <2> QED
    BY <2>1, <2>2
<1>5. ASSUME NEW i \in 1 .. 3, NEW list \in Seq(S)
      PROVE  ListStep(matched, state, list, i) = list \o part(i) /\ list \o part(i) \in Seq(S)
  <2> HIDE DEF state
  <2>1. part(i) \in Seq(S) /\ list \o part(i) \in Seq(S)
    <3>1. part(i) \in Seq(S)
      BY <1>4
    <3> HIDE DEF part
    <3> QED
      BY <3>1
  <2>2. CASE i \in matched
    <3> DEFINE copies == [j \in 1 .. Cardinality({k \in DOMAIN Rules[i].fromStates :
                                                   Rules[i].fromStates[k] = state})
                            |-> Rules[i]]
    <3>1. copies = part(i)
      BY <1>3, <1>4, <2>2
    <3>2. ListStep(matched, state, list, i) = list \o copies
      BY <2>2 DEF ListStep
    <3> HIDE DEF copies, part
    <3> QED
      BY <2>1, <3>1, <3>2
  <2>3. CASE i \notin matched
    <3>1. list \o <<>> = list
      OBVIOUS
    <3>2. part(i) = <<>>
      BY <2>3
    <3>3. ListStep(matched, state, list, i) = list
      BY <2>3 DEF ListStep
    <3> HIDE DEF part
    <3> QED
      BY <2>1, <3>1, <3>2, <3>3
  <2> QED
    BY <2>2, <2>3
<1>6. MatchedRules(c) = ListStep(matched, state, ListStep(matched, state,
                          ListStep(matched, state, <<>>, 1), 2), 3)
  <2>1. MatchedRules(c) = Listing!Fold(matched, state, <<>>, numbers)
    BY FoldsOfTheEngine DEF MatchedRules, matched
  <2> HIDE DEF state, numbers
  <2> QED
    BY <1>2, <2>1, Listing!FoldThree
<1>7. MatchedRules(c) = (part(1) \o part(2)) \o part(3)
  <2>1. <<>> \o part(1) = part(1) /\ <<>> \in Seq(S)
    BY <1>4
  <2> HIDE DEF part, state
  <2>2. ListStep(matched, state, <<>>, 1) = part(1) /\ part(1) \in Seq(S)
    BY <1>4, <1>5, <2>1, 1 \in 1 .. 3, Zenon
  <2>3. /\ ListStep(matched, state, part(1), 2) = part(1) \o part(2)
        /\ part(1) \o part(2) \in Seq(S)
    BY <1>5, <2>2, 2 \in 1 .. 3, Zenon
  <2>4. ListStep(matched, state, part(1) \o part(2), 3) = (part(1) \o part(2)) \o part(3)
    BY <1>5, <2>3, 3 \in 1 .. 3, Zenon
  <2> QED
    BY <1>6, <2>2, <2>3, <2>4
<1> QED
  BY <1>7 DEF matched

-----------------------------------------------------------------------------
(* The conditions of the default rules *)

\* An amount the first two rules apply to.
IsHighValue(c) == c.order.amount \notin {Infinity, NaN} /\ c.order.amount > 1000

\* The successful payments the second rule matches.
IsSurcharged(c) ==
  /\ c.eventType = "paymentSuccessful" /\ c.fromState = "PendingPayment"
  /\ IsHighValue(c)
  /\ "destinationCountry" \in DOMAIN c.metadata /\ c.metadata.destinationCountry = "US"

\* The failed payments the first rule matches.
IsFailedHighValue(c) ==
  c.eventType = "paymentFailed" /\ c.fromState = "Pending" /\ IsHighValue(c)

(***************************************************************************)
(* The condition the first two default rules share holds of the bounded    *)
(* amounts above 1000. (default_rules.json, rule_engine.py                 *)
(* _evaluate_condition.)                                                   *)
(***************************************************************************)
LEMMA HighValueHolds ==
  ASSUME NEW c
  PROVE  ConditionHolds(HighValue, c) <=> IsHighValue(c)
BY DEF ConditionHolds, HighValue, IsHighValue, Resolve, IsFinite, IsMissing, MetadataFields

\* The evaluation of a condition tree, node by node.
HoldsFor(f, condition, true) ==
  f = [n \in DOMAIN condition |->
         IF condition[n].type = "CONDITION" THEN n \in true
         ELSE IF condition[n].operator = "AND"
              THEN \A c \in condition[n].children : f[c]
              ELSE \E c \in condition[n].children : f[c]]

(***************************************************************************)
(* The root of a condition tree holds when the evaluation of the tree says *)
(* so.                                                                     *)
(***************************************************************************)
LEMMA RootUnfolds ==
  ASSUME NEW condition, NEW true
  PROVE  RootHolds(condition, true) = (CHOOSE f : HoldsFor(f, condition, true))[1]
BY DEF RootHolds, HoldsFor

(***************************************************************************)
(* A tree that is a single condition holds when the condition does.        *)
(***************************************************************************)
LEMMA LeafHolds ==
  ASSUME NEW node, node.type = "CONDITION", NEW true
  PROVE  RootHolds(<<node>>, true) <=> 1 \in true
<1> DEFINE condition == <<node>>
           f == [n \in {1} |-> n \in true]
           g == CHOOSE h : HoldsFor(h, condition, true)
<1>1. DOMAIN condition = {1} /\ condition[1] = node
  OBVIOUS
<1> HIDE DEF condition
<1>2. HoldsFor(f, condition, true)
  BY <1>1 DEF HoldsFor
<1> HIDE DEF f
<1>3. HoldsFor(g, condition, true)
  BY <1>2
<1> HIDE DEF g
<1>4. g[1] <=> 1 \in true
  BY <1>1, <1>3 DEF HoldsFor
<1> QED
  BY <1>4, RootUnfolds DEF condition, g

(***************************************************************************)
(* An AND over two conditions holds when both do.                          *)
(***************************************************************************)
LEMMA AllHold ==
  ASSUME NEW root, root.type = "GROUP", root.operator = "AND", root.children = {2, 3},
         NEW a, NEW b, a.type = "CONDITION", b.type = "CONDITION", NEW true
  PROVE  RootHolds(<<root, a, b>>, true) <=> 2 \in true /\ 3 \in true
<1> DEFINE condition == <<root, a, b>>
           f == [n \in 1 .. 3 |-> IF n = 1 THEN 2 \in true /\ 3 \in true ELSE n \in true]
           g == CHOOSE h : HoldsFor(h, condition, true)
<1>1. /\ DOMAIN condition = 1 .. 3
      /\ condition[1] = root /\ condition[2] = a /\ condition[3] = b
  OBVIOUS
<1> HIDE DEF condition
<1>2. HoldsFor(f, condition, true)
  <2>1. /\ f = [n \in 1 .. 3 |-> f[n]] /\ 1 \in 1 .. 3 /\ 2 \in 1 .. 3 /\ 3 \in 1 .. 3
        /\ \A n \in 1 .. 3 : n = 1 \/ n = 2 \/ n = 3
    OBVIOUS
  <2>2. (f[2] <=> 2 \in true) /\ (f[3] <=> 3 \in true)
    <3>1. \A n \in 1 .. 3 : f[n] = IF n = 1 THEN 2 \in true /\ 3 \in true ELSE n \in true
      BY Zenon
    <3>2. 2 # 1 /\ 3 # 1 /\ 2 \in 1 .. 3 /\ 3 \in 1 .. 3
      OBVIOUS
    <3> HIDE DEF f
    <3> QED
      BY <3>1, <3>2, Zenon
  <2>3. f[1] <=> \A c \in {2, 3} : f[c]
    BY <2>2
  <2>4. f[1] \in BOOLEAN /\ f[2] \in BOOLEAN /\ f[3] \in BOOLEAN
    OBVIOUS
  <2> HIDE DEF f
  <2> DEFINE rhs(n) == IF condition[n].type = "CONDITION" THEN n \in true
                       ELSE IF condition[n].operator = "AND"
                            THEN \A c \in condition[n].children : f[c]
                            ELSE \E c \in condition[n].children : f[c]
  <2>5. (f[1] <=> rhs(1)) /\ (f[2] <=> rhs(2)) /\ (f[3] <=> rhs(3))
    BY <1>1, <2>2, <2>3
  <2>6. rhs(1) \in BOOLEAN /\ rhs(2) \in BOOLEAN /\ rhs(3) \in BOOLEAN
    <3>1. ASSUME NEW n, condition[n].type = "CONDITION"
          PROVE  rhs(n) = (n \in true)
      BY <3>1
    <3>2. rhs(1) = (\A c \in {2, 3} : f[c])
      BY <1>1
    <3>3. rhs(2) = (2 \in true) /\ rhs(3) = (3 \in true)
      BY <1>1, <3>1
    <3>4. (2 \in true) \in BOOLEAN /\ (3 \in true) \in BOOLEAN
          /\ (\A c \in {2, 3} : f[c]) \in BOOLEAN
      OBVIOUS
    <3> HIDE DEF rhs
    <3> QED
      BY <3>2, <3>3, <3>4
  <2>7. f = [n \in 1 .. 3 |-> rhs(n)]
    <3> HIDE DEF rhs
    <3>1. f[1] = rhs(1) /\ f[2] = rhs(2) /\ f[3] = rhs(3)
      BY <2>4, <2>5, <2>6
    <3> QED
      BY <2>1, <3>1
  <2> QED
    BY <1>1, <2>7 DEF HoldsFor
<1> HIDE DEF f
<1>3. HoldsFor(g, condition, true)
  BY <1>2
<1> HIDE DEF g
<1>4. ASSUME NEW n \in DOMAIN condition
      PROVE  g[n] = IF condition[n].type = "CONDITION" THEN n \in true
                    ELSE IF condition[n].operator = "AND"
                         THEN \A c \in condition[n].children : g[c]
                         ELSE \E c \in condition[n].children : g[c]
  BY <1>3, Zenon DEF HoldsFor
<1>5. 1 \in DOMAIN condition /\ 2 \in DOMAIN condition /\ 3 \in DOMAIN condition
  BY <1>1
<1>6. (g[2] <=> 2 \in true) /\ (g[3] <=> 3 \in true)
  BY <1>1, <1>4, <1>5
<1>7. g[1] <=> (\A c \in {2, 3} : g[c])
  BY <1>1, <1>4, <1>5
<1> QED
  BY <1>6, <1>7, RootUnfolds DEF condition, g

\* The two other nodes of the surcharge's condition.
UsDestination ==
  [type |-> "CONDITION", field |-> "destinationCountry", operator |-> "EQUALS", value |-> "US"]

AllOf == [type |-> "GROUP", operator |-> "AND", children |-> {2, 3}]

(***************************************************************************)
(* The second condition of the surcharge holds of the metadata that names  *)
(* the US. (default_rules.json.)                                           *)
(***************************************************************************)
LEMMA UsDestinationHolds ==
  ASSUME NEW c
  PROVE  ConditionHolds(UsDestination, c) <=>
           "destinationCountry" \in DOMAIN c.metadata /\ c.metadata.destinationCountry = "US"
BY DEF ConditionHolds, UsDestination, Resolve, IsMissing, MetadataFields

(***************************************************************************)
(* Which default rules match: the ticket for a failed payment of high      *)
(* value, the surcharge for a successful one of high value to the US, the  *)
(* hold only for a successful payment.                                     *)
(***************************************************************************)
LEMMA MatchedByDefault ==
  ASSUME Rules = DefaultRules, NEW c
  PROVE  /\ MatchedRuleNumbers(c) \subseteq 1 .. 3
         /\ 1 \in MatchedRuleNumbers(c) <=> IsFailedHighValue(c)
         /\ 2 \in MatchedRuleNumbers(c) <=> IsSurcharged(c)
         /\ 3 \in MatchedRuleNumbers(c) => c.eventType = "paymentSuccessful"
<1>1. \A i : i \in MatchedRuleNumbers(c) <=>
        /\ i \in 1 .. 3 /\ DefaultRules[i].eventType = c.eventType
        /\ c.fromState \in Range(DefaultRules[i].fromStates)
        /\ Matches(DefaultRules[i].condition, c)
  BY DefaultRuleFields DEF MatchedRuleNumbers, IndexedRules
<1>2. \A s, t : s \in Range(<<t>>) <=> s = t
  BY DEF Range
<1>3. Matches(DefaultRules[1].condition, c) <=> IsHighValue(c)
  <2>1. HighValue.type = "CONDITION"
    BY DEF HighValue
  <2>2. 1 \in TrueConditions(<<HighValue>>, c) <=> ConditionHolds(HighValue, c)
    BY <2>1 DEF TrueConditions
  <2> QED
    BY <2>1, <2>2, LeafHolds, HighValueHolds, DefaultRuleFields DEF Matches
<1>4. Matches(DefaultRules[2].condition, c) <=>
        /\ IsHighValue(c)
        /\ "destinationCountry" \in DOMAIN c.metadata /\ c.metadata.destinationCountry = "US"
  <2>1. DefaultRules[2].condition = <<AllOf, HighValue, UsDestination>>
    BY DEF DefaultRules, AllOf, UsDestination
  <2>2. /\ HighValue.type = "CONDITION" /\ UsDestination.type = "CONDITION"
        /\ AllOf.type = "GROUP" /\ AllOf.operator = "AND" /\ AllOf.children = {2, 3}
    BY DEF HighValue, UsDestination, AllOf
  <2> DEFINE condition == <<AllOf, HighValue, UsDestination>>
             true == TrueConditions(condition, c)
  <2>3. /\ 2 \in DOMAIN condition /\ condition[2] = HighValue
        /\ 3 \in DOMAIN condition /\ condition[3] = UsDestination
    OBVIOUS
  <2>4. /\ 2 \in true <=> ConditionHolds(HighValue, c)
        /\ 3 \in true <=> ConditionHolds(UsDestination, c)
    <3> HIDE DEF condition
    <3> QED
      BY <2>2, <2>3 DEF TrueConditions
  <2>5. RootHolds(condition, true) <=> 2 \in true /\ 3 \in true
    <3> HIDE DEF true
    <3> QED
      BY <2>2, AllHold
  <2>6. Matches(DefaultRules[2].condition, c) <=> 2 \in true /\ 3 \in true
    BY <2>1, <2>5 DEF Matches
  <2> HIDE DEF true, condition
  <2> QED
    BY <2>4, <2>6, HighValueHolds, UsDestinationHolds
<1>5. 1 \in 1 .. 3 /\ 2 \in 1 .. 3 /\ 3 \in 1 .. 3 /\ 2 \in 2 .. 3 /\ 3 \in 2 .. 3
  OBVIOUS
<1>6. /\ c.fromState \in Range(DefaultRules[1].fromStates) <=> c.fromState = "Pending"
      /\ c.fromState \in Range(DefaultRules[2].fromStates) <=> c.fromState = "PendingPayment"
  BY <1>2, <1>5, DefaultRuleFields
<1>7. /\ DefaultRules[1].eventType = "paymentFailed"
      /\ DefaultRules[2].eventType = "paymentSuccessful"
      /\ DefaultRules[3].eventType = "paymentSuccessful"
  BY <1>5, DefaultRuleFields
<1>8. MatchedRuleNumbers(c) \subseteq 1 .. 3
  BY <1>1
<1>9. 1 \in MatchedRuleNumbers(c) <=> IsFailedHighValue(c)
  BY <1>1, <1>3, <1>5, <1>6, <1>7 DEF IsFailedHighValue
<1>10. 2 \in MatchedRuleNumbers(c) <=> IsSurcharged(c)
  BY <1>1, <1>4, <1>5, <1>6, <1>7 DEF IsSurcharged
<1>11. 3 \in MatchedRuleNumbers(c) => c.eventType = "paymentSuccessful"
  BY <1>1, <1>7
<1> QED
  BY <1>8, <1>9, <1>10, <1>11

-----------------------------------------------------------------------------
(* Their actions *)

Ticket == [type |-> "CREATE_SUPPORT_TICKET", reason |-> "High-value order payment failed"]
Tax    == [type |-> "ADD_TAX", percentage |-> 10]
Cost   == [type |-> "ADD_FIXED_COST", amount |-> 25]
Hold   == [type |-> "SET_FINAL_STATE", state |-> "OnHold"]

(***************************************************************************)
(* The actions of the three default rules. (default_rules.json.)           *)
(***************************************************************************)
LEMMA ActionsOfDefault ==
  /\ DefaultRules[1].actions = <<Ticket>>
  /\ DefaultRules[2].actions = <<Tax, Cost>>
  /\ DefaultRules[3].actions = <<Hold>>
<1>1. DefaultRules[1].actions = <<Ticket>>
  BY DEF DefaultRules, Ticket
<1>2. DefaultRules[2].actions = <<Tax, Cost>>
  BY DEF DefaultRules, Tax, Cost
<1>3. DefaultRules[3].actions = <<Hold>>
  BY DEF DefaultRules, Hold
<1> QED
  BY <1>1, <1>2, <1>3

(***************************************************************************)
(* Without a matched rule there are no actions: no tax, no cost and no     *)
(* ticket. (rule_engine.py evaluate.)                                      *)
(***************************************************************************)
LEMMA NothingMatched ==
  ASSUME NEW c, MatchedRules(c) = <<>>
  PROVE  /\ TotalTaxPercentage(c) = 0 /\ TotalFixedCost(c) = 0
         /\ TicketDrafts(c) = <<>>
<1>1. MatchedActions(c) = <<>>
  BY FoldsOfTheEngine, Acting!FoldEmpty
<1>2. \A type, quantity : Total(c, type, quantity) = 0
  BY <1>1, FoldsOfTheEngine, Totaling!FoldEmpty
<1>3. TicketDrafts(c) = <<>>
  BY FoldsOfTheEngine, Collecting!FoldEmpty
<1> QED
  BY <1>2, <1>3 DEF TotalTaxPercentage, TotalFixedCost

(***************************************************************************)
(* With one matched rule the actions and the drafts are its own.           *)
(***************************************************************************)
LEMMA OneMatched ==
  ASSUME NEW c, NEW r, MatchedRules(c) = <<r>>, NEW A, r.actions \in Seq(A)
  PROVE  /\ MatchedActions(c) = r.actions
         /\ TicketDrafts(c) = Drafting!Fold(r, 0, <<>>, r.actions)
<1>1. MatchedActions(c) = <<>> \o r.actions
  BY FoldsOfTheEngine, Acting!FoldOne DEF ActionStep
<1>2. TicketDrafts(c) = Drafting!Fold(r, 0, <<>>, r.actions)
  BY FoldsOfTheEngine, Collecting!FoldOne DEF RuleStep
<1> QED
  BY <1>1, <1>2

(***************************************************************************)
(* With two matched rules the actions are those of the first, then those   *)
(* of the second, and so are the drafts.                                   *)
(***************************************************************************)
LEMMA TwoMatched ==
  ASSUME NEW c, NEW r, NEW s, MatchedRules(c) = <<r, s>>, NEW A,
         r.actions \in Seq(A), s.actions \in Seq(A)
  PROVE  /\ MatchedActions(c) = r.actions \o s.actions
         /\ TicketDrafts(c)
              = Drafting!Fold(s, 0, Drafting!Fold(r, 0, <<>>, r.actions), s.actions)
<1>1. MatchedActions(c) = (<<>> \o r.actions) \o s.actions
  <2>1. MatchedActions(c) = ActionStep(0, 0, ActionStep(0, 0, <<>>, r), s)
    BY FoldsOfTheEngine, Acting!FoldTwo
  <2> QED
    BY <2>1 DEF ActionStep
<1>2. TicketDrafts(c) = Drafting!Fold(s, 0, Drafting!Fold(r, 0, <<>>, r.actions), s.actions)
  BY FoldsOfTheEngine, Collecting!FoldTwo DEF RuleStep
<1> QED
  BY <1>1, <1>2

(***************************************************************************)
(* Only the action of the first default rule drafts a ticket.              *)
(* (order_service.py _materialize_support_ticket.)                         *)
(***************************************************************************)
LEMMA DraftsOfDefault ==
  ASSUME NEW rule, NEW drafts
  PROVE  /\ Drafting!Fold(rule, 0, drafts, <<Ticket>>)
              = Append(drafts, [rule |-> rule.id, reason |-> Ticket.reason])
         /\ Drafting!Fold(rule, 0, drafts, <<Tax, Cost>>) = drafts
         /\ Drafting!Fold(rule, 0, drafts, <<Hold>>) = drafts
<1>1. /\ Ticket.type = "CREATE_SUPPORT_TICKET" /\ Tax.type # "CREATE_SUPPORT_TICKET"
      /\ Cost.type # "CREATE_SUPPORT_TICKET" /\ Hold.type # "CREATE_SUPPORT_TICKET"
  BY DEF Ticket, Tax, Cost, Hold
<1>2. Drafting!Fold(rule, 0, drafts, <<Ticket>>)
        = Append(drafts, [rule |-> rule.id, reason |-> Ticket.reason])
  BY <1>1, Drafting!FoldOne DEF DraftStep
<1>3. Drafting!Fold(rule, 0, drafts, <<Tax, Cost>>) = drafts
  <2>1. \A d : DraftStep(rule, 0, d, Tax) = d /\ DraftStep(rule, 0, d, Cost) = d
    BY <1>1 DEF DraftStep
  <2> QED
    BY <2>1, Drafting!FoldTwo
<1>4. Drafting!Fold(rule, 0, drafts, <<Hold>>) = drafts
  <2>1. DraftStep(rule, 0, drafts, Hold) = drafts
    BY <1>1 DEF DraftStep
  <2> QED
    BY <2>1, Drafting!FoldOne
<1> QED
  BY <1>2, <1>3, <1>4

(***************************************************************************)
(* What each list of actions of the default rules adds to an amount: ten   *)
(* percent and 25 where the surcharge is among them, nothing otherwise.    *)
(***************************************************************************)
LEMMA TotalsOfDefault ==
  /\ Totaling!Fold("ADD_TAX", "percentage", 0, <<Ticket>>) = 0
  /\ Totaling!Fold("ADD_FIXED_COST", "amount", 0, <<Ticket>>) = 0
  /\ Totaling!Fold("ADD_TAX", "percentage", 0, <<Hold>>) = 0
  /\ Totaling!Fold("ADD_FIXED_COST", "amount", 0, <<Hold>>) = 0
  /\ Totaling!Fold("ADD_TAX", "percentage", 0, <<Tax, Cost>>) = 10
  /\ Totaling!Fold("ADD_FIXED_COST", "amount", 0, <<Tax, Cost>>) = 25
  /\ Totaling!Fold("ADD_TAX", "percentage", 0, <<Tax, Cost, Hold>>) = 10
  /\ Totaling!Fold("ADD_FIXED_COST", "amount", 0, <<Tax, Cost, Hold>>) = 25
<1>1. /\ Ticket.type = "CREATE_SUPPORT_TICKET" /\ Tax.type = "ADD_TAX"
      /\ Cost.type = "ADD_FIXED_COST" /\ Hold.type = "SET_FINAL_STATE"
      /\ Tax["percentage"] = 10 /\ Cost["amount"] = 25
  BY DEF Ticket, Tax, Cost, Hold
<1>2. \A q, sum :
        /\ TotalStep("ADD_TAX", q, sum, Ticket) = sum
        /\ TotalStep("ADD_FIXED_COST", q, sum, Ticket) = sum
        /\ TotalStep("ADD_TAX", q, sum, Hold) = sum
        /\ TotalStep("ADD_FIXED_COST", q, sum, Hold) = sum
        /\ TotalStep("ADD_TAX", q, sum, Cost) = sum
        /\ TotalStep("ADD_FIXED_COST", q, sum, Tax) = sum
  BY <1>1 DEF TotalStep
<1>3. /\ TotalStep("ADD_TAX", "percentage", 0, Tax) = 10
      /\ TotalStep("ADD_FIXED_COST", "amount", 0, Cost) = 25
  BY <1>1 DEF TotalStep
<1> QED
  BY <1>2, <1>3, Totaling!FoldOne, Totaling!FoldTwo, Totaling!FoldThree

(***************************************************************************)
(* Concatenations of short sequences, written out.                         *)
(***************************************************************************)
LEMMA ShortSequences ==
  ASSUME NEW a, NEW b, NEW c
  PROVE  /\ <<>> \o <<>> = <<>> /\ <<>> \o <<a>> = <<a>> /\ <<a>> \o <<>> = <<a>>
         /\ Append(<<>>, a) = <<a>>
         /\ <<a>> \o <<b>> = <<a, b>>
         /\ <<a, b>> \o <<c>> = <<a, b, c>>
<1>1. <<a>> \o <<b>> = <<a, b>>
  <2> DEFINE x == <<a>> \o <<b>>
             y == <<a, b>>
  <2>1. x \in Seq({a, b}) /\ Len(x) = 2 /\ x[1] = a /\ x[2] = b
    OBVIOUS
  <2>2. y \in Seq({a, b}) /\ Len(y) = 2 /\ y[1] = a /\ y[2] = b
    OBVIOUS
  <2>3. \A i \in 1 .. 2 : i = 1 \/ i = 2
    OBVIOUS
  <2> HIDE DEF x, y
  <2>4. Len(x) = Len(y) /\ \A i \in 1 .. Len(x) : x[i] = y[i]
    BY <2>1, <2>2, <2>3
  <2>5. x = y
    BY <2>1, <2>2, <2>4, SeqEqual
  <2> QED
    BY <2>5 DEF x, y
<1>2. <<a, b>> \o <<c>> = <<a, b, c>>
  <2> DEFINE x == <<a, b>> \o <<c>>
             y == <<a, b, c>>
  <2>1. x \in Seq({a, b, c}) /\ Len(x) = 3 /\ x[1] = a /\ x[2] = b /\ x[3] = c
    OBVIOUS
  <2>2. y \in Seq({a, b, c}) /\ Len(y) = 3 /\ y[1] = a /\ y[2] = b /\ y[3] = c
    OBVIOUS
  <2>3. \A i \in 1 .. 3 : i = 1 \/ i = 2 \/ i = 3
    OBVIOUS
  <2> HIDE DEF x, y
  <2>4. Len(x) = Len(y) /\ \A i \in 1 .. Len(x) : x[i] = y[i]
    BY <2>1, <2>2, <2>3
  <2>5. x = y
    BY <2>1, <2>2, <2>4, SeqEqual
  <2> QED
    BY <2>5 DEF x, y
<1>3. /\ <<>> \o <<>> = <<>> /\ <<>> \o <<a>> = <<a>> /\ <<a>> \o <<>> = <<a>>
      /\ Append(<<>>, a) = <<a>>
  OBVIOUS
<1> QED
  BY <1>1, <1>2, <1>3

(***************************************************************************)
(* What the default rules come to: ten percent and 25 for a surcharged     *)
(* payment, one ticket for a failed payment of high value, nothing else.   *)
(* (default_rules.json.)                                                   *)
(***************************************************************************)
LEMMA DefaultResult ==
  ASSUME Rules = DefaultRules, NEW c
  PROVE  /\ TotalTaxPercentage(c) = IF IsSurcharged(c) THEN 10 ELSE 0
         /\ TotalFixedCost(c) = IF IsSurcharged(c) THEN 25 ELSE 0
         /\ TicketDrafts(c) = IF IsFailedHighValue(c)
                              THEN <<[rule |-> DefaultRules[1].id, reason |-> Ticket.reason]>>
                              ELSE <<>>
<1> DEFINE matched == MatchedRuleNumbers(c)
           part(i) == IF i \in matched THEN <<DefaultRules[i]>> ELSE <<>>
           Actions == {Ticket, Tax, Cost, Hold}
<1>1. MatchedRules(c) = (part(1) \o part(2)) \o part(3)
  BY MatchedRulesOfDefault
<1>2. ~(IsFailedHighValue(c) /\ IsSurcharged(c))
      /\ (3 \in matched => ~IsFailedHighValue(c))
  BY MatchedByDefault DEF IsFailedHighValue, IsSurcharged
<1>3. (1 \in matched <=> IsFailedHighValue(c)) /\ (2 \in matched <=> IsSurcharged(c))
  BY MatchedByDefault
<1> HIDE DEF matched
<1>4. \A type, quantity :
        Total(c, type, quantity) = Totaling!Fold(type, quantity, 0, MatchedActions(c))
  BY FoldsOfTheEngine
<1>5. \A r, s : /\ (<<>> \o <<>>) \o <<>> = <<>> /\ (<<>> \o <<>>) \o <<r>> = <<r>>
                /\ (<<>> \o <<r>>) \o <<>> = <<r>> /\ (<<r>> \o <<>>) \o <<>> = <<r>>
                /\ (<<>> \o <<r>>) \o <<s>> = <<r, s>>
  BY ShortSequences
<1>6. \A i \in 1 .. 3 : DefaultRules[i].actions \in Seq(Actions)
  <2>1. \A i \in 1 .. 3 : i = 1 \/ i = 2 \/ i = 3
    OBVIOUS
  <2>2. \A a, b \in Actions : <<a>> \in Seq(Actions) /\ <<a, b>> \in Seq(Actions)
    OBVIOUS
  <2>3. Ticket \in Actions /\ Tax \in Actions /\ Cost \in Actions /\ Hold \in Actions
    OBVIOUS
  <2> HIDE DEF Actions
  <2> QED
    BY <2>1, <2>2, <2>3, ActionsOfDefault
<1>7. CASE IsFailedHighValue(c)
  <2>1. MatchedRules(c) = <<DefaultRules[1]>>
    BY <1>1, <1>2, <1>3, <1>5, <1>7
  <2>2. MatchedActions(c) = <<Ticket>>
        /\ TicketDrafts(c) = Drafting!Fold(DefaultRules[1], 0, <<>>, <<Ticket>>)
    BY <1>6, <2>1, OneMatched, ActionsOfDefault, 1 \in 1 .. 3
  <2>3. TicketDrafts(c) = <<[rule |-> DefaultRules[1].id, reason |-> Ticket.reason]>>
    BY <2>2, DraftsOfDefault, ShortSequences
  <2> QED
    BY <1>2, <1>4, <1>7, <2>2, <2>3, TotalsOfDefault DEF TotalTaxPercentage, TotalFixedCost
<1>8. CASE IsSurcharged(c) /\ 3 \notin matched
  <2>1. MatchedRules(c) = <<DefaultRules[2]>>
    BY <1>1, <1>2, <1>3, <1>5, <1>8
  <2>2. MatchedActions(c) = <<Tax, Cost>>
        /\ TicketDrafts(c) = Drafting!Fold(DefaultRules[2], 0, <<>>, <<Tax, Cost>>)
    BY <1>6, <2>1, OneMatched, ActionsOfDefault, 2 \in 1 .. 3
  <2>3. TicketDrafts(c) = <<>>
    BY <2>2, DraftsOfDefault
  <2> QED
    BY <1>2, <1>4, <1>8, <2>2, <2>3, TotalsOfDefault DEF TotalTaxPercentage, TotalFixedCost
<1>9. CASE IsSurcharged(c) /\ 3 \in matched
  <2>1. MatchedRules(c) = <<DefaultRules[2], DefaultRules[3]>>
    BY <1>1, <1>2, <1>3, <1>5, <1>9
  <2>2. MatchedActions(c) = <<Tax, Cost>> \o <<Hold>>
        /\ TicketDrafts(c) = Drafting!Fold(DefaultRules[3], 0,
             Drafting!Fold(DefaultRules[2], 0, <<>>, <<Tax, Cost>>), <<Hold>>)
    <3> DEFINE r == DefaultRules[2]
               s == DefaultRules[3]
    <3>1. r.actions = <<Tax, Cost>> /\ s.actions = <<Hold>>
      BY <1>6, ActionsOfDefault
    <3>0. r.actions \in Seq(Actions) /\ s.actions \in Seq(Actions)
      BY <1>6, ActionsOfDefault
    <3>2. MatchedRules(c) = <<r, s>>
      BY <2>1
    <3> HIDE DEF r, s, Actions
    <3>3. /\ MatchedActions(c) = r.actions \o s.actions
          /\ TicketDrafts(c)
               = Drafting!Fold(s, 0, Drafting!Fold(r, 0, <<>>, r.actions), s.actions)
      BY <3>0, <3>2, TwoMatched, Zenon
    <3> QED
      BY <3>1, <3>3 DEF r, s
  <2>3. TicketDrafts(c) = <<>>
    BY <2>2, DraftsOfDefault
  <2>4. <<Tax, Cost>> \o <<Hold>> = <<Tax, Cost, Hold>>
    BY ShortSequences
  <2> QED
    BY <1>2, <1>4, <1>9, <2>2, <2>3, <2>4, TotalsOfDefault DEF TotalTaxPercentage, TotalFixedCost
<1>10. CASE ~IsFailedHighValue(c) /\ ~IsSurcharged(c) /\ 3 \in matched
  <2>1. MatchedRules(c) = <<DefaultRules[3]>>
    BY <1>1, <1>2, <1>3, <1>5, <1>10
  <2>2. MatchedActions(c) = <<Hold>>
        /\ TicketDrafts(c) = Drafting!Fold(DefaultRules[3], 0, <<>>, <<Hold>>)
    BY <1>6, <2>1, OneMatched, ActionsOfDefault, 3 \in 1 .. 3
  <2>3. TicketDrafts(c) = <<>>
    BY <2>2, DraftsOfDefault
  <2> QED
    BY <1>4, <1>10, <2>2, <2>3, TotalsOfDefault DEF TotalTaxPercentage, TotalFixedCost
<1>11. CASE ~IsFailedHighValue(c) /\ ~IsSurcharged(c) /\ 3 \notin matched
  <2>1. MatchedRules(c) = <<>>
    BY <1>1, <1>3, <1>5, <1>11
  <2> QED
    BY <1>11, <2>1, NothingMatched
<1> QED
  BY <1>7, <1>8, <1>9, <1>10, <1>11

-----------------------------------------------------------------------------
(* Support tickets *)

\* A pending order is as it was opened: amounts are bounded when a payment fails.
StartsUntouched ==
  \A o \in Opened :
    orders[o].state = "Pending" => orders[o].history = <<>> /\ orders[o].amount \in Amounts

\* An order whose payment failed is cancelled, so no event follows the failure.
FailureEnds ==
  \A o \in Opened : \A i \in DOMAIN orders[o].history :
    orders[o].history[i].event = "paymentFailed" => orders[o].state = "Cancelled"

\* What the promise on tickets is inductive with.
TicketInv == StartsUntouched /\ FailureEnds /\ TicketIffPaymentFailed

(***************************************************************************)
(* No row of the transition table leads to Pending or leaves Cancelled,    *)
(* and a payment fails only from Pending and succeeds only from            *)
(* PendingPayment. (state_machine.py.)                                     *)
(***************************************************************************)
LEMMA FailedTransitions ==
  /\ \A t \in Transitions : t[3] # "Pending" /\ t[1] # "Cancelled"
  /\ \A t \in Transitions : t[2] = "paymentFailed" => t[1] = "Pending" /\ t[3] = "Cancelled"
  /\ \A t \in Transitions : t[2] = "paymentSuccessful" => t[1] = "PendingPayment"
BY DEF Transitions, SpecificTransitions, UserCancellationTransitions, CancellableStates

(***************************************************************************)
(* The tickets an event leaves under the default rules: one, of the        *)
(* request, for a failed payment of high value. (order_service.py          *)
(* _materialize_support_ticket.)                                           *)
(***************************************************************************)
LEMMA DefaultTickets ==
  ASSUME Rules = DefaultRules, NEW c, NEW id, NEW o
  PROVE  {<<k.order, k.id>> : k \in SupportTickets(id, o, c)}
           = IF IsFailedHighValue(c) THEN {<<o, id>>} ELSE {}
<1>1. CASE IsFailedHighValue(c)
  <2>1. PICK d : TicketDrafts(c) = <<d>>
    BY <1>1, DefaultResult
  <2>2. <<d>> # <<>> /\ Len(<<d>>) = 1
    OBVIOUS
  <2>3. PICK content : TicketContents(c) = {content}
    BY <2>1, <2>2 DEF TicketContents
  <2>4. SupportTickets(id, o, c)
          = {[id |-> id, order |-> o, amount |-> FinalAmount(c), contents |-> content]}
    BY <2>3 DEF SupportTickets
  <2> QED
    BY <1>1, <2>4
<1>2. CASE ~IsFailedHighValue(c)
  <2>1. TicketContents(c) = {}
    BY <1>2, DefaultResult DEF TicketContents
  <2> QED
    BY <1>2, <2>1 DEF SupportTickets
<1> QED
  BY <1>1, <1>2

(***************************************************************************)
(* A payment that is not surcharged leaves a bounded amount as it was.     *)
(* (order_service.py _calculate_final_amount.)                             *)
(***************************************************************************)
LEMMA FailureKeepsAmount ==
  ASSUME Rules = DefaultRules, NEW c, c.order.amount \in 1 .. MaxAmount, ~IsSurcharged(c)
  PROVE  FinalAmount(c) = c.order.amount
<1> DEFINE base == c.order.amount
<1>1. TotalTaxPercentage(c) = 0 /\ TotalFixedCost(c) = 0
  BY DefaultResult
<1>2. MaxAmount \in Nat
  BY RulesAssumption
<1>3. base * 0 = 0 /\ 0 \div 100 = 0 /\ base + 0 + 0 = base
  OBVIOUS
<1>4. base # NaN /\ base # Infinity /\ {0, base} \subseteq Money \ {Infinity, NaN}
  BY <1>2 DEF Money, Infinity, NaN
<1> QED
  BY <1>1, <1>3, <1>4 DEF FinalAmount

\* What an accepted event makes of an order.
Follows(order, r, id, c, updated, entry) ==
  /\ c.order = order /\ c.eventType = r.event /\ c.fromState = order.state
  /\ updated.history = Append(order.history, entry)
  /\ updated.amount = FinalAmount(c) /\ updated.state = FinalState(c)
  /\ entry.event = r.event /\ entry.id = id /\ entry.metadata = r.metadata
  /\ c.metadata = r.metadata
  /\ updated.state # "Pending" /\ order.state # "Cancelled"
  /\ r.event = "paymentFailed" => order.state = "Pending" /\ updated.state = "Cancelled"
  /\ r.event = "paymentSuccessful" => order.state = "PendingPayment"

(***************************************************************************)
(* An accepted event extends the history by its entry, sets the amount and *)
(* the state the rules come to, and follows a row of the table.            *)
(* (order_service.py apply_event.)                                         *)
(***************************************************************************)
LEMMA UpdateOfDefault ==
  ASSUME Rules = DefaultRules, NEW order, NEW r, NEW id,
         Accepts(order, r.event, r.metadata)
  PROVE  LET c == Context(order, r.event, r.metadata)
         IN Follows(order, r, id, c, UpdatedOrder(id, c), EventEntry(id, c))
<1> DEFINE c == Context(order, r.event, r.metadata)
           updated == UpdatedOrder(id, c)
<1>1. /\ c.order = order /\ c.eventType = r.event /\ c.fromState = order.state
      /\ c.metadata = r.metadata /\ c.proposedState = NextState(order.state, r.event)
  BY DEF Context
<1>2. <<order.state, r.event, NextState(order.state, r.event)>> \in Transitions
  BY NextStateIsRow DEF Accepts
<1> HIDE DEF c
<1>3. /\ updated.history = Append(order.history, EventEntry(id, c))
      /\ updated.amount = FinalAmount(c) /\ updated.state = FinalState(c)
      /\ EventEntry(id, c).event = r.event /\ EventEntry(id, c).id = id
      /\ EventEntry(id, c).metadata = r.metadata
  BY <1>1 DEF UpdatedOrder, EventEntry
<1>4. /\ FinalStateOverrides(c) \subseteq {"OnHold"}
      /\ FinalStateOverrides(c) # {} => r.event = "paymentSuccessful"
  BY <1>1, DefaultOverrides
<1>5. FinalState(c) = c.proposedState \/ (FinalState(c) = "OnHold" /\ r.event = "paymentSuccessful")
  BY <1>4 DEF FinalState
<1>6. /\ c.proposedState # "Pending" /\ order.state # "Cancelled"
      /\ r.event = "paymentFailed" => order.state = "Pending" /\ c.proposedState = "Cancelled"
      /\ r.event = "paymentSuccessful" => order.state = "PendingPayment"
  BY <1>1, <1>2, FailedTransitions
<1>7. Follows(order, r, id, c, updated, EventEntry(id, c))
  BY <1>1, <1>3, <1>5, <1>6 DEF Follows
<1> QED
  BY <1>7 DEF c

\* The tickets a table of orders calls for.
Owed(table) == UNION {{<<o, e.id>> : e \in {f \in Range(table[o].history) :
                          f.event = "paymentFailed" /\ table[o].amount > 1000}} :
                       o \in {p \in OrderIds : table[p] # None}}

(***************************************************************************)
(* A ticket is owed for every failed payment in the history of an order of *)
(* high value.                                                             *)
(***************************************************************************)
LEMMA OwedAre ==
  ASSUME NEW table, NEW pair
  PROVE  pair \in Owed(table) <=>
           \E o \in OrderIds : /\ table[o] # None
             /\ \E i \in DOMAIN table[o].history :
                  /\ table[o].history[i].event = "paymentFailed" /\ table[o].amount > 1000
                  /\ pair = <<o, table[o].history[i].id>>
BY DEF Owed, Range

(***************************************************************************)
(* The promise on tickets, before and after a step, in terms of what is    *)
(* owed.                                                                   *)
(***************************************************************************)
LEMMA TicketsAreOwed ==
  /\ TicketIffPaymentFailed <=> {<<k.order, k.id>> : k \in tickets} = Owed(orders)
  /\ TicketIffPaymentFailed' <=> {<<k.order, k.id>> : k \in tickets'} = Owed(orders')
BY DEF TicketIffPaymentFailed, FailedPayments, Opened, Owed

(***************************************************************************)
(* Opening an order owes nothing and leaves no ticket. (order_service.py   *)
(* create_order.)                                                          *)
(***************************************************************************)
LEMMA OpenKeepsTicketInv ==
  ASSUME TypeOK, TicketInv, NEW p \in OrderIds, NEW amount \in Amounts,
         NEW count \in ProductCounts, Open(p, amount, count)
  PROVE  TicketInv'
<1> DEFINE new == NewOrder(amount, count)
<1>1. /\ orders[p] = None /\ orders' = [orders EXCEPT ![p] = new] /\ tickets' = tickets
      /\ new.history = <<>> /\ new.amount = amount /\ DOMAIN new.history = {}
  BY DEF Open, NewOrder
<1>2. new # None
  BY NewOrderIsOrder, ServiceAssumption
<1> HIDE DEF new
<1>3. orders'[p] = new /\ \A o \in OrderIds : o # p => orders'[o] = orders[o]
  BY <1>1 DEF TypeOK
<1>4. StartsUntouched'
  BY <1>1, <1>3 DEF TicketInv, StartsUntouched, Opened
<1>5. FailureEnds'
  BY <1>1, <1>3 DEF TicketInv, FailureEnds, Opened
<1>6. Owed(orders') = Owed(orders)
  <2>1. ASSUME NEW pair
        PROVE  pair \in Owed(orders') <=> pair \in Owed(orders)
    <3>1. pair \in Owed(orders') <=>
             \E o \in OrderIds : /\ orders'[o] # None
               /\ \E i \in DOMAIN orders'[o].history :
                    /\ orders'[o].history[i].event = "paymentFailed" /\ orders'[o].amount > 1000
                    /\ pair = <<o, orders'[o].history[i].id>>
      BY OwedAre
    <3>2. pair \in Owed(orders) <=>
             \E o \in OrderIds : /\ orders[o] # None
               /\ \E i \in DOMAIN orders[o].history :
                    /\ orders[o].history[i].event = "paymentFailed" /\ orders[o].amount > 1000
                    /\ pair = <<o, orders[o].history[i].id>>
      BY OwedAre
    <3> QED
      BY <1>1, <1>3, <3>1, <3>2
  <2> QED
    BY <2>1
<1>7. TicketIffPaymentFailed'
  BY <1>1, <1>6, TicketsAreOwed DEF TicketInv
<1> QED
  BY <1>4, <1>5, <1>7 DEF TicketInv

(***************************************************************************)
(* An accepted event leaves a ticket exactly when it owes one.             *)
(* (order_service.py apply_event.)                                         *)
(***************************************************************************)
LEMMA AdvanceKeepsTicketInv ==
  ASSUME Rules = DefaultRules, TypeOK, TicketInv, NEW p \in OrderIds, NEW r \in Requests,
         NEW id \in RequestIds, Advance(p, id, r.event, r.metadata)
  PROVE  TicketInv'
<1> DEFINE order == orders[p]
           c == Context(order, r.event, r.metadata)
           new == UpdatedOrder(id, c)
           entry == EventEntry(id, c)
           h == order.history
<1>1. order \in Order /\ order # None /\ Accepts(order, r.event, r.metadata)
  BY DEF Advance, TypeOK
<1>2. /\ orders' = [orders EXCEPT ![p] = new]
      /\ tickets' = tickets \cup SupportTickets(id, p, c)
  BY DEF Advance
<1>3. new \in Order /\ new # None
  BY <1>1, UpdatedOrderIsOrder, ServiceAssumption, LedgerAssumption DEF Accepts
<1>4. /\ c.order = order /\ c.eventType = r.event /\ c.fromState = order.state
      /\ new.history = Append(h, entry) /\ new.amount = FinalAmount(c) 
      /\ entry.event = r.event /\ entry.id = id
      /\ new.state # "Pending" /\ order.state # "Cancelled"
      /\ r.event = "paymentFailed" => order.state = "Pending" /\ new.state = "Cancelled"
  <2>1. Follows(order, r, id, c, new, entry)
    BY <1>1, UpdateOfDefault
  <2> HIDE DEF order, c, new, entry
  <2> QED
    BY <2>1 DEF Follows
<1>5. h \in Seq(Entry)
  BY <1>1 DEF Order
<1>6. orders'[p] = new /\ \A o \in OrderIds : o # p => orders'[o] = orders[o]
  BY <1>2 DEF TypeOK
<1>7. /\ order.state = "Pending" => h = <<>> /\ order.amount \in Amounts
      /\ \A i \in DOMAIN h : h[i].event # "paymentFailed"
  BY <1>1, <1>4 DEF TicketInv, StartsUntouched, FailureEnds, Opened
<1> HIDE DEF c, new, entry
<1>8. {<<k.order, k.id>> : k \in SupportTickets(id, p, c)}
        = IF IsFailedHighValue(c) THEN {<<p, id>>} ELSE {}
  BY DefaultTickets
<1>9. StartsUntouched'
  BY <1>4, <1>6 DEF TicketInv, StartsUntouched, Opened
<1> DEFINE n == Len(h)
<1>10. /\ DOMAIN new.history = 1 .. n + 1 /\ n \in Nat /\ DOMAIN h = 1 .. n
       /\ new.history[n + 1] = entry /\ \A i \in 1 .. n : new.history[i] = h[i]
  BY <1>4, <1>5
<1> HIDE DEF h, n
<1>11. \A i \in DOMAIN new.history : new.history[i].event = "paymentFailed" =>
          i = n + 1 /\ r.event = "paymentFailed"
  BY <1>4, <1>7, <1>10
<1>12. FailureEnds'
  BY <1>4, <1>6, <1>11 DEF TicketInv, FailureEnds, Opened
<1>13. IsFailedHighValue(c) <=> r.event = "paymentFailed" /\ new.amount > 1000
  <2>1. CASE r.event = "paymentFailed"
    <3>1. order.amount \in Amounts /\ order.amount \in 1 .. MaxAmount
      BY <1>4, <1>7, <2>1, ServiceAssumption
    <3>2. ~IsSurcharged(c)
      BY <1>4, <2>1 DEF IsSurcharged
    <3>3. new.amount = order.amount
      BY <1>4, <3>1, <3>2, FailureKeepsAmount
    <3>4. order.amount # Infinity /\ order.amount # NaN
      BY <3>1, RulesAssumption DEF Infinity, NaN
    <3> QED
      BY <1>4, <2>1, <3>3, <3>4 DEF IsFailedHighValue, IsHighValue
  <2>2. CASE r.event # "paymentFailed"
    BY <1>4, <2>2 DEF IsFailedHighValue
  <2> QED
    BY <2>1, <2>2
<1>14. ASSUME NEW pair
       PROVE  pair \in Owed(orders') <=>
                pair \in Owed(orders) \/ (IsFailedHighValue(c) /\ pair = <<p, id>>)
  <2>1. (\E i \in DOMAIN new.history :
           /\ new.history[i].event = "paymentFailed" /\ new.amount > 1000
           /\ pair = <<p, new.history[i].id>>)
        <=> IsFailedHighValue(c) /\ pair = <<p, id>>
    BY <1>4, <1>10, <1>11, <1>13
  <2>2. ~ \E i \in DOMAIN order.history : order.history[i].event = "paymentFailed"
    BY <1>7 DEF h
  <2>3. pair \in Owed(orders') <=>
           \E o \in OrderIds : /\ orders'[o] # None
             /\ \E i \in DOMAIN orders'[o].history :
                  /\ orders'[o].history[i].event = "paymentFailed" /\ orders'[o].amount > 1000
                  /\ pair = <<o, orders'[o].history[i].id>>
    BY OwedAre
  <2>4. pair \in Owed(orders) <=>
           \E o \in OrderIds : /\ orders[o] # None
             /\ \E i \in DOMAIN orders[o].history :
                  /\ orders[o].history[i].event = "paymentFailed" /\ orders[o].amount > 1000
                  /\ pair = <<o, orders[o].history[i].id>>
    BY OwedAre
  <2> QED
    BY <1>3, <1>6, <2>1, <2>2, <2>3, <2>4
<1>15. TicketIffPaymentFailed'
  <2>1. {<<k.order, k.id>> : k \in tickets} = Owed(orders)
    BY TicketsAreOwed DEF TicketInv
  <2>2. {<<k.order, k.id>> : k \in tickets'}
          = {<<k.order, k.id>> : k \in tickets}
              \cup {<<k.order, k.id>> : k \in SupportTickets(id, p, c)}
    BY <1>2 DEF c
  <2>3. {<<k.order, k.id>> : k \in tickets'} = Owed(orders')
    BY <1>8, <1>14, <2>1, <2>2
  <2> QED
    BY <2>3, TicketsAreOwed
<1> QED
  BY <1>9, <1>12, <1>15 DEF TicketInv

(***************************************************************************)
(* Under the default rules the support tickets are exactly those of the    *)
(* failed payments of orders above 1000, whatever the amounts, the         *)
(* metadata and the number of orders. (order_service.py apply_event with   *)
(* default_rules.json.)                                                    *)
(***************************************************************************)
THEOREM TicketsAreExact ==
  ASSUME Rules = DefaultRules
  PROVE  Spec => []TicketIffPaymentFailed
<1>1. Init => TicketInv
  BY DEF Init, TicketInv, StartsUntouched, FailureEnds, TicketIffPaymentFailed, Opened
<1>2. TypeOK /\ TicketInv /\ [Next]_vars => TicketInv'
  <2> SUFFICES ASSUME TypeOK, TicketInv, [Next]_vars
               PROVE  TicketInv'
    OBVIOUS
  <2>1. CASE UNCHANGED vars
    BY <2>1 DEF vars, TicketInv, StartsUntouched, FailureEnds, TicketIffPaymentFailed,
       FailedPayments, Opened
  <2> QED
    BY <2>1, OpenKeepsTicketInv, AdvanceKeepsTicketInv DEF Next
<1>3. TicketInv => TicketIffPaymentFailed
  BY DEF TicketInv
<1> QED
  BY <1>1, <1>2, <1>3, LedgerTypes, PTL DEF Spec

-----------------------------------------------------------------------------
(* Amounts *)

\* The step of the fold of AmountReplaysHistory.
ReplayStep(p, q, amount, entry) == Surcharged(amount, entry)

Replaying == INSTANCE FoldFacts WITH Op <- ReplayStep

ReplayOf(amount, history) == FoldLeft(Surcharged, amount, history)

(***************************************************************************)
(* The replay of a history is the fold of its steps.                       *)
(***************************************************************************)
LEMMA FoldOfReplay ==
  ASSUME NEW amount, NEW history
  PROVE  ReplayOf(amount, history) = Replaying!Fold(0, 0, amount, history)
BY DEF ReplayOf, Replaying!Fold, ReplayStep, FoldLeft, MapThenFoldSet, Max,
       Replaying!FoldLeft, Replaying!MapThenFoldSet, Replaying!Max

(***************************************************************************)
(* The replay of a history that is one event longer takes one more step.   *)
(***************************************************************************)
LEMMA ReplayOneMore ==
  ASSUME NEW amount, NEW S, NEW history \in Seq(S), NEW entry \in S
  PROVE  /\ ReplayOf(amount, <<>>) = amount
         /\ ReplayOf(amount, Append(history, entry))
              = Surcharged(ReplayOf(amount, history), entry)
<1>1. ReplayOf(amount, <<>>) = amount
  BY FoldOfReplay, Replaying!FoldEmpty
<1>2. Replaying!Fold(0, 0, amount, Append(history, entry))
        = Surcharged(Replaying!Fold(0, 0, amount, history), entry)
  BY Replaying!FoldAppend DEF ReplayStep
<1> QED
  BY <1>1, <1>2, FoldOfReplay

(***************************************************************************)
(* An amount that has left the range of the numbers never comes back to    *)
(* it. (order_service.py _calculate_final_amount.)                         *)
(***************************************************************************)
LEMMA UnboundedStays ==
  ASSUME NEW c, c.order.amount \in {Infinity, NaN}
  PROVE  FinalAmount(c) \in {Infinity, NaN}
<1> DEFINE tax == TotalTaxPercentage(c)
           sum == c.order.amount + (c.order.amount * tax) \div 100 + TotalFixedCost(c)
           product == c.order.amount * tax
<1>1. FinalAmount(c) =
        CASE c.order.amount = NaN \/ (c.order.amount = Infinity /\ tax = 0) -> NaN
          [] c.order.amount \notin {Infinity, NaN} /\ {product, sum} \subseteq Money \ {Infinity, NaN} -> sum
          [] OTHER -> Infinity
  BY DEF FinalAmount
<1>2. Infinity # NaN
  BY RulesAssumption DEF Infinity, NaN
<1> HIDE DEF tax, sum, product
<1>3. CASE c.order.amount = NaN
  BY <1>1, <1>3
<1>4. CASE c.order.amount = Infinity
  <2>1. CASE tax = 0
    BY <1>1, <1>4, <2>1
  <2>2. CASE tax # 0
    BY <1>1, <1>2, <1>4, <2>2
  <2> QED
    BY <2>1, <2>2
<1> QED
  BY <1>3, <1>4

(***************************************************************************)
(* Under the default rules an event makes of a bounded amount what the     *)
(* replay of its entry does, or leaves the range. (order_service.py        *)
(* _calculate_final_amount.)                                               *)
(***************************************************************************)
LEMMA SurchargeOfDefault ==
  ASSUME Rules = DefaultRules, NEW c, NEW entry, c.order.amount \in 0 .. MaxAmount,
         entry.event = c.eventType, entry.metadata = c.metadata,
         c.eventType = "paymentSuccessful" => c.fromState = "PendingPayment"
  PROVE  FinalAmount(c) \in {Infinity, Surcharged(c.order.amount, entry)}
<1> DEFINE base == c.order.amount
<1>1. base \in Nat /\ MaxAmount \in Nat /\ base <= MaxAmount /\ base # Infinity /\ base # NaN
  BY RulesAssumption DEF Infinity, NaN
<1>2. CASE IsSurcharged(c)
  <2>1. TotalTaxPercentage(c) = 10 /\ TotalFixedCost(c) = 25
    BY <1>2, DefaultResult
  <2> DEFINE product == base * 10
             sum == base + (base * 10) \div 100 + 25
  <2>2. FinalAmount(c) = IF {product, sum} \subseteq Money \ {Infinity, NaN} THEN sum ELSE Infinity
    BY <1>1, <2>1 DEF FinalAmount
  <2>3. Surcharged(base, entry) = IF product > MaxAmount THEN Infinity ELSE sum
    BY <1>1, <1>2 DEF Surcharged, IsSurcharged, IsHighValue
  <2>4. product \in Nat
    BY <1>1
  <2> HIDE DEF product, sum
  <2>5. product > MaxAmount => product \notin Money \ {Infinity, NaN}
    BY <1>1, <2>4 DEF Money
  <2> QED
    BY <2>2, <2>3, <2>5
<1>3. CASE ~IsSurcharged(c)
  <2>1. Surcharged(base, entry) = base
    BY <1>1, <1>3 DEF Surcharged, IsSurcharged, IsHighValue
  <2>2. TotalTaxPercentage(c) = 0 /\ TotalFixedCost(c) = 0
    BY <1>3, DefaultResult
  <2>3. base * 0 = 0 /\ 0 \div 100 = 0 /\ base + 0 + 0 = base
    BY <1>1
  <2>4. FinalAmount(c) \in {base, Infinity}
    BY <1>1, <2>2, <2>3 DEF FinalAmount
  <2> QED
    BY <2>1, <2>4
<1> QED
  BY <1>2, <1>3

\* The promise on amounts, of one order.
Replays(order) ==
  \/ order.amount \in {Infinity, NaN}
  \/ \E amount \in Amounts : order.amount = ReplayOf(amount, order.history)

(***************************************************************************)
(* The promise on amounts, order by order, before and after a step.        *)
(***************************************************************************)
LEMMA ReplayOfEach ==
  /\ AmountReplaysHistory <=> \A o \in Opened : Replays(orders[o])
  /\ AmountReplaysHistory' <=> \A o \in Opened' : Replays(orders'[o])
BY DEF AmountReplaysHistory, Replays, ReplayOf

(***************************************************************************)
(* An accepted event keeps an order whose amount replays its history.      *)
(* (order_service.py apply_event.)                                         *)
(***************************************************************************)
LEMMA UpdateReplays ==
  ASSUME Rules = DefaultRules, NEW order \in Order, Replays(order), NEW r \in Requests,
         NEW id \in Nat, Accepts(order, r.event, r.metadata)
  PROVE  Replays(UpdatedOrder(id, Context(order, r.event, r.metadata)))
<1> DEFINE c == Context(order, r.event, r.metadata)
           new == UpdatedOrder(id, c)
           entry == EventEntry(id, c)
<1>1. Follows(order, r, id, c, new, entry)
  BY UpdateOfDefault
<1>2. entry \in Entry
  BY UpdatedOrderIsOrder DEF Accepts
<1> HIDE DEF c, new, entry
<1>3. /\ c.order = order /\ new.history = Append(order.history, entry)
      /\ new.amount = FinalAmount(c)
      /\ entry.event = c.eventType /\ entry.metadata = c.metadata
      /\ c.eventType = "paymentSuccessful" => c.fromState = "PendingPayment"
  BY <1>1 DEF Follows
<1>4. order.amount \in Money /\ order.history \in Seq(Entry)
  BY DEF Order
<1>5. ASSUME order.amount \in {Infinity, NaN} PROVE Replays(new)
  BY <1>3, <1>5, UnboundedStays DEF Replays
<1>6. ASSUME order.amount \notin {Infinity, NaN} PROVE Replays(new)
  <2>1. PICK amount \in Amounts : order.amount = ReplayOf(amount, order.history)
    BY <1>6 DEF Replays
  <2>2. c.order.amount \in 0 .. MaxAmount
    BY <1>3, <1>4, <1>6 DEF Money
  <2>3. new.amount \in {Infinity, Surcharged(order.amount, entry)}
    BY <1>3, <2>2, SurchargeOfDefault
  <2>4. ReplayOf(amount, Append(order.history, entry))
          = Surcharged(ReplayOf(amount, order.history), entry)
    BY <1>2, <1>4, ReplayOneMore
  <2> QED
    BY <1>3, <2>1, <2>3, <2>4 DEF Replays
<1>7. Replays(new)
  BY <1>5, <1>6
<1> QED
  BY <1>7 DEF new, c

(***************************************************************************)
(* Under the default rules the amount of an order is what its history      *)
(* makes of some amount it was opened with, or has left the range of the   *)
(* numbers. (order_service.py _calculate_final_amount.)                    *)
(***************************************************************************)
THEOREM AmountsReplay ==
  ASSUME Rules = DefaultRules
  PROVE  Spec => []AmountReplaysHistory
<1>1. Init => AmountReplaysHistory
  BY DEF Init, AmountReplaysHistory, Opened
<1>2. TypeOK /\ AmountReplaysHistory /\ [Next]_vars => AmountReplaysHistory'
  <2> SUFFICES ASSUME TypeOK, AmountReplaysHistory, [Next]_vars,
                      NEW p \in OrderIds, orders'[p] # None
               PROVE  Replays(orders'[p])
    BY ReplayOfEach DEF Opened
  <2>1. orders'[p] = orders[p] => Replays(orders'[p])
    BY ReplayOfEach DEF Opened
  <2>2. ASSUME NEW o \in OrderIds, NEW amount \in Amounts,
               NEW count \in ProductCounts, Open(o, amount, count)
        PROVE  Replays(orders'[p])
    <3>1. Replays(NewOrder(amount, count))
      <4>1. ReplayOf(amount, <<>>) = amount
        BY FoldOfReplay, Replaying!FoldEmpty
      <4> QED
        BY <4>1 DEF Replays, NewOrder
    <3> QED
      BY <2>1, <2>2, <3>1 DEF Open, TypeOK
  <2>3. ASSUME NEW o \in OrderIds, NEW r \in Requests, NEW id \in RequestIds,
               Advance(o, id, r.event, r.metadata)
        PROVE  Replays(orders'[p])
    <3>1. orders[o] \in Order /\ Accepts(orders[o], r.event, r.metadata) /\ id \in Nat
      BY <2>3, LedgerAssumption DEF Advance, TypeOK
    <3>2. orders[o] # None
      BY <2>3 DEF Advance
    <3>3. Replays(orders[o])
      BY <3>2, ReplayOfEach DEF Opened
    <3>4. Replays(UpdatedOrder(id, Context(orders[o], r.event, r.metadata)))
      BY <3>1, <3>3, UpdateReplays
    <3> QED
      BY <2>1, <2>3, <3>4 DEF Advance, TypeOK
  <2>4. CASE UNCHANGED vars
    BY <2>1, <2>4 DEF vars
  <2> QED
    BY <2>2, <2>3, <2>4 DEF Next
<1> QED
  BY <1>1, <1>2, LedgerTypes, PTL DEF Spec

-----------------------------------------------------------------------------
(* The lists of the lifecycle *)

KeepStep(set, q, kept, e) == IF e \in set THEN Append(kept, e) ELSE kept

JoinStep(p, q, all, list) == all \o list

NoteStep(p, q, states, t) ==
  IF Contains(states, t.toState) THEN states ELSE Append(states, t.toState)

Keeping == INSTANCE FoldFacts WITH Op <- KeepStep
Joining == INSTANCE FoldFacts WITH Op <- JoinStep
Noting  == INSTANCE FoldFacts WITH Op <- NoteStep

(***************************************************************************)
(* What is kept of a list are its elements in the set, and no others, none *)
(* more often than before.                                                 *)
(***************************************************************************)
LEMMA KeptAreAmong ==
  ASSUME NEW S, NEW list \in Seq(S), NEW set
  PROVE  /\ Among(list, set) \in Seq(S)
         /\ ToSet(Among(list, set)) = ToSet(list) \cap set
         /\ IsInjective(list) => IsInjective(Among(list, set))
<1>1. Among(list, set) = Keeping!Fold(set, 0, <<>>, list)
  BY DEF Among, Keeping!Fold, KeepStep, FoldLeft, MapThenFoldSet, Max,
     Keeping!FoldLeft, Keeping!MapThenFoldSet, Keeping!Max
<1>2. \A kept, e : KeepStep(set, 0, kept, e) = IF e \in set THEN Append(kept, e) ELSE kept
  BY DEF KeepStep
<1>3. /\ Keeping!Fold(set, 0, <<>>, list) \in Seq(S)
      /\ Keeping!ToSet(Keeping!Fold(set, 0, <<>>, list)) = Keeping!ToSet(list) \cap set
      /\ Keeping!IsInjective(list) => Keeping!IsInjective(Keeping!Fold(set, 0, <<>>, list))
  BY <1>2, Keeping!FilterKeeps
<1> QED
  BY <1>1, <1>3 DEF Keeping!ToSet, ToSet, Keeping!IsInjective, IsInjective

(***************************************************************************)
(* Lists one after the other have the elements of each, and none twice if  *)
(* none is in two of them or twice in one.                                 *)
(***************************************************************************)
LEMMA JoinedHaveAll ==
  ASSUME NEW S, NEW lists \in Seq(Seq(S))
  PROVE  /\ Joined(lists) \in Seq(S)
         /\ ToSet(Joined(lists)) = UNION {ToSet(lists[i]) : i \in DOMAIN lists}
         /\ /\ \A i \in DOMAIN lists : IsInjective(lists[i])
            /\ \A i, j \in DOMAIN lists : i # j => ToSet(lists[i]) \cap ToSet(lists[j]) = {}
            => IsInjective(Joined(lists))
<1>1. Joined(lists) = Joining!Fold(0, 0, <<>>, lists)
  BY DEF Joined, Joining!Fold, JoinStep, FoldLeft, MapThenFoldSet, Max,
     Joining!FoldLeft, Joining!MapThenFoldSet, Joining!Max
<1>2. \A all, list : JoinStep(0, 0, all, list) = all \o list
  BY DEF JoinStep
<1> DEFINE whole == Joining!Fold(0, 0, <<>>, lists)
<1>3. /\ whole \in Seq(S)
      /\ Joining!ToSet(whole) = UNION {Joining!ToSet(lists[i]) : i \in DOMAIN lists}
      /\ /\ \A i \in DOMAIN lists : Joining!IsInjective(lists[i])
         /\ \A i, j \in DOMAIN lists :
              i # j => Joining!ToSet(lists[i]) \cap Joining!ToSet(lists[j]) = {}
         => Joining!IsInjective(whole)
  BY <1>2, Joining!JoinedParts
<1> HIDE DEF whole
<1>4. Joined(lists) = whole
  BY <1>1 DEF whole
<1> QED
  BY <1>3, <1>4 DEF Joining!ToSet, ToSet, Joining!IsInjective, IsInjective

(***************************************************************************)
(* The lists of the page and those of the backend are made in the same     *)
(* way.                                                                    *)
(***************************************************************************)
LEMMA PageLists ==
  /\ \A list, set : Page!Among(list, set) = Among(list, set)
  /\ \A lists : Page!Joined(lists) = Joined(lists)
  /\ \A list : Page!ToSet(list) = ToSet(list)
<1>1. \A list, set : Page!Among(list, set) = Among(list, set)
  BY DEF Among, Page!Among, FoldLeft, MapThenFoldSet, Max,
     Page!FoldLeft, Page!MapThenFoldSet, Page!Max
<1>2. \A lists : Page!Joined(lists) = Joined(lists)
  BY DEF Joined, Page!Joined, FoldLeft, MapThenFoldSet, Max,
     Page!FoldLeft, Page!MapThenFoldSet, Page!Max
<1>3. \A list : Page!ToSet(list) = ToSet(list)
  BY DEF ToSet, Page!ToSet
<1> QED
  BY <1>1, <1>2, <1>3

(***************************************************************************)
(* A list contains its elements.                                           *)
(***************************************************************************)
LEMMA ContainsIsIn ==
  ASSUME NEW S, NEW list \in Seq(S), NEW e
  PROVE  /\ Contains(list, e) <=> e \in ToSet(list)
         /\ Page!Contains(list, e) <=> e \in ToSet(list)
<1>1. DOMAIN list = 1 .. Len(list)
  OBVIOUS
<1> QED
  BY <1>1 DEF Contains, Page!Contains, ToSet

(***************************************************************************)
(* The list of a state holds exactly the events it takes, each once.       *)
(* (get_available_events.)                                                 *)
(***************************************************************************)
LEMMA ListIsComplete ==
  ASSUME NEW state
  PROVE  /\ AvailableEventList(state) \in Seq(Events)
         /\ ToSet(AvailableEventList(state)) = AvailableEvents(state)
         /\ IsInjective(AvailableEventList(state))
<1>1. EventOrder \in Seq(Events)
  BY DEF EventOrder, Events
<1>2. IsInjective(EventOrder)
  BY DEF EventOrder, IsInjective
<1>3. Events \subseteq ToSet(EventOrder)
  <2> DEFINE order == EventOrder
  <2>1. DOMAIN order = 1 .. 16
    BY DEF EventOrder
  <2>2. \A i \in 1 .. 16 : order[i] \in ToSet(order)
    BY <2>1 DEF ToSet
  <2>3. Events = {order[1], order[2], order[3], order[4], order[5], order[6],
          order[7], order[8], order[9], order[10], order[11], order[12], order[13],
          order[14], order[15], order[16]}
    BY DEF EventOrder, Events
  <2> HIDE DEF order
  <2>4. Events \subseteq ToSet(order)
    BY <2>2, <2>3
  <2> QED
    BY <2>4 DEF order
<1>4. AvailableEvents(state) \subseteq Events
  BY DEF AvailableEvents
<1>5. /\ AvailableEventList(state) \in Seq(Events)
      /\ ToSet(AvailableEventList(state)) = ToSet(EventOrder) \cap AvailableEvents(state)
      /\ IsInjective(AvailableEventList(state))
  BY <1>1, <1>2, KeptAreAmong DEF AvailableEventList
<1> QED
  BY <1>3, <1>4, <1>5

Row(state, event) ==
  [fromState |-> state, eventType |-> event, toState |-> NextState(state, event)]

RowsOf(state) == {Row(state, event) : event \in AvailableEvents(state)}

AllRows == UNION {RowsOf(state) : state \in States}

(***************************************************************************)
(* The rows of a state are one for each event it takes.                    *)
(***************************************************************************)
LEMMA RowsOfState ==
  ASSUME NEW state \in States
  PROVE  /\ TransitionsFrom(state) \in Seq(AllRows)
         /\ ToSet(TransitionsFrom(state)) = RowsOf(state)
         /\ IsInjective(TransitionsFrom(state))
<1> DEFINE offered == AvailableEventList(state)
           rows    == [i \in DOMAIN offered |-> Row(state, offered[i])]
<1>1. TransitionsFrom(state) = rows
  BY DEF TransitionsFrom, Row
<1>2. /\ offered \in Seq(Events) /\ ToSet(offered) = AvailableEvents(state)
      /\ IsInjective(offered)
  BY ListIsComplete
<1> HIDE DEF offered
<1>3. /\ DOMAIN rows = DOMAIN offered /\ DOMAIN offered = 1 .. Len(offered)
      /\ Len(offered) \in Nat /\ \A i \in DOMAIN offered : rows[i] = Row(state, offered[i])
  BY <1>2
<1>4. \A event : event \in AvailableEvents(state)
                   <=> \E i \in DOMAIN offered : event = offered[i]
  BY <1>2 DEF ToSet
<1>5. \A row : row \in ToSet(rows) <=> \E i \in DOMAIN rows : row = rows[i]
  BY DEF ToSet
<1>6. \A row : row \in RowsOf(state)
                 <=> \E event \in AvailableEvents(state) : row = Row(state, event)
  BY DEF RowsOf
<1>7. ToSet(rows) = RowsOf(state)
  <2> HIDE DEF rows
  <2>1. \A row : row \in ToSet(rows) <=> row \in RowsOf(state)
    BY <1>3, <1>4, <1>5, <1>6
  <2> QED
    BY <2>1
<1>8. \A i \in DOMAIN offered : rows[i] \in AllRows
  <2> HIDE DEF rows
  <2> QED
    BY <1>3, <1>5, <1>7 DEF AllRows
<1>9. rows \in Seq(AllRows)
  BY <1>3, <1>8
<1>10. IsInjective(rows)
  <2>1. \A i \in DOMAIN offered : rows[i].eventType = offered[i]
    BY <1>3 DEF Row
  <2> HIDE DEF rows
  <2> QED
    BY <1>2, <1>3, <2>1 DEF IsInjective
<1> QED
  BY <1>1, <1>7, <1>9, <1>10

(***************************************************************************)
(* A row is a step of the transition table, its state and its event say    *)
(* where it leads, and no row leads back to where it starts.               *)
(***************************************************************************)
LEMMA RowsAreSteps ==
  /\ \A row \in AllRows :
       /\ row.fromState \in States /\ row.toState \in States /\ row.eventType \in Events
       /\ row.eventType \in AvailableEvents(row.fromState)
       /\ <<row.fromState, row.eventType, row.toState>> \in Transitions
       /\ row = Row(row.fromState, row.eventType)
  /\ \A state \in States : \A event \in AvailableEvents(state) : Row(state, event) \in AllRows
  /\ \A t \in Transitions : t[1] \in States /\ t[3] \in States /\ t[1] # t[3]
<1>1. \A t \in Transitions : t[1] \in States /\ t[3] \in States /\ t[1] # t[3]
  BY DEF Transitions, SpecificTransitions, UserCancellationTransitions, CancellableStates, States
<1>2. ASSUME NEW row \in AllRows
      PROVE  /\ row.fromState \in States /\ row.eventType \in Events
             /\ row.eventType \in AvailableEvents(row.fromState)
             /\ IsEnabled(row.fromState, row.eventType)
             /\ row.toState = NextState(row.fromState, row.eventType)
             /\ row = Row(row.fromState, row.eventType)
  <2>1. PICK state \in States : \E event \in AvailableEvents(state) : row = Row(state, event)
    BY DEF AllRows, RowsOf
  <2>2. PICK event \in AvailableEvents(state) : row = Row(state, event)
    BY <2>1
  <2>3. /\ row.fromState = state /\ row.eventType = event
        /\ row.toState = NextState(state, event)
    BY <2>2 DEF Row
  <2> QED
    BY <2>2, <2>3 DEF AvailableEvents
<1>3. ASSUME NEW row \in AllRows
      PROVE  /\ <<row.fromState, row.eventType, row.toState>> \in Transitions
             /\ row.toState \in States
  <2>1. <<row.fromState, row.eventType, row.toState>> \in Transitions
    BY <1>2, NextStateIsRow
  <2> QED
    BY <1>1, <2>1
<1>4. \A state \in States : \A event \in AvailableEvents(state) : Row(state, event) \in AllRows
  BY DEF AllRows, RowsOf
<1> QED
  BY <1>1, <1>2, <1>3, <1>4

(***************************************************************************)
(* The definition lists the states, each once, and a row for each state    *)
(* and each event the state takes. (get_transition_definitions.)           *)
(***************************************************************************)
LEMMA DefinitionIsComplete ==
  /\ StateOrder \in Seq(States) /\ ToSet(StateOrder) = States
  /\ TransitionDefinitions \in Seq(AllRows) /\ ToSet(TransitionDefinitions) = AllRows
  /\ IsInjective(TransitionDefinitions)
<1> DEFINE order == StateOrder
           lists == [i \in DOMAIN order |-> TransitionsFrom(order[i])]
<1>1. /\ order \in Seq(States) /\ DOMAIN order = 1 .. 11
      /\ \A i \in 1 .. 11 : order[i] \in States
      /\ States = {order[1], order[2], order[3], order[4], order[5], order[6],
           order[7], order[8], order[9], order[10], order[11]}
  BY DEF StateOrder, States
<1>2. \A i, j \in 1 .. 11 : i # j => order[i] # order[j]
  BY DEF StateOrder
<1>3. TransitionDefinitions = Joined(lists)
  BY DEF TransitionDefinitions
<1> HIDE DEF order
<1>4. \A i \in 1 .. 11 :
        /\ lists[i] = TransitionsFrom(order[i]) /\ lists[i] \in Seq(AllRows)
        /\ ToSet(lists[i]) = RowsOf(order[i]) /\ IsInjective(lists[i])
  BY <1>1, RowsOfState
<1>5. lists \in Seq(Seq(AllRows)) /\ DOMAIN lists = 1 .. 11
  BY <1>1, <1>4
<1> HIDE DEF lists
<1>6. \A i, j \in 1 .. 11 : i # j => ToSet(lists[i]) \cap ToSet(lists[j]) = {}
  <2>1. \A state : \A row \in RowsOf(state) : row.fromState = state
    BY DEF RowsOf, Row
  <2>2. ASSUME NEW i \in 1 .. 11, NEW j \in 1 .. 11, NEW row, row \in ToSet(lists[i]),
               row \in ToSet(lists[j])
        PROVE  i = j
    <3>1. row \in RowsOf(order[i]) /\ row \in RowsOf(order[j])
      BY <1>4, <2>2
    <3> QED
      BY <1>2, <2>1, <3>1
  <2> QED
    BY <2>2
<1>7. /\ Joined(lists) \in Seq(AllRows)
      /\ ToSet(Joined(lists)) = UNION {ToSet(lists[i]) : i \in DOMAIN lists}
      /\ IsInjective(Joined(lists))
  BY <1>4, <1>5, <1>6, JoinedHaveAll
<1>8. \A row : row \in ToSet(Joined(lists)) <=> \E i \in 1 .. 11 : row \in RowsOf(order[i])
  BY <1>4, <1>5, <1>7
<1>9. \A state : state \in States <=> \E i \in 1 .. 11 : state = order[i]
  BY <1>1
<1>10. \A row : row \in ToSet(Joined(lists)) <=> row \in AllRows
  BY <1>8, <1>9 DEF AllRows
<1>11. ToSet(order) = States
  <2>1. \A state : state \in ToSet(order) <=> \E i \in 1 .. 11 : state = order[i]
    BY <1>1 DEF ToSet
  <2> QED
    BY <1>9, <2>1
<1> QED
  BY <1>1, <1>3, <1>7, <1>10, <1>11 DEF order

(***************************************************************************)
(* The states a list of rows leads to, each where it first comes.          *)
(* (groupAvailableTransitions, orderJourney.ts.)                           *)
(***************************************************************************)
LEMMA ReachedAreTargets ==
  ASSUME NEW list \in Seq(AllRows)
  PROVE  /\ Page!StatesReached(list) \in Seq(States)
         /\ ToSet(Page!StatesReached(list)) = {t.toState : t \in ToSet(list)}
         /\ IsInjective(Page!StatesReached(list))
<1> DEFINE Reached(s) == Noting!Fold(0, 0, <<>>, s)
           Targets(s) == {t.toState : t \in ToSet(s)}
           Good == {s \in Seq(AllRows) :
                      /\ Reached(s) \in Seq(States) /\ ToSet(Reached(s)) = Targets(s)
                      /\ IsInjective(Reached(s))}
<1>1. Page!StatesReached(list) = Reached(list)
  BY DEF Page!StatesReached, Noting!Fold, NoteStep, Page!Contains, Contains, Page!FoldLeft,
     Page!MapThenFoldSet, Page!Max, Noting!FoldLeft, Noting!MapThenFoldSet, Noting!Max
<1>2. <<>> \in Good
  <2>1. Reached(<<>>) = <<>>
    BY Noting!FoldEmpty
  <2>2. ToSet(<<>>) = {} /\ <<>> \in Seq(AllRows) /\ <<>> \in Seq(States) /\ IsInjective(<<>>)
    BY DEF ToSet, IsInjective
  <2> HIDE DEF Reached
  <2> QED
    BY <2>1, <2>2
<1>3. ASSUME NEW s \in Seq(AllRows), NEW t \in AllRows, s \in Good
      PROVE  Append(s, t) \in Good
  <2>1. Reached(Append(s, t)) = IF Contains(Reached(s), t.toState) THEN Reached(s)
                                ELSE Append(Reached(s), t.toState)
    BY Noting!FoldAppend DEF NoteStep
  <2> HIDE DEF Reached
  <2>2. Append(s, t) \in Seq(AllRows) /\ ToSet(Append(s, t)) = ToSet(s) \cup {t}
    <3>1. Append(s, t) \in Seq(AllRows)
      OBVIOUS
    <3> HIDE DEF AllRows
    <3> QED
      BY <3>1, Noting!SetOfAppend DEF Noting!ToSet, ToSet
  <2>3. Targets(Append(s, t)) = Targets(s) \cup {t.toState}
    BY <2>2
  <2>4. Reached(s) \in Seq(States) /\ ToSet(Reached(s)) = Targets(s) /\ IsInjective(Reached(s))
    BY <1>3
  <2> HIDE DEF Targets
  <2>5. Contains(Reached(s), t.toState) <=> t.toState \in Targets(s)
    BY <2>4, ContainsIsIn
  <2>6. t.toState \in States
    BY RowsAreSteps
  <2>7. CASE t.toState \in Targets(s)
    BY <2>1, <2>2, <2>3, <2>4, <2>5, <2>7
  <2>8. CASE t.toState \notin Targets(s)
    <3> DEFINE more == Append(Reached(s), t.toState)
    <3>1. /\ more \in Seq(States) /\ Noting!ToSet(more) = Noting!ToSet(Reached(s)) \cup {t.toState}
          /\ Noting!IsInjective(more)
               <=> Noting!IsInjective(Reached(s)) /\ t.toState \notin Noting!ToSet(Reached(s))
      BY <2>4, <2>6, Noting!SetOfAppend, Noting!DistinctAppend
    <3> HIDE DEF more
    <3>2. ToSet(more) = Targets(s) \cup {t.toState} /\ IsInjective(more) /\ more \in Seq(States)
      BY <2>4, <2>8, <3>1 DEF Noting!ToSet, ToSet, Noting!IsInjective, IsInjective
    <3>3. Reached(Append(s, t)) = more
      BY <2>1, <2>5, <2>8 DEF more
    <3> QED
      BY <2>2, <2>3, <3>2, <3>3
  <2> QED
    BY <2>7, <2>8
<1>4. Seq(AllRows) \subseteq Good
  <2> HIDE DEF Good
  <2> QED
    BY <1>2, <1>3, Noting!SequenceInduction
<1> HIDE DEF Reached
<1> QED
  BY <1>1, <1>4

-----------------------------------------------------------------------------
(* The edges of the journey *)

\* The events a state takes that are on the list of a state, and those of them
\* that lead to a third one.
Shared(state, seen) == AvailableEvents(state) \cap AvailableEvents(seen)

Leading(state, seen, target) ==
  {event \in Shared(state, seen) : NextState(state, event) = target}

Offered(state, seen) ==
  Among(TransitionDefinitions,
        {t \in ToSet(TransitionDefinitions) :
           t.fromState = state /\ Page!Contains(AvailableEventList(seen), t.eventType)})

(***************************************************************************)
(* The rows that are drawn are those of the state shown whose event is on  *)
(* the list. (groupAvailableTransitions, orderJourney.ts.)                 *)
(***************************************************************************)
LEMMA OfferedRows ==
  ASSUME NEW state \in States, NEW seen
  PROVE  /\ Offered(state, seen) \in Seq(AllRows)
         /\ \A row : row \in ToSet(Offered(state, seen))
                      <=> /\ row \in AllRows /\ row.fromState = state
                          /\ row.eventType \in Shared(state, seen)
         /\ IsInjective(Offered(state, seen))
<1> DEFINE rows == TransitionDefinitions
           set  == {t \in ToSet(rows) :
                      t.fromState = state /\ Page!Contains(AvailableEventList(seen), t.eventType)}
<1>1. rows \in Seq(AllRows) /\ ToSet(rows) = AllRows /\ IsInjective(rows)
  BY DefinitionIsComplete
<1>2. \A e : Page!Contains(AvailableEventList(seen), e) <=> e \in AvailableEvents(seen)
  <2>1. /\ AvailableEventList(seen) \in Seq(Events)
        /\ ToSet(AvailableEventList(seen)) = AvailableEvents(seen)
    BY ListIsComplete
  <2> QED
    BY <2>1, ContainsIsIn
<1>3. Offered(state, seen) = Among(rows, set)
  BY DEF Offered
<1> HIDE DEF rows
<1>4. \A row : row \in set <=> /\ row \in AllRows /\ row.fromState = state
                               /\ row.eventType \in AvailableEvents(seen)
  BY <1>1, <1>2
<1> HIDE DEF set
<1>5. /\ Among(rows, set) \in Seq(AllRows) /\ ToSet(Among(rows, set)) = AllRows \cap set
      /\ IsInjective(Among(rows, set))
  BY <1>1, KeptAreAmong
<1>6. \A row \in AllRows : row.fromState = state => row.eventType \in AvailableEvents(state)
  BY RowsAreSteps
<1> QED
  BY <1>3, <1>4, <1>5, <1>6 DEF Shared

(***************************************************************************)
(* The events on the edge to a state are those that lead there, each once. *)
(* (groupAvailableTransitions, orderJourney.ts.)                           *)
(***************************************************************************)
LEMMA EventsLead ==
  ASSUME NEW state \in States, NEW seen, NEW target
  PROVE  LET events == Page!EventsTo(Offered(state, seen), target)
         IN  /\ events \in Seq(Events) /\ IsInjective(events)
             /\ ToSet(events) = Leading(state, seen, target)
<1> DEFINE offered == Offered(state, seen)
           set     == {x \in ToSet(offered) : x.toState = target}
           chosen  == Among(offered, set)
           events  == [i \in DOMAIN chosen |-> chosen[i].eventType]
<1>1. Page!EventsTo(offered, target) = events
  <2>1. Page!LeadingTo(offered, target) = chosen
    BY PageLists DEF Page!LeadingTo
  <2> QED
    BY <2>1 DEF Page!EventsTo
<1>2. /\ offered \in Seq(AllRows) /\ IsInjective(offered)
      /\ \A row : row \in ToSet(offered)
                   <=> /\ row \in AllRows /\ row.fromState = state
                       /\ row.eventType \in Shared(state, seen)
  BY OfferedRows
<1> HIDE DEF offered
<1>3. \A row : row \in set <=> /\ row \in AllRows /\ row.fromState = state
                               /\ row.eventType \in Shared(state, seen)
                               /\ row.toState = target
  BY <1>2
<1>4. set \subseteq ToSet(offered)
  OBVIOUS
<1> HIDE DEF set
<1>5. chosen \in Seq(AllRows) /\ ToSet(chosen) = set /\ IsInjective(chosen)
  <2>1. ToSet(chosen) = ToSet(offered) \cap set
    BY <1>2, KeptAreAmong
  <2> QED
    BY <1>2, <1>4, <2>1, KeptAreAmong
<1> HIDE DEF chosen
<1>6. /\ DOMAIN chosen = 1 .. Len(chosen) /\ Len(chosen) \in Nat
      /\ DOMAIN events = DOMAIN chosen /\ \A i \in DOMAIN chosen : events[i] = chosen[i].eventType
  BY <1>5
<1>7. \A row : row \in set <=> \E i \in DOMAIN chosen : row = chosen[i]
  BY <1>5 DEF ToSet
<1>8. \A i \in DOMAIN chosen : chosen[i] \in set
  BY <1>7
<1>9. events \in Seq(Events)
  <2>1. \A i \in DOMAIN chosen : chosen[i].eventType \in Events
    BY <1>3, <1>8, RowsAreSteps
  <2> QED
    BY <1>6, <2>1
<1> HIDE DEF events
<1>10. IsInjective(events)
  <2>1. \A i \in DOMAIN chosen : chosen[i] = Row(state, chosen[i].eventType)
    BY <1>3, <1>8, RowsAreSteps
  <2>2. \A i, j \in DOMAIN chosen : chosen[i] = chosen[j] => i = j
    BY <1>5 DEF IsInjective
  <2>3. ASSUME NEW i \in DOMAIN events, NEW j \in DOMAIN events, events[i] = events[j]
        PROVE  i = j
    <3>1. chosen[i] = chosen[j]
      BY <1>6, <2>1, <2>3
    <3> QED
      BY <1>6, <2>2, <3>1
  <2> QED
    BY <2>3 DEF IsInjective
<1>11. ASSUME NEW event
       PROVE  event \in ToSet(events) <=> event \in Leading(state, seen, target)
  <2>1. event \in ToSet(events) <=> \E i \in DOMAIN chosen : event = chosen[i].eventType
    BY <1>6 DEF ToSet
  <2>2. event \in ToSet(events) <=> \E row \in set : event = row.eventType
    BY <1>7, <2>1
  <2>3. ASSUME NEW row \in set, event = row.eventType PROVE event \in Leading(state, seen, target)
    <3>1. row = Row(state, event)
      BY <1>3, <2>3, RowsAreSteps
    <3>2. row.toState = NextState(state, event)
      BY <3>1 DEF Row
    <3> QED
      BY <1>3, <2>3, <3>2 DEF Leading
  <2>4. ASSUME event \in Leading(state, seen, target) PROVE \E row \in set : event = row.eventType
    <3> DEFINE row == Row(state, event)
    <3>1. /\ event \in Shared(state, seen) /\ NextState(state, event) = target
      BY <2>4 DEF Leading
    <3>2. row.fromState = state /\ row.eventType = event /\ row.toState = target
      BY <3>1 DEF Row
    <3>3. row \in AllRows
      BY <3>1, RowsAreSteps DEF Shared
    <3> HIDE DEF row
    <3>4. row \in set
      BY <1>3, <3>1, <3>2, <3>3
    <3> QED
      BY <3>2, <3>4
  <2> QED
    BY <2>2, <2>3, <2>4
<1>12. ToSet(events) = Leading(state, seen, target)
  BY <1>11
<1> QED
  BY <1>1, <1>9, <1>10, <1>12 DEF offered

\* What the drawn edges of the available events are.
Invites(edges, state, seen) ==
  /\ edges \in Seq(ToSet(edges))
  /\ Len(edges) \in Nat /\ DOMAIN edges = 1 .. Len(edges)
  /\ \A i \in DOMAIN edges :
       /\ edges[i].id = <<"available", state, edges[i].toState>>
       /\ edges[i].fromState = state
       /\ edges[i].toState \in States
       /\ edges[i].eventTypes \in Seq(Events)
       /\ IsInjective(edges[i].eventTypes)
       /\ ToSet(edges[i].eventTypes) = Leading(state, seen, edges[i].toState)
  /\ \A i, j \in DOMAIN edges : edges[i].toState = edges[j].toState => i = j
  /\ \A target : (\E i \in DOMAIN edges : edges[i].toState = target)
                   <=> Leading(state, seen, target) # {}

(***************************************************************************)
(* There is an edge to each state an available event leads to, and one     *)
(* only. (groupAvailableTransitions, orderJourney.ts.)                     *)
(***************************************************************************)
LEMMA EdgesInvite ==
  ASSUME NEW state \in States, NEW seen
  PROVE  Invites(Page!GroupAvailableTransitions(TransitionDefinitions, state,
                                                AvailableEventList(seen)), state, seen)
<1> DEFINE offered == Offered(state, seen)
           targets == Page!StatesReached(offered)
           edges   == [i \in DOMAIN targets |->
                         Page!Edge(<<"available", state, targets[i]>>, state, targets[i],
                                   Page!EventsTo(offered, targets[i]), "available")]
<1>1. Page!GroupAvailableTransitions(TransitionDefinitions, state, AvailableEventList(seen)) = edges
  BY PageLists DEF Page!GroupAvailableTransitions, Offered
<1>2. /\ offered \in Seq(AllRows)
      /\ \A row : row \in ToSet(offered)
                   <=> /\ row \in AllRows /\ row.fromState = state
                       /\ row.eventType \in Shared(state, seen)
  BY OfferedRows
<1>3. \A target : /\ Page!EventsTo(offered, target) \in Seq(Events)
                  /\ IsInjective(Page!EventsTo(offered, target))
                  /\ ToSet(Page!EventsTo(offered, target)) = Leading(state, seen, target)
  BY EventsLead
<1> HIDE DEF offered
<1>4. /\ targets \in Seq(States) /\ ToSet(targets) = {t.toState : t \in ToSet(offered)}
      /\ IsInjective(targets)
  BY <1>2, ReachedAreTargets
<1> HIDE DEF targets
<1>5. /\ Len(targets) \in Nat /\ DOMAIN targets = 1 .. Len(targets)
      /\ \A i \in DOMAIN targets : targets[i] \in States
      /\ \A i, j \in DOMAIN targets : targets[i] = targets[j] => i = j
  BY <1>4 DEF IsInjective
<1>6. /\ DOMAIN edges = DOMAIN targets /\ Len(edges) = Len(targets)
      /\ \A i \in DOMAIN targets :
           /\ edges[i].id = <<"available", state, targets[i]>>
           /\ edges[i].fromState = state
           /\ edges[i].toState = targets[i]
           /\ edges[i].eventTypes = Page!EventsTo(offered, targets[i])
  BY <1>5 DEF Page!Edge
<1>7. edges \in Seq(ToSet(edges))
  <2>1. \A i \in DOMAIN targets : edges[i] \in ToSet(edges)
    BY DEF ToSet
  <2> QED
    BY <1>5, <2>1
<1> HIDE DEF edges
<1>8. ASSUME NEW target
      PROVE  (\E i \in DOMAIN edges : edges[i].toState = target)
               <=> Leading(state, seen, target) # {}
  <2>1. target \in ToSet(targets) <=> \E i \in DOMAIN targets : targets[i] = target
    BY DEF ToSet
  <2>2. target \in ToSet(targets) <=> \E row \in ToSet(offered) : row.toState = target
    BY <1>4
  <2>3. ASSUME NEW row \in ToSet(offered), row.toState = target
        PROVE  row.eventType \in Leading(state, seen, target)
    <3>1. row \in AllRows /\ row.fromState = state /\ row.eventType \in Shared(state, seen)
      BY <1>2
    <3>2. row = Row(state, row.eventType)
      BY <3>1, RowsAreSteps
    <3>3. row.toState = NextState(state, row.eventType)
      BY <3>2 DEF Row
    <3> QED
      BY <2>3, <3>1, <3>3 DEF Leading
  <2>4. ASSUME NEW event \in Leading(state, seen, target)
        PROVE  \E row \in ToSet(offered) : row.toState = target
    <3> DEFINE row == Row(state, event)
    <3>1. /\ event \in Shared(state, seen) /\ NextState(state, event) = target
      BY DEF Leading
    <3>2. row.fromState = state /\ row.eventType = event /\ row.toState = target
      BY <3>1 DEF Row
    <3>3. row \in AllRows
      BY <3>1, RowsAreSteps DEF Shared
    <3> HIDE DEF row
    <3> QED
      BY <1>2, <3>1, <3>2, <3>3
  <2> QED
    BY <1>6, <2>1, <2>2, <2>3, <2>4
<1>9. Invites(edges, state, seen)
  BY <1>3, <1>5, <1>6, <1>7, <1>8 DEF Invites
<1> QED
  BY <1>1, <1>9

(***************************************************************************)
(* The events on the edges together are the shared ones, each once.        *)
(* (groupAvailableTransitions, orderJourney.ts.)                           *)
(***************************************************************************)
LEMMA InvitedEvents ==
  ASSUME NEW state, NEW seen, NEW edges, Invites(edges, state, seen)
  PROVE  /\ Page!EventsOfEdges(edges) \in Seq(Events)
         /\ ToSet(Page!EventsOfEdges(edges)) = Shared(state, seen)
         /\ IsInjective(Page!EventsOfEdges(edges))
<1> DEFINE lists == [i \in DOMAIN edges |-> edges[i].eventTypes]
<1>1. Page!EventsOfEdges(edges) = Joined(lists)
  BY PageLists DEF Page!EventsOfEdges
<1>2. /\ DOMAIN lists = DOMAIN edges /\ lists \in Seq(Seq(Events))
      /\ \A i \in DOMAIN edges :
           /\ IsInjective(lists[i])
           /\ ToSet(lists[i]) = Leading(state, seen, edges[i].toState)
  BY DEF Invites
<1> HIDE DEF lists
<1>3. ASSUME NEW i \in DOMAIN lists, NEW j \in DOMAIN lists, i # j
      PROVE  ToSet(lists[i]) \cap ToSet(lists[j]) = {}
  <2>1. edges[i].toState # edges[j].toState
    BY <1>2, <1>3 DEF Invites
  <2> QED
    BY <1>2, <2>1 DEF Leading
<1>4. /\ Joined(lists) \in Seq(Events)
      /\ ToSet(Joined(lists)) = UNION {ToSet(lists[i]) : i \in DOMAIN lists}
      /\ IsInjective(Joined(lists))
  BY <1>2, <1>3, JoinedHaveAll
<1>5. ASSUME NEW event
      PROVE  event \in ToSet(Joined(lists)) <=> event \in Shared(state, seen)
  <2>1. event \in ToSet(Joined(lists)) <=> \E i \in DOMAIN lists : event \in ToSet(lists[i])
    BY <1>4
  <2>2. ASSUME NEW i \in DOMAIN lists, event \in ToSet(lists[i])
        PROVE  event \in Shared(state, seen)
    BY <1>2, <2>2 DEF Leading
  <2>3. ASSUME event \in Shared(state, seen)
        PROVE  \E i \in DOMAIN lists : event \in ToSet(lists[i])
    <3> DEFINE target == NextState(state, event)
    <3>1. event \in Leading(state, seen, target)
      BY <2>3 DEF Leading
    <3>2. PICK i \in DOMAIN edges : edges[i].toState = target
      BY <3>1 DEF Invites
    <3> QED
      BY <1>2, <3>1, <3>2
  <2> QED
    BY <2>1, <2>2, <2>3
<1>6. ToSet(Joined(lists)) = Shared(state, seen)
  BY <1>5
<1> QED
  BY <1>1, <1>4, <1>6

\* The parts of the journey that is drawn of an order.
Journey(order, seen) == Page!CreateOrderJourney(order, Definition, AvailableEventList(seen))

(***************************************************************************)
(* What createOrderJourney makes of an order, its definition and a list of *)
(* events. (orderJourney.ts.)                                              *)
(***************************************************************************)
LEMMA JourneyParts ==
  ASSUME NEW order \in Order, NEW seen
  PROVE  LET model == Journey(order, seen)
         IN  /\ Invites(model.availableEdges, order.state, seen)
             /\ \A target : target \in model.availableNextStates
                             <=> Leading(order.state, seen, target) # {}
             /\ model.currentState = order.state
             /\ model.historicalEdges = Page!HistoricalEdges(order)
             /\ model.terminalStates = TerminalStates
             /\ model.visibleEdges = model.historicalEdges \o model.availableEdges
             /\ model.visitedStates = Page!VisitedStates(order)
<1> DEFINE model == Journey(order, seen)
           edges == Page!GroupAvailableTransitions(TransitionDefinitions, order.state,
                                                   AvailableEventList(seen))
<1>1. order.state \in States
  BY DEF Order
<1>2. Invites(edges, order.state, seen)
  BY <1>1, EdgesInvite
<1>3. Definition.states = StateOrder /\ Definition.transitions = TransitionDefinitions
  BY DEF Definition
<1>4. /\ model.availableEdges = edges
      /\ model.availableNextStates = Page!StatesTo(edges)
      /\ model.currentState = order.state
      /\ model.historicalEdges = Page!HistoricalEdges(order)
      /\ model.terminalStates = Page!EndStates(Definition)
      /\ model.visibleEdges = Page!HistoricalEdges(order) \o edges
      /\ model.visitedStates = Page!VisitedStates(order)
  BY <1>3 DEF Journey, Page!CreateOrderJourney
<1> HIDE DEF model, edges
<1>5. \A target : target \in Page!StatesTo(edges) <=> Leading(order.state, seen, target) # {}
  BY <1>2 DEF Page!StatesTo, Invites
<1>6. Page!EndStates(Definition) = TerminalStates
  <2>1. Page!EndStates(Definition) = {s \in States : \A t \in AllRows : t.fromState # s}
    BY <1>3, PageLists, DefinitionIsComplete DEF Page!EndStates
  <2>2. ASSUME NEW s \in States
        PROVE  (\A t \in AllRows : t.fromState # s) <=> AvailableEvents(s) = {}
    <3>1. ASSUME NEW t \in AllRows, t.fromState = s PROVE AvailableEvents(s) # {}
      BY <3>1, RowsAreSteps
    <3>2. ASSUME NEW event \in AvailableEvents(s) PROVE \E t \in AllRows : t.fromState = s
      BY RowsAreSteps, Row(s, event).fromState = s DEF Row
    <3> QED
      BY <3>1, <3>2
  <2> QED
    BY <2>1, <2>2 DEF TerminalStates
<1> QED
  BY <1>2, <1>4, <1>5, <1>6 DEF model

-----------------------------------------------------------------------------
(* What the journey promises *)

\* The promise on what is offered, of one order and the state of a list.
DrawsOffered(order, state, model) ==
  LET offered == Page!EventsOfEdges(model.availableEdges)
  IN /\ \A edge \in ToSet(model.availableEdges) :
          \A event \in ToSet(edge.eventTypes) :
            <<order.state, event, edge.toState>> \in Transitions
     /\ IsWithoutRepeats(offered)
     /\ state = order.state =>
          /\ ToSet(offered) = AvailableEvents(order.state)
          /\ order.state \in model.terminalStates <=> offered = <<>>

(***************************************************************************)
(* A list without repeats has as many elements as places.                  *)
(***************************************************************************)
LEMMA CountOfList ==
  ASSUME NEW list, NEW n \in Nat, DOMAIN list = 1 .. n,
         \A i, j \in 1 .. n : list[i] = list[j] => i = j
  PROVE  Cardinality(ToSet(list)) = n
<1>1. Keeping!IsInjective(list)
  BY DEF Keeping!IsInjective
<1>2. Keeping!Cardinality(Keeping!ToSet(list)) = n
  BY <1>1, Keeping!CountOfDistinct
<1>3. \A T : Keeping!Cardinality(T) = Cardinality(T)
  BY DEF Keeping!Cardinality, Cardinality
<1> QED
  BY <1>2, <1>3 DEF ToSet, Keeping!ToSet

(***************************************************************************)
(* The journey of an order offers what its lifecycle does, whatever the    *)
(* age of the list of events. (groupAvailableTransitions,                  *)
(* createOrderJourney, orderJourney.ts.)                                   *)
(***************************************************************************)
LEMMA JourneyOffers ==
  ASSUME NEW order \in Order, NEW state
  PROVE  DrawsOffered(order, state, Journey(order, state))
<1> DEFINE model   == Journey(order, state)
           edges   == model.availableEdges
           offered == Page!EventsOfEdges(edges)
<1>1. /\ Invites(edges, order.state, state) /\ model.terminalStates = TerminalStates
      /\ order.state \in States
  BY JourneyParts DEF Order
<1> HIDE DEF model
<1>2. /\ offered \in Seq(Events) /\ IsInjective(offered)
      /\ ToSet(offered) = Shared(order.state, state)
  BY <1>1, InvitedEvents
<1>3. ASSUME NEW edge \in ToSet(edges), NEW event \in ToSet(edge.eventTypes)
      PROVE  <<order.state, event, edge.toState>> \in Transitions
  <2>1. PICK i \in DOMAIN edges : edge = edges[i]
    BY DEF ToSet
  <2>2. event \in Leading(order.state, state, edge.toState)
    BY <1>1, <2>1 DEF Invites
  <2>3. IsEnabled(order.state, event) /\ edge.toState = NextState(order.state, event)
    BY <2>2 DEF Leading, Shared, AvailableEvents
  <2> QED
    BY <2>3, NextStateIsRow
<1> HIDE DEF edges
<1>4. IsWithoutRepeats(offered)
  BY <1>2, CountOfList DEF IsWithoutRepeats, IsInjective
<1>5. offered = <<>> <=> ToSet(offered) = {}
  BY <1>2 DEF ToSet
<1> HIDE DEF offered
<1>6. ASSUME state = order.state
      PROVE  /\ ToSet(offered) = AvailableEvents(order.state)
             /\ order.state \in model.terminalStates <=> offered = <<>>
  <2>1. ToSet(offered) = AvailableEvents(order.state)
    BY <1>2, <1>6 DEF Shared
  <2> QED
    BY <1>1, <1>5, <2>1 DEF TerminalStates
<1> QED
  BY <1>3, <1>4, <1>6 DEF DrawsOffered, offered, edges, model

(***************************************************************************)
(* What the page draws of an order it may go on from: for any rules, and   *)
(* with an older list of events too. (orderJourney.ts.)                    *)
(***************************************************************************)
THEOREM OffersWhatIsOffered == Spec => []DrawsWhatIsOffered
<1>1. TypeOK => DrawsWhatIsOffered
  <2> SUFFICES ASSUME TypeOK
               PROVE  DrawsWhatIsOffered
    OBVIOUS
  <2>1. ASSUME NEW o \in OrderIds, orders[o] # None, NEW state \in States
        PROVE  DrawsOffered(orders[o], state, Journey(orders[o], state))
    BY <2>1, JourneyOffers DEF TypeOK
  <2> QED
    BY <2>1 DEF DrawsWhatIsOffered, EveryJourney, Drawn, Journey, DrawsOffered
<1> QED
  BY <1>1, LedgerTypes, PTL

\* The promise on what is seen, of one order.
PartsOutsideColumns(model) ==
  LET drawn == Page!DrawableEdges(model)
  IN /\ Cardinality({entry.edge.id : entry \in drawn}) = Len(model.visibleEdges)
     /\ \A entry \in drawn : entry.path.isSeen
     /\ \A one \in drawn :
          one.path.from.x # one.path.to.x =>
            \A other \in drawn \ {one} : ~OnOneLine(one.path, other.path)

(***************************************************************************)
(* Every state has a place, and no two have the same.                      *)
(* (STATE_POSITIONS, DesktopOrderJourney.tsx.)                             *)
(***************************************************************************)
LEMMA PlacesDiffer ==
  /\ \A s \in States : Page!HasPosition(s)
  /\ \A s, t \in States : s # t => Page!STATE_POSITIONS[s] # Page!STATE_POSITIONS[t]
  /\ \A s \in States : Page!STATE_POSITIONS[s].x \in Int /\ Page!STATE_POSITIONS[s].y \in Int
<1>1. DOMAIN Page!STATE_POSITIONS = States
  BY DEF Page!STATE_POSITIONS, States
<1>2. \A x, y, u, v : Page!Place(x, y) = Page!Place(u, v) => x = u /\ y = v
  <2>1. \A x, y : Page!Place(x, y).x = x /\ Page!Place(x, y).y = y
    BY DEF Page!Place
  <2> QED
    BY <2>1
<1>3. \A s, t \in States : s # t => Page!STATE_POSITIONS[s] # Page!STATE_POSITIONS[t]
  BY <1>2 DEF Page!STATE_POSITIONS, States
<1>4. \A s \in States : Page!STATE_POSITIONS[s].x \in Int /\ Page!STATE_POSITIONS[s].y \in Int
  BY DEF Page!STATE_POSITIONS, Page!Place, States
<1> QED
  BY <1>1, <1>3, <1>4 DEF Page!HasPosition

\* An edge from one state to another.
IsEdge(edge) ==
  /\ edge.fromState \in States /\ edge.toState \in States
  /\ edge.fromState # edge.toState

(***************************************************************************)
(* If no entry of the history stays in its state, every visible edge leads *)
(* from one state to another, and no two have the same key.                *)
(* (createOrderJourney, orderJourney.ts.)                                  *)
(***************************************************************************)
LEMMA VisibleEdges ==
  ASSUME NEW order \in Order, NEW seen,
         \A i \in DOMAIN order.history : order.history[i].from # order.history[i].to
  PROVE  LET edges == Journey(order, seen).visibleEdges
         IN  /\ Len(edges) \in Nat /\ DOMAIN edges = 1 .. Len(edges)
             /\ \A i \in DOMAIN edges : IsEdge(edges[i])
             /\ \A i, j \in DOMAIN edges : edges[i].id = edges[j].id => i = j
<1> DEFINE model == Journey(order, seen)
           past  == Page!HistoricalEdges(order)
           next  == model.availableEdges
           h     == order.history
           edges == past \o next
           S     == ToSet(past) \cup ToSet(next)
<1>1. /\ Invites(next, order.state, seen) /\ model.visibleEdges = edges
      /\ order.state \in States
  BY JourneyParts DEF Order
<1> HIDE DEF model
<1>2. /\ h \in Seq(Entry) /\ Len(h) \in Nat /\ DOMAIN h = 1 .. Len(h)
      /\ \A i \in DOMAIN h : h[i].from \in States /\ h[i].to \in States /\ h[i].from # h[i].to
  <2>1. h \in Seq(Entry)
    BY DEF Order
  <2>2. \A e \in Entry : e.from \in States /\ e.to \in States
    BY DEF Entry
  <2> HIDE DEF h
  <2>3. Len(h) \in Nat /\ DOMAIN h = 1 .. Len(h) /\ \A i \in DOMAIN h : h[i] \in Entry
    BY <2>1
  <2> QED
    BY <2>1, <2>2, <2>3 DEF h
<1>3. /\ DOMAIN past = DOMAIN h /\ past \in Seq(S) /\ Len(past) = Len(h)
      /\ \A i \in DOMAIN h :
           /\ past[i].id = <<"historical", i, h[i].from, h[i].event, h[i].to>>
           /\ past[i].fromState = h[i].from /\ past[i].toState = h[i].to
  <2>1. DOMAIN past = DOMAIN h
    BY DEF Page!HistoricalEdges
  <2>2. \A i \in DOMAIN h :
           /\ past[i].id = <<"historical", i, h[i].from, h[i].event, h[i].to>>
           /\ past[i].fromState = h[i].from /\ past[i].toState = h[i].to
    BY DEF Page!HistoricalEdges, Page!Edge
  <2>3. \A i \in DOMAIN h : past[i] \in S
    BY <2>1 DEF ToSet
  <2>4. past = [i \in DOMAIN h |-> past[i]]
    BY DEF Page!HistoricalEdges
  <2> HIDE DEF past, S, h
  <2>5. past \in Seq(S) /\ Len(past) = Len(h)
    BY <1>2, <2>3, <2>4
  <2> QED
    BY <2>1, <2>2, <2>5
<1>4. /\ DOMAIN next = 1 .. Len(next) /\ Len(next) \in Nat /\ next \in Seq(S)
      /\ \A i \in DOMAIN next :
           /\ next[i].id = <<"available", order.state, next[i].toState>>
           /\ next[i].fromState = order.state /\ next[i].toState \in States
           /\ next[i].toState # order.state
      /\ \A i, j \in DOMAIN next : next[i].toState = next[j].toState => i = j
  <2>1. \A i \in DOMAIN next : next[i].toState # order.state
    <3> SUFFICES ASSUME NEW i \in DOMAIN next
                 PROVE  next[i].toState # order.state
      OBVIOUS
    <3>0. Leading(order.state, seen, next[i].toState) # {}
      BY <1>1 DEF Invites
    <3>1. PICK event : event \in Leading(order.state, seen, next[i].toState)
      BY <3>0
    <3>2. next[i].toState = NextState(order.state, event)
      BY <3>1 DEF Leading
    <3>3. <<order.state, event, next[i].toState>> \in Transitions
      BY <3>1, <3>2, NextStateIsRow DEF Leading, Shared, AvailableEvents
    <3> QED
      BY <3>3, RowsAreSteps
  <2>2. next \in Seq(S)
    BY <1>1 DEF Invites
  <2> QED
    BY <1>1, <2>1, <2>2 DEF Invites
<1> HIDE DEF past, next, h, S
<1>5. /\ DOMAIN edges = 1 .. Len(h) + Len(next) /\ Len(edges) = Len(h) + Len(next)
      /\ \A i \in DOMAIN edges :
           edges[i] = IF i <= Len(h) THEN past[i] ELSE next[i - Len(h)]
  BY <1>2, <1>3, <1>4
<1> HIDE DEF edges
<1>6. ASSUME NEW i \in DOMAIN edges
      PROVE  /\ i \in Nat
             /\ i <= Len(h) => i \in DOMAIN h /\ edges[i] = past[i]
             /\ ~(i <= Len(h)) => i - Len(h) \in DOMAIN next /\ edges[i] = next[i - Len(h)]
  BY <1>2, <1>4, <1>5
<1>7. ASSUME NEW i \in DOMAIN edges
      PROVE  IsEdge(edges[i])
  <2>1. CASE i <= Len(h)
    BY <1>2, <1>3, <1>6, <2>1 DEF IsEdge
  <2>2. CASE ~(i <= Len(h))
    BY <1>1, <1>4, <1>6, <2>2 DEF IsEdge
  <2> QED
    BY <2>1, <2>2
<1>8. ASSUME NEW i \in DOMAIN edges, NEW j \in DOMAIN edges, edges[i].id = edges[j].id
      PROVE  i = j
  <2>1. ASSUME NEW k \in DOMAIN edges, k <= Len(h)
        PROVE  edges[k].id[1] = "historical" /\ edges[k].id[2] = k
    BY <1>3, <1>6, <2>1
  <2>2. ASSUME NEW k \in DOMAIN edges, ~(k <= Len(h))
        PROVE  edges[k].id[1] = "available" /\ edges[k].id[3] = next[k - Len(h)].toState
    BY <1>4, <1>6, <2>2
  <2>3. CASE i <= Len(h)
    BY <1>8, <2>1, <2>2, <2>3
  <2>4. CASE ~(i <= Len(h))
    <3>1. ~(j <= Len(h))
      BY <1>8, <2>1, <2>2, <2>4
    <3>2. next[i - Len(h)].toState = next[j - Len(h)].toState
      BY <1>8, <2>2, <2>4, <3>1
    <3>3. i - Len(h) = j - Len(h)
      BY <1>4, <1>6, <2>4, <3>1, <3>2
    <3> QED
      BY <1>2, <1>6, <3>3
  <2> QED
    BY <2>3, <2>4
<1>9. Len(edges) \in Nat /\ DOMAIN edges = 1 .. Len(edges)
  BY <1>2, <1>4, <1>5
<1> QED
  BY <1>1, <1>7, <1>8, <1>9 DEF model

(***************************************************************************)
(* A control point that is moved up or down stays in line with the ends    *)
(* only if they are in one column.                                         *)
(***************************************************************************)
LEMMA MovedOutOfLine ==
  ASSUME NEW d \in Int, NEW e \in Int, NEW m \in Int, d # 0, d * e = (e + m) * d
  PROVE  m = 0
<1>1. (e + m) * d = e * d + m * d
  OBVIOUS
<1>2. d * e = e * d /\ e * d \in Int /\ m * d \in Int
  OBVIOUS
<1>3. m * d = 0
  BY <1>1, <1>2
<1> QED
  BY <1>3

(***************************************************************************)
(* Two curves between the same two states of different columns part: they  *)
(* have different control points, and only one may be straight. (pathFor,  *)
(* DesktopOrderJourney.tsx.)                                               *)
(***************************************************************************)
LEMMA CurvesPart ==
  ASSUME NEW e, NEW f, IsEdge(e), IsEdge(f), NEW count \in Nat,
         NEW i \in 1 .. count, NEW j \in 1 .. count, i # j,
         Page!PathFor(e, i, count).from.x # Page!PathFor(e, i, count).to.x
  PROVE  ~OnOneLine(Page!PathFor(e, i, count), Page!PathFor(f, j, count))
<1> DEFINE p == Page!PathFor(e, i, count)
           q == Page!PathFor(f, j, count)
           up   == 28 * (2 * (i - 1) - (count - 1))
           down == 28 * (2 * (j - 1) - (count - 1))
<1>1. /\ p.from.x \in Int /\ p.from.y \in Int /\ p.to.x \in Int /\ p.to.y \in Int
      /\ q.from.x \in Int /\ q.from.y \in Int /\ q.to.x \in Int /\ q.to.y \in Int
  BY PlacesDiffer DEF IsEdge, Page!PathFor
<1>2. /\ p.control.x = p.from.x + p.to.x /\ p.control.y = p.from.y + p.to.y + up
      /\ q.control.x = q.from.x + q.to.x /\ q.control.y = q.from.y + q.to.y + down
  BY DEF Page!PathFor, Page!Place
<1>3. up \in Int /\ down \in Int /\ up # down
  OBVIOUS
<1>4. p.from.x # p.to.x
  OBVIOUS
<1> HIDE DEF p, q, up, down
<1>5. SUFFICES ASSUME OnOneLine(p, q)
               PROVE  FALSE
  BY DEF p, q
<1>6. \/ p.from = q.from /\ p.to = q.to
      \/ p.from = q.to /\ p.to = q.from
  BY <1>5 DEF OnOneLine
<1>7. p.control.y # q.control.y
  <2>1. ASSUME NEW middle \in Int
        PROVE  middle + up # middle + down
    BY <1>3
  <2>2. p.from.y + p.to.y \in Int /\ p.from.y + p.to.y = q.from.y + q.to.y
    BY <1>1, <1>6
  <2>3. p.from.y + p.to.y + up # p.from.y + p.to.y + down
    BY <2>1, <2>2
  <2> QED
    BY <1>2, <2>2, <2>3
<1>8. IsStraight(p) /\ IsStraight(q)
  BY <1>5, <1>7 DEF OnOneLine
<1>9. q.from.x # q.to.x
  BY <1>4, <1>6
<1>10. up = 0
  <2> DEFINE d == p.to.x - p.from.x
             h == p.to.y - p.from.y
  <2>1. d \in Int /\ h \in Int /\ d # 0
    BY <1>1, <1>4
  <2>2. /\ p.control.x - 2 * p.from.x = d
        /\ p.control.y - 2 * p.from.y = h + up
    BY <1>1, <1>2, <1>3
  <2>3. d * h = (h + up) * d
    <3>1. (p.control.x - 2 * p.from.x) * h = (p.control.y - 2 * p.from.y) * d
      BY <1>8 DEF IsStraight
    <3> HIDE DEF d, h
    <3> QED
      BY <2>2, <3>1
  <2> HIDE DEF d, h
  <2> QED
    BY <1>3, <2>1, <2>3, MovedOutOfLine
<1>11. down = 0
  <2> DEFINE d == q.to.x - q.from.x
             h == q.to.y - q.from.y
  <2>1. d \in Int /\ h \in Int /\ d # 0
    BY <1>1, <1>9
  <2>2. /\ q.control.x - 2 * q.from.x = d
        /\ q.control.y - 2 * q.from.y = h + down
    BY <1>1, <1>2, <1>3
  <2>3. d * h = (h + down) * d
    <3>1. (q.control.x - 2 * q.from.x) * h = (q.control.y - 2 * q.from.y) * d
      BY <1>8 DEF IsStraight
    <3> HIDE DEF d, h
    <3> QED
      BY <2>2, <3>1
  <2> HIDE DEF d, h
  <2> QED
    BY <1>3, <2>1, <2>3, MovedOutOfLine
<1> QED
  BY <1>3, <1>10, <1>11

(***************************************************************************)
(* The curves of a journey outside the columns part, and each is seen.     *)
(* (pathFor, drawableEdges, DesktopOrderJourney.tsx.)                      *)
(***************************************************************************)
LEMMA JourneyCurvesPart ==
  ASSUME NEW order \in Order, NEW seen,
         \A i \in DOMAIN order.history : order.history[i].from # order.history[i].to
  PROVE  PartsOutsideColumns(Journey(order, seen))
<1> DEFINE model == Journey(order, seen)
           edges == model.visibleEdges
           count == Len(edges)
           drawn == Page!DrawableEdges(model)
<1>1. /\ count \in Nat /\ DOMAIN edges = 1 .. count
      /\ \A i \in 1 .. count : IsEdge(edges[i])
      /\ \A i, j \in 1 .. count : edges[i].id = edges[j].id => i = j
  BY VisibleEdges
<1> DEFINE entry(i) == [edge |-> edges[i], path |-> Page!PathFor(edges[i], i, count)]
           ids   == [i \in 1 .. count |-> edges[i].id]
<1>2. drawn = {entry(i) : i \in 1 .. count}
  <2>1. \A i \in 1 .. count : /\ Page!HasPosition(edges[i].fromState)
                              /\ Page!HasPosition(edges[i].toState)
    BY <1>1, PlacesDiffer DEF IsEdge
  <2> HIDE DEF model
  <2> QED
    BY <1>1, <2>1 DEF Page!DrawableEdges
<1> HIDE DEF model, edges, count, drawn
<1>3. \A i \in 1 .. count : /\ entry(i).edge = edges[i]
                              /\ entry(i).path = Page!PathFor(edges[i], i, count)
  OBVIOUS
<1> HIDE DEF entry
<1>4. {e.edge.id : e \in drawn} = ToSet(ids)
  <2>1. \A x : x \in ToSet(ids) <=> \E i \in 1 .. count : x = edges[i].id
    BY DEF ToSet
  <2> HIDE DEF ids
  <2> QED
    BY <1>2, <1>3, <2>1
<1>5. Cardinality(ToSet(ids)) = count
  BY <1>1, CountOfList
<1>6. ASSUME NEW x \in drawn
      PROVE  x.path.isSeen
  <2>1. PICK i \in 1 .. count : x = entry(i)
    BY <1>2
  <2>2. Page!PathFor(edges[i], i, count).isSeen
    BY <1>1, PlacesDiffer DEF IsEdge, Page!PathFor
  <2> QED
    BY <1>3, <2>1, <2>2
<1>7. ASSUME NEW x \in drawn, NEW y \in drawn \ {x}, x.path.from.x # x.path.to.x
      PROVE  ~OnOneLine(x.path, y.path)
  <2>1. PICK i \in 1 .. count : x = entry(i)
    BY <1>2
  <2>2. PICK j \in 1 .. count : y = entry(j)
    BY <1>2
  <2>3. i # j
    BY <2>1, <2>2
  <2>4. /\ x.path = Page!PathFor(edges[i], i, count)
        /\ y.path = Page!PathFor(edges[j], j, count)
    BY <1>3, <2>1, <2>2
  <2>5. IsEdge(edges[i]) /\ IsEdge(edges[j])
    BY <1>1
  <2>6. Page!PathFor(edges[i], i, count).from.x # Page!PathFor(edges[i], i, count).to.x
    BY <1>7, <2>4
  <2>7. ~OnOneLine(Page!PathFor(edges[i], i, count), Page!PathFor(edges[j], j, count))
    BY <1>1, <2>3, <2>5, <2>6, CurvesPart
  <2> QED
    BY <2>4, <2>7
<1> HIDE DEF ids
<1>8. Cardinality({e.edge.id : e \in drawn}) = count
  BY <1>4, <1>5
<1> QED
  BY <1>6, <1>7, <1>8 DEF PartsOutsideColumns, model, edges, count, drawn

(***************************************************************************)
(* With the default rules every edge is drawn, and two run along one line  *)
(* between states of one column only, however often an order went around:  *)
(* the table leads from each state to another one, and so does the only    *)
(* override, from PendingPayment to OnHold.                                *)
(* (DesktopOrderJourney.tsx, default_rules.json.)                          *)
(***************************************************************************)
THEOREM EdgesPartOutsideColumns ==
  ASSUME Rules = DefaultRules
  PROVE  Spec => []LinesAreSharedInColumnsOnly
<1>1. TypeOK /\ HistoryIsChain /\ OverridesAreReviews => LinesAreSharedInColumnsOnly
  <2> SUFFICES ASSUME TypeOK, HistoryIsChain, OverridesAreReviews
               PROVE  LinesAreSharedInColumnsOnly
    OBVIOUS
  <2>1. ASSUME NEW o \in OrderIds, orders[o] # None, NEW i \in DOMAIN orders[o].history
        PROVE  orders[o].history[i].from # orders[o].history[i].to
    <3> DEFINE entry == orders[o].history[i]
    <3>1. o \in Opened
      BY <2>1 DEF Opened
    <3>2. IsReview(entry)
      BY <3>1 DEF OverridesAreReviews
    <3>3. \/ <<entry.from, entry.event, entry.to>> \in Transitions
          \/ \E v \in entry.override :
               /\ v.final = entry.to
               /\ <<entry.from, entry.event, v.proposed>> \in Transitions
      BY <3>1, ChainOfEach DEF Chained, EntryFollows
    <3> HIDE DEF entry
    <3>4. \A t \in Transitions : t[2] = "paymentSuccessful" => t[1] # "OnHold"
      BY DEF Transitions, SpecificTransitions, UserCancellationTransitions
    <3>5. CASE <<entry.from, entry.event, entry.to>> \in Transitions
      BY <3>5, RowsAreSteps DEF entry
    <3>6. ASSUME NEW v \in entry.override, v.final = entry.to,
                 <<entry.from, entry.event, v.proposed>> \in Transitions
          PROVE  entry.from # entry.to
      BY <3>2, <3>4, <3>6 DEF IsReview
    <3> QED
      BY <3>3, <3>5, <3>6 DEF entry
  <2>2. ASSUME NEW o \in OrderIds, orders[o] # None, NEW state \in States
        PROVE  PartsOutsideColumns(Journey(orders[o], state))
    <3>1. orders[o] \in Order
      BY <2>2 DEF TypeOK
    <3>2. \A i \in DOMAIN orders[o].history :
            orders[o].history[i].from # orders[o].history[i].to
      BY <2>1, <2>2
    <3> HIDE DEF TypeOK
    <3> QED
      BY <3>1, <3>2, JourneyCurvesPart
  <2> QED
    BY <2>2 DEF LinesAreSharedInColumnsOnly, EveryJourney, Drawn, Journey, PartsOutsideColumns
<1> QED
  BY <1>1, LedgerTypes, AuditTrail, ReviewsOnly, PTL

(***************************************************************************)
(* The events on the card of a state are those that lead there.            *)
(* (MobileOrderJourney.tsx.)                                               *)
(***************************************************************************)
LEMMA CardEvents ==
  ASSUME NEW state, NEW seen, NEW edges, Invites(edges, state, seen), NEW target
  PROVE  LET events == Page!EventsOfEdges(Page!LeadingTo(edges, target))
         IN  events \in Seq(Events) /\ ToSet(events) = Leading(state, seen, target)
<1> DEFINE set    == {x \in ToSet(edges) : x.toState = target}
           chosen == Among(edges, set)
           lists  == [i \in DOMAIN chosen |-> chosen[i].eventTypes]
<1>1. Page!LeadingTo(edges, target) = chosen
  BY PageLists DEF Page!LeadingTo
<1>2. Page!EventsOfEdges(chosen) = Joined(lists)
  BY PageLists DEF Page!EventsOfEdges
<1>3. \A x : x \in set <=> \E i \in DOMAIN edges : x = edges[i] /\ x.toState = target
  BY DEF ToSet
<1>4. set \subseteq ToSet(edges)
  OBVIOUS
<1> HIDE DEF set
<1>5. chosen \in Seq(ToSet(edges)) /\ ToSet(chosen) = set
  <2>1. edges \in Seq(ToSet(edges))
    BY DEF Invites
  <2>2. chosen \in Seq(ToSet(edges)) /\ ToSet(chosen) = ToSet(edges) \cap set
    BY <2>1, KeptAreAmong
  <2> QED
    BY <1>4, <2>2
<1> HIDE DEF chosen
<1>6. \A x : x \in set <=> \E i \in DOMAIN chosen : x = chosen[i]
  BY <1>5 DEF ToSet
<1>7. \A x \in set : /\ x.eventTypes \in Seq(Events)
                     /\ ToSet(x.eventTypes) = Leading(state, seen, target)
  BY <1>3 DEF Invites
<1>8. /\ DOMAIN chosen = 1 .. Len(chosen) /\ Len(chosen) \in Nat /\ DOMAIN lists = DOMAIN chosen
      /\ \A i \in DOMAIN chosen : /\ lists[i] \in Seq(Events)
                                  /\ ToSet(lists[i]) = Leading(state, seen, target)
  BY <1>5, <1>6, <1>7
<1>9. lists \in Seq(Seq(Events))
  BY <1>8
<1> HIDE DEF lists
<1>10. /\ Joined(lists) \in Seq(Events)
       /\ ToSet(Joined(lists)) = UNION {ToSet(lists[i]) : i \in DOMAIN lists}
  BY <1>9, JoinedHaveAll
<1>11. ASSUME NEW event
       PROVE  event \in ToSet(Joined(lists)) <=> event \in Leading(state, seen, target)
  <2>1. event \in ToSet(Joined(lists)) => event \in Leading(state, seen, target)
    BY <1>8, <1>10
  <2>2. ASSUME event \in Leading(state, seen, target) PROVE event \in ToSet(Joined(lists))
    <3>1. PICK i \in DOMAIN edges : edges[i].toState = target
      BY <2>2 DEF Invites
    <3>2. PICK j \in DOMAIN chosen : edges[i] = chosen[j]
      BY <1>3, <1>6, <3>1
    <3> QED
      BY <1>8, <1>10, <2>2, <3>2
  <2> QED
    BY <2>1, <2>2
<1>12. ToSet(Joined(lists)) = Leading(state, seen, target)
  BY <1>11
<1> QED
  BY <1>1, <1>2, <1>10, <1>12

(***************************************************************************)
(* The list of available transitions names each event that leads on, and   *)
(* where. (DesktopOrderJourney.tsx.)                                       *)
(***************************************************************************)
LEMMA ListedTransitions ==
  ASSUME NEW state, NEW seen, NEW model, Invites(model.availableEdges, state, seen), NEW row
  PROVE  row \in ToSet(Page!AvailableList(model))
           <=> \E target \in States : \E event \in Leading(state, seen, target) :
                 row = <<event, target>>
<1> DEFINE edges   == model.availableEdges
           pairs(i) == [j \in DOMAIN edges[i].eventTypes |->
                          <<edges[i].eventTypes[j], edges[i].toState>>]
           lists   == [i \in DOMAIN edges |-> pairs(i)]
           Pairs   == Events \X States
<1>1. Page!AvailableList(model) = Joined(lists)
  BY PageLists DEF Page!AvailableList
<1>2. ASSUME NEW i \in DOMAIN edges
      PROVE  /\ pairs(i) \in Seq(Pairs)
             /\ \A x : x \in ToSet(pairs(i))
                         <=> \E event \in Leading(state, seen, edges[i].toState) :
                               x = <<event, edges[i].toState>>
  <2> DEFINE types  == edges[i].eventTypes
             target == edges[i].toState
  <2>1. types \in Seq(Events) /\ ToSet(types) = Leading(state, seen, target) /\ target \in States
    BY <1>2 DEF Invites
  <2> HIDE DEF types, target
  <2>2. /\ DOMAIN types = 1 .. Len(types) /\ Len(types) \in Nat
        /\ \A j \in DOMAIN types : types[j] \in Events
    BY <2>1
  <2> DEFINE list == [j \in DOMAIN types |-> <<types[j], target>>]
  <2>3. list \in Seq(Pairs)
    BY <2>1, <2>2
  <2>4. \A event : event \in Leading(state, seen, target) <=> \E j \in DOMAIN types : event = types[j]
    BY <2>1 DEF ToSet
  <2>5. \A x : x \in ToSet(list) <=> \E j \in DOMAIN types : x = <<types[j], target>>
    BY DEF ToSet
  <2>6. pairs(i) = list
    BY DEF types, target
  <2> HIDE DEF list, pairs
  <2>7. \A x : x \in ToSet(list) <=> \E event \in Leading(state, seen, target) : x = <<event, target>>
    BY <2>4, <2>5
  <2> QED
    BY <2>3, <2>6, <2>7 DEF target
<1>3. /\ DOMAIN edges = 1 .. Len(edges) /\ Len(edges) \in Nat
      /\ \A i \in DOMAIN edges : edges[i].toState \in States
      /\ \A target : (\E i \in DOMAIN edges : edges[i].toState = target)
                       <=> Leading(state, seen, target) # {}
  BY DEF Invites
<1> HIDE DEF edges, pairs
<1>4. /\ DOMAIN lists = DOMAIN edges /\ lists \in Seq(Seq(Pairs))
      /\ \A i \in DOMAIN edges : lists[i] = pairs(i)
  BY <1>2, <1>3
<1> HIDE DEF lists
<1>5. ToSet(Joined(lists)) = UNION {ToSet(lists[i]) : i \in DOMAIN lists}
  BY <1>4, JoinedHaveAll
<1>6. row \in ToSet(Joined(lists)) <=> \E i \in DOMAIN edges : row \in ToSet(pairs(i))
  BY <1>4, <1>5
<1>7. ASSUME NEW i \in DOMAIN edges, row \in ToSet(pairs(i))
      PROVE  \E target \in States : \E event \in Leading(state, seen, target) : row = <<event, target>>
  BY <1>2, <1>3, <1>7
<1>8. ASSUME NEW target \in States, NEW event \in Leading(state, seen, target),
             row = <<event, target>>
      PROVE  \E i \in DOMAIN edges : row \in ToSet(pairs(i))
  <2>1. PICK i \in DOMAIN edges : edges[i].toState = target
    BY <1>3, <1>8
  <2> QED
    BY <1>2, <1>8, <2>1
<1> QED
  BY <1>1, <1>6, <1>7, <1>8

(***************************************************************************)
(* The dashboard counts every state in one of its groups.                  *)
(* (DASHBOARD_STATE_GROUPS, DashboardSummary.tsx.)                         *)
(***************************************************************************)
LEMMA OneGroup ==
  ASSUME NEW state \in States
  PROVE  Cardinality(Page!GroupsOf(state)) = 1
<1>1. \E g : Page!GroupsOf(state) = {g}
  <2> DEFINE groups == Page!DASHBOARD_STATE_GROUPS
  <2>1. /\ DOMAIN groups = {"inProgress", "returns", "completed", "cancelled"}
        /\ groups["inProgress"] = {"Pending", "OnHold", "PendingPayment", "Confirmed",
                                   "Processing", "Shipped"}
        /\ groups["returns"] = {"Returning", "Returned"}
        /\ groups["completed"] = {"Delivered", "Refunded"}
        /\ groups["cancelled"] = {"Cancelled"}
    BY DEF Page!DASHBOARD_STATE_GROUPS
  <2>2. Page!GroupsOf(state) = {g \in DOMAIN groups : state \in groups[g]}
    BY DEF Page!GroupsOf
  <2> HIDE DEF groups
  <2>3. PICK g \in DOMAIN groups : state \in groups[g]
    BY <2>1 DEF States
  <2>4. \A f \in DOMAIN groups : state \in groups[f] => f = g
    BY <2>1, <2>3
  <2>5. Page!GroupsOf(state) = {g}
    BY <2>2, <2>3, <2>4
  <2> QED
    BY <2>5
<1> QED
  BY <1>1, FS_Singleton

\* The card of a state.
Card(state, model) ==
  [state |-> state, events |-> Page!EventsOfEdges(Page!LeadingTo(model.availableEdges, state)),
   statuses |-> Page!StateStatuses(state, model)]

(***************************************************************************)
(* There is a card for each state that has a status or events.             *)
(* (MobileOrderJourney.tsx.)                                               *)
(***************************************************************************)
LEMMA CardsShown ==
  ASSUME NEW model, NEW c
  PROVE  c \in ToSet(Page!MobileCards(Definition, model))
           <=> \E s \in States : /\ c = Card(s, model)
                                 /\ Card(s, model).statuses # {} \/ Card(s, model).events # <<>>
<1> DEFINE items == Page!MobileJourneyItems(Definition, model)
           set   == {item \in ToSet(items) : item.statuses # {} \/ item.events # <<>>}
<1>1. /\ DOMAIN items = DOMAIN StateOrder
      /\ \A i \in DOMAIN StateOrder : items[i] = Card(StateOrder[i], model)
      /\ items = [i \in DOMAIN StateOrder |-> items[i]]
  BY DEF Page!MobileJourneyItems, Definition, Card
<1>2. Page!MobileCards(Definition, model) = Among(items, set)
  BY PageLists DEF Page!MobileCards
<1> HIDE DEF items
<1>3. /\ DOMAIN StateOrder = 1 .. Len(StateOrder) /\ Len(StateOrder) \in Nat
      /\ \A s : s \in States <=> \E i \in DOMAIN StateOrder : s = StateOrder[i]
  <2>1. StateOrder \in Seq(States) /\ States = ToSet(StateOrder)
    BY DefinitionIsComplete
  <2>2. \A s : s \in ToSet(StateOrder) <=> \E i \in DOMAIN StateOrder : s = StateOrder[i]
    BY DEF ToSet
  <2> QED
    BY <2>1, <2>2
<1>4. items \in Seq(ToSet(items))
  <2>1. \A i \in DOMAIN items : items[i] \in ToSet(items)
    BY DEF ToSet
  <2> QED
    BY <1>1, <1>3, <2>1
<1>5. ToSet(Among(items, set)) = ToSet(items) \cap set
  BY <1>4, KeptAreAmong
<1>6. \A x : x \in ToSet(items) <=> \E s \in States : x = Card(s, model)
  <2>1. \A x : x \in ToSet(items) <=> \E i \in DOMAIN items : x = items[i]
    BY DEF ToSet
  <2> QED
    BY <1>1, <1>3, <2>1
<1> QED
  BY <1>2, <1>5, <1>6

\* The promise on the views, of one order.
Agree(order, model) ==
  LET cards  == ToSet(Page!MobileCards(Definition, model))
      listed == ToSet(Page!AvailableList(model))
      past   == Page!HistoricalList(model)
  IN /\ listed = UNION {{<<event, c.state>> : event \in ToSet(c.events)} : c \in cards}
     /\ {c.state : c \in cards} =
          model.visitedStates \cup model.availableNextStates \cup model.terminalStates
     /\ {[state |-> c.state, statuses |-> c.statuses] : c \in cards} =
          {d \in Page!DrawnStates(Definition, model) : d.statuses # {}}
     /\ {c.state : c \in {d \in cards : "Current" \in d.statuses}} = {order.state}
     /\ \A row \in listed :
          Contains(Page!TransitionInventory(Definition), <<order.state, row[1], row[2]>>)
     /\ Len(past) = order.version
     /\ past # <<>> => Last(past)[2] = order.state
     /\ Cardinality(Page!GroupsOf(order.state)) = 1

(***************************************************************************)
(* The statuses of a state. (stateStatuses, orderJourney.ts.)              *)
(***************************************************************************)
LEMMA StatusesOf ==
  ASSUME NEW s, NEW model
  PROVE  /\ "Current" \in Page!StateStatuses(s, model) <=> s = model.currentState
         /\ Page!StateStatuses(s, model) # {}
              <=> \/ s = model.currentState \/ s \in model.visitedStates
                  \/ s \in model.availableNextStates \/ s \in model.terminalStates
<1> DEFINE statuses == Page!StateStatuses(s, model)
<1>1. /\ "Current" \in statuses <=> s = model.currentState
      /\ "Visited" \in statuses <=> s \in model.visitedStates \ {model.currentState}
      /\ "Available" \in statuses <=> s \in model.availableNextStates
      /\ "Terminal" \in statuses <=> s \in model.terminalStates
      /\ statuses \subseteq {"Current", "Visited", "Available", "Terminal"}
  BY DEF Page!StateStatuses
<1> HIDE DEF statuses
<1>2. statuses # {} <=> \/ "Current" \in statuses \/ "Visited" \in statuses
                        \/ "Available" \in statuses \/ "Terminal" \in statuses
  BY <1>1
<1> QED
  BY <1>1, <1>2 DEF statuses

(***************************************************************************)
(* The historical path is the history, row by row. (OrderDetail.tsx,       *)
(* DesktopOrderJourney.tsx.)                                               *)
(***************************************************************************)
LEMMA PathIsHistory ==
  ASSUME NEW order \in Order, NEW seen, Chained(order)
  PROVE  LET past == Page!HistoricalList(Journey(order, seen))
         IN  Len(past) = order.version /\ (past # <<>> => Last(past)[2] = order.state)
<1> DEFINE model == Journey(order, seen)
           past  == Page!HistoricalList(model)
           h     == order.history
<1>1. model.historicalEdges = Page!HistoricalEdges(order)
  BY JourneyParts
<1>2. h \in Seq(Entry) /\ DOMAIN h = 1 .. Len(h) /\ Len(h) \in Nat
  BY DEF Order
<1>3. /\ order.version = Len(h) /\ (Len(h) # 0 => order.state = h[Len(h)].to)
  BY DEF Chained, StateAfter
<1> HIDE DEF model
<1>4. /\ DOMAIN past = DOMAIN h /\ past = [i \in DOMAIN h |-> past[i]]
      /\ \A i \in DOMAIN h : past[i][2] = h[i].to
  <2> DEFINE edges == Page!HistoricalEdges(order)
  <2>1. DOMAIN edges = DOMAIN h /\ \A i \in DOMAIN h : edges[i].toState = h[i].to
    BY DEF Page!HistoricalEdges, Page!Edge
  <2>2. past = [i \in DOMAIN edges |-> <<edges[i].fromState, edges[i].toState, edges[i].eventTypes>>]
    BY <1>1 DEF Page!HistoricalList
  <2> HIDE DEF past, edges, h
  <2> QED
    BY <2>1, <2>2
<1> HIDE DEF past, h
<1>5. past \in Seq(ToSet(past)) /\ Len(past) = Len(h)
  <2>1. \A i \in DOMAIN past : past[i] \in ToSet(past)
    BY DEF ToSet
  <2> QED
    BY <1>2, <1>4, <2>1
<1>6. past # <<>> => Len(past) # 0 /\ Last(past) = past[Len(past)]
  BY <1>5 DEF Last
<1>7. past # <<>> => Last(past)[2] = order.state
  BY <1>2, <1>3, <1>4, <1>5, <1>6
<1> QED
  BY <1>3, <1>5, <1>7 DEF past, model, h

(***************************************************************************)
(* The views of a journey tell the same. (MobileOrderJourney.tsx,          *)
(* DesktopOrderJourney.tsx, TransitionInventory.tsx, DashboardSummary.tsx.)*)
(***************************************************************************)
LEMMA JourneyAgrees ==
  ASSUME NEW order \in Order, NEW seen, Chained(order)
  PROVE  Agree(order, Journey(order, seen))
<1> DEFINE model  == Journey(order, seen)
           cards  == ToSet(Page!MobileCards(Definition, model))
           listed == ToSet(Page!AvailableList(model))
           past   == Page!HistoricalList(model)
           leads(s) == Leading(order.state, seen, s)
<1>1. /\ Invites(model.availableEdges, order.state, seen)
      /\ \A target : target \in model.availableNextStates <=> leads(target) # {}
      /\ model.currentState = order.state
      /\ model.terminalStates = TerminalStates
      /\ model.visitedStates = Page!VisitedStates(order)
      /\ order.state \in States
  BY JourneyParts DEF Order
<1>2. Len(past) = order.version /\ (past # <<>> => Last(past)[2] = order.state)
  BY PathIsHistory
<1> HIDE DEF model, leads
<1>3. \A s : /\ Card(s, model).state = s
             /\ Card(s, model).statuses = Page!StateStatuses(s, model)
             /\ ToSet(Card(s, model).events) = leads(s)
             /\ Card(s, model).events # <<>> <=> leads(s) # {}
  <2> SUFFICES ASSUME NEW s
               PROVE  /\ Card(s, model).state = s
                      /\ Card(s, model).statuses = Page!StateStatuses(s, model)
                      /\ ToSet(Card(s, model).events) = leads(s)
                      /\ Card(s, model).events # <<>> <=> leads(s) # {}
    OBVIOUS
  <2> DEFINE events == Page!EventsOfEdges(Page!LeadingTo(model.availableEdges, s))
  <2>1. events \in Seq(Events) /\ ToSet(events) = leads(s)
    BY <1>1, CardEvents DEF leads
  <2>2. /\ Card(s, model).state = s
        /\ Card(s, model).statuses = Page!StateStatuses(s, model)
        /\ Card(s, model).events = events
    BY DEF Card
  <2> HIDE DEF events
  <2>3. events = <<>> <=> ToSet(events) = {}
    BY <2>1 DEF ToSet
  <2> QED
    BY <2>1, <2>2, <2>3
<1>4. \A s : Page!StateStatuses(s, model) # {}
              <=> \/ s = order.state \/ s \in model.visitedStates
                  \/ s \in model.availableNextStates \/ s \in model.terminalStates
  BY <1>1, StatusesOf
<1>5. \A c : c \in cards <=> \E s \in States : /\ c = Card(s, model)
                                               /\ Page!StateStatuses(s, model) # {}
  <2>1. \A s : Card(s, model).events # <<>> => Page!StateStatuses(s, model) # {}
    BY <1>1, <1>3, <1>4
  <2> QED
    BY <1>3, <2>1, CardsShown
<1>6. \A row : row \in listed <=> \E target \in States : \E event \in leads(target) :
                                    row = <<event, target>>
  BY <1>1, ListedTransitions DEF leads
<1> HIDE DEF cards, listed, past
<1>7. listed = UNION {{<<event, c.state>> : event \in ToSet(c.events)} : c \in cards}
  <2>1. ASSUME NEW row \in listed
        PROVE  \E c \in cards : \E event \in ToSet(c.events) : row = <<event, c.state>>
    <3>1. PICK target \in States : \E event \in leads(target) : row = <<event, target>>
      BY <1>6
    <3>2. Page!StateStatuses(target, model) # {}
      BY <1>1, <1>4, <3>1
    <3>3. Card(target, model) \in cards
      BY <1>5, <3>2
    <3> QED
      BY <1>3, <3>1, <3>3
  <2>2. ASSUME NEW c \in cards, NEW event \in ToSet(c.events)
        PROVE  <<event, c.state>> \in listed
    <3>1. PICK s \in States : c = Card(s, model)
      BY <1>5
    <3> QED
      BY <1>3, <1>6, <2>2, <3>1
  <2> QED
    BY <2>1, <2>2
<1>8. {c.state : c \in cards}
        = model.visitedStates \cup model.availableNextStates \cup model.terminalStates
  <2>1. /\ model.visitedStates \subseteq States /\ order.state \in model.visitedStates
    <3> DEFINE h == order.history
    <3>1. h \in Seq(Entry)
      BY DEF Order
    <3>2. \A e \in Entry : e.from \in States /\ e.to \in States
      BY DEF Entry
    <3>3. model.visitedStates = {order.state} \cup UNION {{h[i].from, h[i].to} : i \in DOMAIN h}
      BY <1>1 DEF Page!VisitedStates
    <3> HIDE DEF h
    <3>4. \A i \in DOMAIN h : h[i] \in Entry
      BY <3>1
    <3> QED
      BY <1>1, <3>2, <3>3, <3>4
  <2>2. model.terminalStates \subseteq States
    BY <1>1 DEF TerminalStates
  <2>3. model.availableNextStates \subseteq States
    <3> SUFFICES ASSUME NEW s, leads(s) # {}
                 PROVE  s \in States
      BY <1>1
    <3>1. PICK event : event \in leads(s)
      OBVIOUS
    <3>2. <<order.state, event, s>> \in Transitions
      BY <3>1, NextStateIsRow DEF leads, Leading, Shared, AvailableEvents
    <3> QED
      BY <3>2, RowsAreSteps
  <2>4. \A s : (\E c \in cards : s = c.state) <=> s \in States /\ Page!StateStatuses(s, model) # {}
    BY <1>3, <1>5
  <2> QED
    BY <1>4, <2>1, <2>2, <2>3, <2>4
<1>9. {[state |-> c.state, statuses |-> c.statuses] : c \in cards}
        = {d \in Page!DrawnStates(Definition, model) : d.statuses # {}}
  <2> DEFINE shown(s) == [state |-> s, statuses |-> Page!StateStatuses(s, model)]
  <2>1. Page!DrawnStates(Definition, model) = {shown(s) : s \in States}
    BY PageLists, DefinitionIsComplete, PlacesDiffer DEF Page!DrawnStates, Definition
  <2>2. \A s : shown(s).statuses = Page!StateStatuses(s, model)
    OBVIOUS
  <2>3. \A c : c \in cards => \E s \in States :
                 /\ [state |-> c.state, statuses |-> c.statuses] = shown(s)
                 /\ Page!StateStatuses(s, model) # {}
    BY <1>3, <1>5
  <2>4. \A s \in States : Page!StateStatuses(s, model) # {} =>
          \E c \in cards : [state |-> c.state, statuses |-> c.statuses] = shown(s)
    BY <1>3, <1>5
  <2> HIDE DEF shown
  <2> QED
    BY <2>1, <2>2, <2>3, <2>4
<1>10. {c.state : c \in {d \in cards : "Current" \in d.statuses}} = {order.state}
  <2>1. \A s : "Current" \in Page!StateStatuses(s, model) <=> s = order.state
    BY <1>1, StatusesOf
  <2>2. \A c \in cards : "Current" \in c.statuses => c.state = order.state
    BY <1>3, <1>5, <2>1
  <2>3. /\ Card(order.state, model) \in cards
        /\ "Current" \in Card(order.state, model).statuses
        /\ Card(order.state, model).state = order.state
    BY <1>1, <1>3, <1>5, <2>1
  <2> QED
    BY <2>2, <2>3
<1>11. ASSUME NEW row \in listed
       PROVE  Contains(Page!TransitionInventory(Definition), <<order.state, row[1], row[2]>>)
  <2>1. PICK target \in States : \E e \in leads(target) : row = <<e, target>>
    BY <1>6
  <2>2. PICK event \in leads(target) : row = <<event, target>>
    BY <2>1
  <2> DEFINE rows == TransitionDefinitions
             inventory == Page!TransitionInventory(Definition)
             step == Row(order.state, event)
  <2>3. step.fromState = order.state /\ step.eventType = event /\ step.toState = target
    BY <2>2 DEF Row, leads, Leading
  <2>4. step \in ToSet(rows)
    BY <1>1, <2>2, DefinitionIsComplete, RowsAreSteps DEF leads, Leading, Shared
  <2>5. inventory = [i \in DOMAIN rows |-> <<rows[i].fromState, rows[i].eventType, rows[i].toState>>]
    BY DEF Page!TransitionInventory, Definition
  <2>6. DOMAIN rows = 1 .. Len(rows) /\ Len(rows) \in Nat
    BY DefinitionIsComplete
  <2> HIDE DEF rows, inventory, step
  <2>7. PICK i \in DOMAIN rows : rows[i] = step
    BY <2>4 DEF ToSet
  <2>8. Len(inventory) = Len(rows) /\ inventory[i] = <<order.state, event, target>>
    BY <2>3, <2>5, <2>6, <2>7
  <2> QED
    BY <2>2, <2>6, <2>7, <2>8 DEF Contains, inventory
<1>12. Cardinality(Page!GroupsOf(order.state)) = 1
  BY <1>1, OneGroup
<1> QED
  BY <1>2, <1>7, <1>8, <1>9, <1>10, <1>11, <1>12 DEF Agree, cards, listed, past, model

(***************************************************************************)
(* The wide drawing, the cards, the lists and the inventory tell the same  *)
(* of every order, for any rules. (StateMachineDiagram/*.tsx,              *)
(* DashboardSummary.tsx.)                                                  *)
(***************************************************************************)
THEOREM EveryViewAgrees == Spec => []ViewsAgree
<1>1. TypeOK /\ HistoryIsChain => ViewsAgree
  <2> SUFFICES ASSUME TypeOK, HistoryIsChain
               PROVE  ViewsAgree
    OBVIOUS
  <2>1. ASSUME NEW o \in OrderIds, orders[o] # None, NEW state \in States
        PROVE  Agree(orders[o], Journey(orders[o], state))
    BY <2>1, JourneyAgrees, ChainOfEach DEF TypeOK, Opened
  <2> QED
    BY <2>1 DEF ViewsAgree, EveryJourney, Drawn, Journey, Agree
<1> QED
  BY <1>1, LedgerTypes, AuditTrail, PTL
=============================================================================
