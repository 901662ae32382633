------------------------- MODULE OrderServiceProofs -------------------------
(***************************************************************************)
(* What the service computes, for every set of rules: facts the proofs     *)
(* about its repositories rest on.                                         *)
(***************************************************************************)
EXTENDS OrderService, FiniteSetTheorems, TLAPS

(***************************************************************************)
(* The transition table leads from a state and an enabled event to a       *)
(* state. (state_machine.py get_next_state.)                               *)
(***************************************************************************)
LEMMA NextStateIsState ==
  ASSUME NEW s, NEW e, IsEnabled(s, e)
  PROVE  /\ s \in States
         /\ NextState(s, e) \in States
<1>1. \A t \in Transitions : t[1] \in States /\ t[3] \in States
  BY DEF Transitions, SpecificTransitions, UserCancellationTransitions, States,
         CancellableStates
<1>2. PICK r : r \in Rows(s, e)
  BY DEF IsEnabled
<1> QED
  BY <1>1, <1>2 DEF NextState, Rows

(***************************************************************************)
(* An override is a state of the lifecycle, since every rule names one.    *)
(* (rule_engine.py _resolve_final_state_override.)                         *)
(***************************************************************************)
LEMMA OverridesAreStates ==
  ASSUME NEW context
  PROVE  FinalStateOverrides(context) \subseteq States
BY RulesAssumption DEF FinalStateOverrides, MatchedRuleNumbers, IndexedRules

(***************************************************************************)
(* The state an accepted event leads to is a state of the lifecycle.       *)
(* (order_service.py apply_event, to_state.)                               *)
(***************************************************************************)
LEMMA FinalStateIsState ==
  ASSUME NEW context, context.proposedState \in States
  PROVE  FinalState(context) \in States
BY OverridesAreStates DEF FinalState

(***************************************************************************)
(* Surcharges keep an amount money, whatever the rules add up to.          *)
(* (order_service.py _calculate_final_amount.)                             *)
(***************************************************************************)
LEMMA FinalAmountIsMoney ==
  ASSUME NEW context
  PROVE  FinalAmount(context) \in Money
<1> DEFINE base    == context.order.amount
           tax     == TotalTaxPercentage(context)
           product == base * tax
           sum     == base + product \div 100 + TotalFixedCost(context)
<1>1. NaN \in Money /\ Infinity \in Money
  BY DEF Money
<1>2. FinalAmount(context) =
        CASE base = NaN \/ (base = Infinity /\ tax = 0) -> NaN
          [] base # Infinity /\ {product, sum} \subseteq Money \ {Infinity, NaN} -> sum
          [] OTHER -> Infinity
  BY DEF FinalAmount
<1> HIDE DEF base, tax, product, sum
<1> QED
  BY <1>1, <1>2

(***************************************************************************)
(* The order that an accepted event makes of an order is an order, one     *)
(* version on. (order_service.py apply_event, updated_order.)              *)
(***************************************************************************)
LEMMA UpdatedOrderIsOrder ==
  ASSUME NEW order \in Order, NEW r \in Requests, NEW id \in Nat,
         IsEnabled(order.state, r.event)
  PROVE  LET context == Context(order, r.event, r.metadata)
             updated == UpdatedOrder(id, context)
         IN /\ updated \in Order /\ updated.version = order.version + 1
            /\ EventEntry(id, context) \in Entry
<1> DEFINE context == Context(order, r.event, r.metadata)
<1>1. context.order = order /\ context.eventType = r.event
      /\ context.metadata = r.metadata /\ context.fromState = order.state
      /\ context.proposedState \in States
  BY NextStateIsState DEF Context
<1> HIDE DEF context
<1>2. FinalState(context) \in States /\ FinalAmount(context) \in Money
  BY <1>1, FinalStateIsState, FinalAmountIsMoney
<1>3. r.event \in Events /\ r.metadata \in Metadata
  BY ServiceAssumption DEF Metadata
<1>4. EventEntry(id, context) \in Entry
  BY <1>1, <1>2, <1>3 DEF EventEntry, Entry, Override, Order
<1>5. Append(order.history, EventEntry(id, context)) \in Seq(Entry)
  BY <1>4 DEF Order
<1> QED
  BY <1>1, <1>2, <1>4, <1>5 DEF UpdatedOrder, Order, context

(***************************************************************************)
(* A new order is an order. (order_service.py create_order.)               *)
(***************************************************************************)
LEMMA NewOrderIsOrder ==
  ASSUME NEW amount \in Amounts, NEW count \in ProductCounts
  PROVE  NewOrder(amount, count) \in Order
BY ServiceAssumption, RulesAssumption DEF NewOrder, Order, Money, States

-----------------------------------------------------------------------------
(* The records of a table *)

(***************************************************************************)
(* A table in which a new order was put, and one in which the history of   *)
(* an order is one entry longer. (create and commit_transition of the      *)
(* repositories.)                                                          *)
(***************************************************************************)
OpensIn(before, after, p) ==
  /\ before \in [OrderIds -> Order \cup {None}] /\ p \in OrderIds /\ before[p] = None
  /\ \E order \in Order : order.history = <<>> /\ after = [before EXCEPT ![p] = order]

AppendsIn(before, after, p, entry) ==
  /\ before \in [OrderIds -> Order \cup {None}] /\ p \in OrderIds /\ before[p] \in Order
  /\ \E order \in Order : /\ order.history = Append(before[p].history, entry)
                          /\ after = [before EXCEPT ![p] = order]

(***************************************************************************)
(* A new order records nothing. (order_service.py create_order.)           *)
(***************************************************************************)
LEMMA RecordsStayInOpen ==
  ASSUME NEW before, NEW after, NEW p, OpensIn(before, after, p), NEW i
  PROVE  RecordsIn(after, i) = RecordsIn(before, i)
<1>1. \A o \in OrderIds : o # p => after[o] = before[o]
  BY DEF OpensIn
<1>2. before[p] = None /\ DOMAIN after[p].history = {}
  BY DEF OpensIn
<1> QED
  BY <1>1, <1>2 DEF RecordsIn

(***************************************************************************)
(* The new record of a transition: the entry that was appended, and it     *)
(* alone. (order_service.py apply_event, updated_order.)                   *)
(***************************************************************************)
LEMMA RecordsGrow ==
  ASSUME NEW before, NEW after, NEW p, NEW entry, AppendsIn(before, after, p, entry), NEW i
  PROVE  RecordsIn(after, i)
           = IF entry.id = i
             THEN RecordsIn(before, i) \cup {<<p, Len(after[p].history)>>}
             ELSE RecordsIn(before, i)
<1> DEFINE h == before[p].history
           k == Len(h) + 1
<1>1. PICK order \in Order : /\ order.history = Append(before[p].history, entry)
                             /\ after = [before EXCEPT ![p] = order]
  BY DEF AppendsIn
<1>2. /\ after[p] = order /\ before[p] # None /\ order # None /\ p \in OrderIds
      /\ \A o \in OrderIds : o # p => after[o] = before[o]
      /\ before[p] \in Order
  BY <1>1, ServiceAssumption DEF AppendsIn
<1>3. h \in Seq(Entry)
  BY <1>2 DEF Order
<1>4. /\ Len(order.history) = k /\ order.history[k] = entry
      /\ DOMAIN order.history = 1 .. k /\ DOMAIN h = 1 .. Len(h) /\ Len(h) \in Nat
      /\ \A m \in 1 .. Len(h) : order.history[m] = h[m]
  BY <1>1, <1>3
<1>5. {m \in DOMAIN order.history : order.history[m].id = i}
        = {m \in DOMAIN h : h[m].id = i} \cup IF entry.id = i THEN {k} ELSE {}
  BY <1>4, SMTT(30)
<1> HIDE DEF h, k
<1>6. ASSUME NEW r
      PROVE  r \in RecordsIn(after, i) <=>
               \/ r \in RecordsIn(before, i)
               \/ entry.id = i /\ r = <<p, k>>
  <2>1. r \in RecordsIn(before, i) <=>
          \E o \in OrderIds : /\ before[o] # None
                              /\ \E n \in DOMAIN before[o].history :
                                   before[o].history[n].id = i /\ r = <<o, n>>
    BY DEF RecordsIn
  <2>2. r \in RecordsIn(after, i) <=>
          \E o \in OrderIds : /\ after[o] # None
                              /\ \E n \in DOMAIN after[o].history :
                                   after[o].history[n].id = i /\ r = <<o, n>>
    BY DEF RecordsIn
  <2>3. (\E n \in DOMAIN order.history : order.history[n].id = i /\ r = <<p, n>>) <=>
          \/ \E n \in DOMAIN h : h[n].id = i /\ r = <<p, n>>
          \/ entry.id = i /\ r = <<p, k>>
    BY <1>5
  <2> QED
    BY <1>2, <2>1, <2>2, <2>3 DEF h
<1>7. RecordsIn(after, i) = IF entry.id = i
                            THEN RecordsIn(before, i) \cup {<<p, k>>}
                            ELSE RecordsIn(before, i)
  BY <1>6
<1> QED
  BY <1>2, <1>4, <1>7

-----------------------------------------------------------------------------
(* What the rules do not read *)

(***************************************************************************)
(* Two contexts that agree on what the field resolvers read have the same  *)
(* overrides, amount and ticket, whatever the rules. (rule_engine.py       *)
(* _default_field_resolvers, evaluate.)                                    *)
(***************************************************************************)
SameFields(c, d) ==
  /\ c.eventType = d.eventType /\ c.metadata = d.metadata
  /\ c.fromState = d.fromState /\ c.proposedState = d.proposedState
  /\ c.order.amount = d.order.amount /\ c.order.productCount = d.order.productCount

(***************************************************************************)
(* The rules read of a context the event, its metadata, both states, the   *)
(* amount and the number of products, and nothing else. (rule_engine.py    *)
(* _default_field_resolvers.)                                              *)
(***************************************************************************)
LEMMA RulesReadFields ==
  ASSUME NEW c, NEW d, SameFields(c, d)
  PROVE  /\ FinalStateOverrides(c) = FinalStateOverrides(d)
         /\ FinalAmount(c) = FinalAmount(d)
         /\ TicketContents(c) = TicketContents(d)
<1>1. ASSUME NEW node
      PROVE  ConditionHolds(node, c) = ConditionHolds(node, d)
  BY DEF SameFields, ConditionHolds, Resolve, IsMissing, IsFinite
<1>2. ASSUME NEW condition
      PROVE  Matches(condition, c) = Matches(condition, d)
  BY <1>1 DEF Matches, TrueConditions
<1>3. MatchedRuleNumbers(c) = MatchedRuleNumbers(d)
  BY <1>2 DEF MatchedRuleNumbers, SameFields
<1>4. MatchedRules(c) = MatchedRules(d)
  BY <1>3 DEF MatchedRules, SameFields
<1>5. MatchedActions(c) = MatchedActions(d)
  BY <1>4 DEF MatchedActions
<1>6. TotalTaxPercentage(c) = TotalTaxPercentage(d) /\ TotalFixedCost(c) = TotalFixedCost(d)
  BY <1>5 DEF Total, TotalTaxPercentage, TotalFixedCost
<1>7. TicketDrafts(c) = TicketDrafts(d)
  BY <1>4 DEF TicketDrafts
<1>8. FinalStateOverrides(c) = FinalStateOverrides(d)
  BY <1>3 DEF FinalStateOverrides
<1>9. FinalAmount(c) = FinalAmount(d)
  BY <1>6 DEF FinalAmount, SameFields
<1>10. TicketContents(c) = TicketContents(d)
  BY <1>7 DEF TicketContents
<1> QED
  BY <1>8, <1>9, <1>10

(***************************************************************************)
(* An update of four attributes keeps the fifth, product_ids.              *)
(* (dynamodb_order_repository.py commit_transition.)                       *)
(***************************************************************************)
Replaced(order, amount, state, version, history) ==
  [order EXCEPT !.state = state, !.amount = amount, !.version = version, !.history = history]

(***************************************************************************)
(* An order whose other fields are replaced keeps its number of products.  *)
(* (order_service.py apply_event.)                                         *)
(***************************************************************************)
LEMMA ReplacedOrder ==
  ASSUME NEW order \in Order, NEW amount, NEW state, NEW version, NEW history
  PROVE  Replaced(order, amount, state, version, history)
           = [amount |-> amount, productCount |-> order.productCount, state |-> state,
              version |-> version, history |-> history]
<1> DEFINE x == Replaced(order, amount, state, version, history)
           y == [amount |-> amount, productCount |-> order.productCount, state |-> state,
                 version |-> version, history |-> history]
           fields == {"amount", "productCount", "state", "version", "history"}
<1> SUFFICES x = y
  OBVIOUS
<1>1. DOMAIN order = fields /\ order = [f \in fields |-> order[f]]
  BY DEF Order
<1>2. x = [f \in fields |-> x[f]] /\ y = [f \in fields |-> y[f]]
  BY <1>1 DEF Replaced
<1>3. /\ x.amount = amount /\ x.productCount = order.productCount /\ x.state = state
      /\ x.version = version /\ x.history = history
  BY <1>1 DEF Replaced
<1>4. /\ y.amount = amount /\ y.productCount = order.productCount /\ y.state = state
      /\ y.version = version /\ y.history = history
  OBVIOUS
<1> HIDE DEF x, y
<1>5. \A f \in fields : x[f] = y[f]
  BY <1>3, <1>4
<1> HIDE DEF fields
<1> QED
  BY <1>2, <1>5

(***************************************************************************)
(* So an event makes of an order, of its state, amount and ticket, the     *)
(* same as of a copy with another history. (order_service.py apply_event.) *)
(***************************************************************************)
LEMMA HistoryIsNotRead ==
  ASSUME NEW order \in Order, NEW copy \in Order,
         copy.amount = order.amount, copy.productCount = order.productCount,
         copy.state = order.state, copy.version = order.version,
         NEW event, NEW metadata, NEW id, NEW o
  PROVE  LET made == UpdatedOrder(id, Context(order, event, metadata))
             copied == UpdatedOrder(id, Context(copy, event, metadata))
         IN /\ Accepts(copy, event, metadata) <=> Accepts(order, event, metadata)
            /\ SupportTickets(id, o, Context(copy, event, metadata))
                 = SupportTickets(id, o, Context(order, event, metadata))
            /\ EventEntry(id, Context(copy, event, metadata))
                 = EventEntry(id, Context(order, event, metadata))
            /\ copied.amount = made.amount /\ copied.state = made.state
            /\ copied.version = made.version
<1> DEFINE c == Context(copy, event, metadata)
           d == Context(order, event, metadata)
<1>1. /\ c.order = copy /\ d.order = order /\ c.eventType = event /\ d.eventType = event
      /\ c.metadata = metadata /\ d.metadata = metadata
      /\ c.fromState = copy.state /\ d.fromState = order.state
      /\ c.proposedState = d.proposedState
  BY DEF Context
<1> HIDE DEF c, d
<1>2. /\ FinalStateOverrides(c) = FinalStateOverrides(d)
      /\ FinalAmount(c) = FinalAmount(d)
      /\ TicketContents(c) = TicketContents(d)
  BY <1>1, RulesReadFields DEF SameFields
<1>3. FinalState(c) = FinalState(d)
  BY <1>1, <1>2 DEF FinalState
<1>4. EventEntry(id, c) = EventEntry(id, d)
  BY <1>1, <1>2, <1>3 DEF EventEntry
<1>5. Accepts(copy, event, metadata) <=> Accepts(order, event, metadata)
  BY <1>2 DEF Accepts, OverridesConflict, c, d
<1>6. SupportTickets(id, o, c) = SupportTickets(id, o, d)
  BY <1>2 DEF SupportTickets
<1>7. LET made == UpdatedOrder(id, d)
          copied == UpdatedOrder(id, c)
      IN /\ copied.amount = made.amount /\ copied.state = made.state
         /\ copied.version = made.version
  BY <1>1, <1>2, <1>3 DEF UpdatedOrder
<1> QED
  BY <1>4, <1>5, <1>6, <1>7 DEF c, d

-----------------------------------------------------------------------------
(* What a history explains *)

\* The step of the fold of Retraced.
RetraceStep(p, q, order, entry) ==
  UpdatedOrder(entry.id, Context(order, entry.event, entry.metadata))

Retracing == INSTANCE FoldFacts WITH Op <- RetraceStep

(***************************************************************************)
(* Retracing a history is a fold that begins with the new order.           *)
(***************************************************************************)
LEMMA RetraceIsFold ==
  ASSUME NEW amount, NEW count, NEW history
  PROVE  Retraced(amount, count, history)
           = Retracing!Fold(0, 0, NewOrder(amount, count), history)
BY DEF Retraced, Retracing!Fold, RetraceStep, FoldLeft, MapThenFoldSet, Max,
       Retracing!FoldLeft, Retracing!MapThenFoldSet, Retracing!Max

(***************************************************************************)
(* Retracing a history with one entry more is one update more.             *)
(***************************************************************************)
LEMMA RetraceOneMore ==
  ASSUME NEW amount, NEW count, NEW history \in Seq(Entry), NEW entry \in Entry
  PROVE  Retraced(amount, count, Append(history, entry))
           = UpdatedOrder(entry.id, Context(Retraced(amount, count, history),
                                            entry.event, entry.metadata))
<1>1. Retracing!Fold(0, 0, NewOrder(amount, count), Append(history, entry))
        = RetraceStep(0, 0, Retracing!Fold(0, 0, NewOrder(amount, count), history), entry)
  BY Retracing!FoldAppend
<1> QED
  BY <1>1, RetraceIsFold DEF RetraceStep

(***************************************************************************)
(* The overrides of an event are finitely many: one state each at most.    *)
(***************************************************************************)
LEMMA OverridesFinite ==
  ASSUME NEW context
  PROVE  Cardinality(FinalStateOverrides(context)) \in Nat
<1>1. ASSUME NEW a, NEW b, NEW c, NEW d
      PROVE  IsFiniteSet({a, b, c, d})
  <2>1. /\ IsFiniteSet({a}) /\ IsFiniteSet({b}) /\ IsFiniteSet({c}) /\ IsFiniteSet({d})
    BY FS_Singleton
  <2>2. IsFiniteSet({a} \cup {b}) /\ IsFiniteSet({c} \cup {d})
    BY <2>1, FS_Union
  <2>3. IsFiniteSet(({a} \cup {b}) \cup ({c} \cup {d}))
    BY <2>2, FS_Union
  <2>4. ({a} \cup {b}) \cup ({c} \cup {d}) = {a, b, c, d}
    OBVIOUS
  <2> QED
    BY <2>3, <2>4
<1> DEFINE forth == {"Pending", "OnHold", "PendingPayment", "Confirmed"}
           back  == {"Processing", "Shipped", "Delivered", "Returning"}
           last  == {"Returned", "Refunded", "Cancelled", "Cancelled"}
<1>2. IsFiniteSet(forth) /\ IsFiniteSet(back) /\ IsFiniteSet(last)
  BY <1>1
<1>3. States = (forth \cup back) \cup last
  BY DEF States
<1> HIDE DEF forth, back, last
<1>4. IsFiniteSet(forth \cup back)
  BY <1>2, FS_Union
<1>5. IsFiniteSet(States)
  BY <1>2, <1>3, <1>4, FS_Union
<1>6. IsFiniteSet(FinalStateOverrides(context))
  BY <1>5, OverridesAreStates, FS_Subset
<1> QED
  BY <1>6, FS_CardinalityType

(***************************************************************************)
(* A new order is explained by its empty history.  (create_order.)         *)
(***************************************************************************)
LEMMA NewIsExplained ==
  ASSUME NEW amount \in Amounts, NEW count \in ProductCounts
  PROVE  IsExplained(NewOrder(amount, count))
<1> DEFINE order == NewOrder(amount, count)
<1>1. order.history = <<>> /\ order.productCount = count
  BY DEF NewOrder
<1>2. Retraced(amount, count, <<>>) = order
  BY RetraceIsFold, Retracing!FoldEmpty
<1>3. DOMAIN <<>> = {}
  OBVIOUS
<1> HIDE DEF order
<1>4. IsExplained(order)
  BY <1>1, <1>2, <1>3 DEF IsExplained
<1> QED
  BY <1>4 DEF order

(***************************************************************************)
(* An explained order stays explained by an event that is accepted: the    *)
(* entry that is appended is enough to evaluate the event again.           *)
(* (apply_event.)                                                          *)
(***************************************************************************)
LEMMA UpdateIsExplained ==
  ASSUME NEW order \in Order, IsExplained(order), NEW r \in Requests, NEW id \in Nat,
         Accepts(order, r.event, r.metadata)
  PROVE  IsExplained(UpdatedOrder(id, Context(order, r.event, r.metadata)))
<1> DEFINE context == Context(order, r.event, r.metadata)
           made    == UpdatedOrder(id, context)
           entry   == EventEntry(id, context)
           old     == order.history
           long    == Append(old, entry)
           count   == order.productCount
<1>1. entry \in Entry /\ old \in Seq(Entry)
  BY UpdatedOrderIsOrder DEF Accepts, Order
<1>2. made.history = long /\ made.productCount = count
  BY DEF UpdatedOrder, Context
<1>3. entry.id = id /\ entry.event = r.event /\ entry.metadata = r.metadata
  BY DEF EventEntry, Context
<1>4. /\ IsEnabled(order.state, r.event)
      /\ Cardinality(FinalStateOverrides(context)) <= 1
  <2>1. Cardinality(FinalStateOverrides(context)) \in Nat
    BY OverridesFinite
  <2> QED
    BY <2>1 DEF Accepts, OverridesConflict
<1> HIDE DEF entry
<1>5. /\ Len(old) \in Nat /\ DOMAIN old = 1 .. Len(old) /\ DOMAIN long = 1 .. Len(old) + 1
      /\ long[Len(old) + 1] = entry /\ \A n \in DOMAIN old : long[n] = old[n]
  BY <1>1
<1>6. SubSeq(long, 1, Len(old)) = old
  BY <1>1
<1>7. ASSUME NEW n \in DOMAIN old
      PROVE  SubSeq(long, 1, n - 1) = SubSeq(old, 1, n - 1)
  BY <1>1, <1>5
<1> DEFINE Fine(history, amount, n) ==
             LET before == Retraced(amount, count, SubSeq(history, 1, n - 1))
                 at     == history[n]
             IN /\ IsEnabled(before.state, at.event)
                /\ Cardinality(FinalStateOverrides(
                                 Context(before, at.event, at.metadata))) <= 1
<1>8. PICK amount \in Amounts :
        /\ order = Retraced(amount, count, old)
        /\ \A n \in DOMAIN old : Fine(old, amount, n)
  BY DEF IsExplained
<1>9. made = Retraced(amount, count, long)
  <2>1. Retraced(amount, count, long)
          = UpdatedOrder(entry.id, Context(Retraced(amount, count, old),
                                           entry.event, entry.metadata))
    BY <1>1, RetraceOneMore
  <2> QED
    BY <1>3, <1>8, <2>1
<1>10. ASSUME NEW n \in DOMAIN long
       PROVE  Fine(long, amount, n)
  <2>1. CASE n \in DOMAIN old
    <3>1. long[n] = old[n] /\ SubSeq(long, 1, n - 1) = SubSeq(old, 1, n - 1)
      BY <1>5, <1>7, <2>1
    <3>2. Fine(old, amount, n)
      BY <1>8, <2>1
    <3> QED
      BY <3>1, <3>2
  <2>2. CASE n \notin DOMAIN old
    <3>1. n = Len(old) + 1 /\ n - 1 = Len(old)
      BY <1>5, <2>2
    <3>2. SubSeq(long, 1, n - 1) = old /\ long[n] = entry
      BY <1>5, <1>6, <3>1
    <3>3. Retraced(amount, count, SubSeq(long, 1, n - 1)) = order
      BY <1>8, <3>2
    <3> QED
      BY <1>3, <1>4, <3>2, <3>3
  <2> QED
    BY <2>1, <2>2
<1> HIDE DEF made, long, old, count, context
<1>11. IsExplained(made)
  <2> USE DEF count, old
  <2>1. made.history = long /\ made.productCount = order.productCount
    BY <1>2
  <2> QED
    BY <1>9, <1>10, <2>1 DEF IsExplained
<1> QED
  BY <1>11 DEF made, context
=============================================================================
