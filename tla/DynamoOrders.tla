---------------------------- MODULE DynamoOrders ----------------------------
(***************************************************************************)
(* The backend with its DynamoDB repository: request handlers, in threads  *)
(* or in Lambda instances, that share nothing but one table.  A step is    *)
(* one call of the table, or what a handler computes between two calls.    *)
(* (app/services/order_service.py, app/adapters/dynamodb_*.py)             *)
(*                                                                         *)
(* The table is external and modelled from how the repository calls it: a  *)
(* conditional put and a transaction are atomic and a consistent read sees *)
(* every write before it.  A call can be lost or executed late, its answer *)
(* can be lost, and boto3 then sends the call again.                       *)
(*                                                                         *)
(* list_summaries reads the index, which may show any past of it, and      *)
(* nothing else depends on: it is left out.                                *)
(***************************************************************************)
EXTENDS OrderService

CONSTANTS Handlers,      \* handlers that run at one time
          Routes,        \* the operations clients call
          MaxRequests,   \* bound on the requests clients make
          MaxAttempts,   \* times boto3 sends a call before it gives up
          PageSize,      \* events on one page of a query
          MaxSkew        \* how far the clock of a host runs ahead

RequestIds == 1 .. MaxRequests

ASSUME HandlersAssumption ==
  /\ MaxRequests \in Nat /\ MaxSkew \in Nat
  /\ MaxAttempts \in Nat \ {0} /\ PageSize \in Nat \ {0}
  /\ None \notin Handlers \cup Requests

VARIABLES
  orders,    \* the order items; the history of each is its event items in the
             \* order they were committed, which the table itself does not keep
  tickets,   \* the ticket items
  tokens,    \* the ClientRequestTokens of the committed transactions
  stamp,     \* created_at of the event each request built, 0 before
  network,   \* the calls that were sent and may still be executed
  pc,        \* where each handler is; "idle" between requests
  request,   \* the request it serves: operation, order, body, number
  loaded,    \* the order object it loaded, or is loading
  sent,      \* the call it waits for, as it was sent last
  issued,    \* number of requests received
  outcome    \* how each request was answered

table    == <<orders, tickets, tokens>>
handlers == <<pc, request, loaded, sent>>
clients  == <<issued, outcome>>
vars     == <<table, stamp, network, handlers, clients>>

Id(t)     == request[t].id
Target(t) == request[t].order
Body(t)   == request[t].body

\* The evaluation apply_event makes of the order it loaded.
Evaluation(t) == Context(loaded[t], Body(t).event, Body(t).metadata)

Init ==
  /\ orders = [o \in OrderIds |-> None]
  /\ tickets = {}
  /\ tokens = {}
  /\ stamp = [i \in RequestIds |-> 0]
  /\ network = {}
  /\ pc = [t \in Handlers |-> "idle"]
  /\ request = [t \in Handlers |-> None]
  /\ loaded = [t \in Handlers |-> None]
  /\ sent = [t \in Handlers |-> None]
  /\ issued = 0
  /\ outcome = [i \in RequestIds |-> "none"]

Goto(t, step) == pc' = [pc EXCEPT ![t] = step]

Answer(t, status) ==
  /\ Goto(t, "idle")
  /\ request' = [request EXCEPT ![t] = None]
  /\ loaded' = [loaded EXCEPT ![t] = None]
  /\ sent' = [sent EXCEPT ![t] = None]
  /\ outcome' = [outcome EXCEPT ![Id(t)] = status]
  /\ UNCHANGED issued

-----------------------------------------------------------------------------
(* Calls that write: sent by a handler, executed by the table *)

Send(t, call) ==
  /\ network' = network \cup {call}
  /\ sent' = [sent EXCEPT ![t] = call]

\* put_item of create.
PutCall(id, o, order) ==
  [type |-> "put", id |-> id, attempt |-> 1, order |-> o, item |-> order]

\* transact_write_items of commit_transition, with the records apply_event built.
TransactCall(id, o, context) ==
  [type     |-> "transact", id |-> id, attempt |-> 1, order |-> o,
   expected |-> context.order.version,
   item     |-> UpdatedOrder(id, context),
   entry    |-> EventEntry(id, context),
   tickets  |-> SupportTickets(id, o, context)]

Waits(t) == pc[t] \in {"put", "transact"}

\* boto3 had no answer in time.
Resend(t) ==
  /\ Waits(t)
  /\ sent[t].attempt < MaxAttempts
  /\ Send(t, [sent[t] EXCEPT !.attempt = @ + 1])
  /\ UNCHANGED <<table, stamp, pc, request, loaded, clients>>

\* The table's answer reaches the handler if it still waits for this attempt,
\* or is lost.
Reply(call, status) ==
  \/ UNCHANGED <<handlers, clients>>
  \/ \E t \in Handlers :
       /\ Waits(t) /\ sent[t] = call
       /\ Answer(t, status)

\* ITEM_KEY_NOT_EXISTS_CONDITION.
KeyIsFree(call) == orders[call.order] = None

ExecutePut(call) ==
  /\ call.type = "put"
  /\ network' = network \ {call}
  /\ IF KeyIsFree(call)
     THEN /\ orders' = [orders EXCEPT ![call.order] = call.item]
          /\ Reply(call, "created")
     ELSE /\ Reply(call, "exists")
          /\ UNCHANGED orders
  /\ UNCHANGED <<tickets, tokens, stamp>>

\* Mutant: only the state is compared.
StateIsUnmoved(call) ==
  /\ orders[call.order] # None
  /\ orders[call.order].state = call.entry.from

\* The condition of the order update, the first item of the transaction.
OrderIsUnmoved(call) ==
  /\ orders[call.order] # None
  /\ orders[call.order].version = call.expected
  /\ orders[call.order].state = call.entry.from

\* Mutant: the transaction carries no token.
NeverRepeated(call) == FALSE

\* The table knows the token and answers as it did.
IsRepeated(call) == call.id \in tokens

\* The update keeps the other attributes; the event becomes an item of its own.
Commit(call) ==
  /\ orders' = [orders EXCEPT ![call.order] =
                  [@ EXCEPT !.state   = call.item.state,
                            !.amount  = call.item.amount,
                            !.version = call.item.version,
                            !.history = Append(orders[call.order].history, call.entry)]]
  /\ tickets' = tickets \cup call.tickets
  /\ tokens' = tokens \cup {call.id}

ExecuteTransaction(call) ==
  /\ call.type = "transact"
  /\ network' = network \ {call}
  /\ \/ /\ IsRepeated(call)
        /\ Reply(call, "applied")
        /\ UNCHANGED table
     \/ /\ ~IsRepeated(call) /\ OrderIsUnmoved(call)
        /\ Commit(call)
        /\ Reply(call, "applied")
     \/ /\ ~IsRepeated(call) /\ ~OrderIsUnmoved(call)
        /\ Reply(call, "versionConflict")
        /\ UNCHANGED table
  /\ UNCHANGED stamp

\* Another transaction on the same item is under way: a TransactionConflict,
\* which the repository does not translate.
CancelTransaction(call) ==
  /\ call.type = "transact"
  /\ \E other \in network \ {call} : other.order = call.order
  /\ network' = network \ {call}
  /\ Reply(call, "error")
  /\ UNCHANGED <<table, stamp>>

-----------------------------------------------------------------------------
(* The routes *)

Receive(t, operation, o, body) ==
  /\ pc[t] = "idle"
  /\ operation \in Routes
  /\ issued < MaxRequests
  /\ issued' = issued + 1
  /\ request' = [request EXCEPT ![t] =
                   [operation |-> operation, order |-> o, body |-> body, id |-> issued + 1]]
  /\ UNCHANGED <<table, stamp, outcome>>

ReceiveCreate(t, o, amount, count) ==
  /\ Receive(t, "create", o, None)
  /\ orders[o] = None /\ \A call \in network : call.order # o   \* a fresh uuid
  /\ Goto(t, "put")
  /\ Send(t, PutCall(issued + 1, o, NewOrder(amount, count)))
  /\ UNCHANGED loaded

ReceiveGet(t, o) ==
  /\ Receive(t, "get", o, None)
  /\ Goto(t, "getItem")
  /\ UNCHANGED <<network, loaded, sent>>

ReceiveApply(t, o, body) ==
  /\ Receive(t, "apply", o, body)
  /\ Goto(t, "getItem")
  /\ UNCHANGED <<network, loaded, sent>>

-----------------------------------------------------------------------------
(* get_by_id: the order item, then its events page by page *)

GetItem(t) ==
  /\ pc[t] = "getItem"
  /\ IF orders[Target(t)] = None
     THEN Answer(t, "notFound")
     ELSE /\ loaded' = [loaded EXCEPT ![t] = [orders[Target(t)] EXCEPT !.history = <<>>]]
          /\ Goto(t, "query")
          /\ UNCHANGED <<request, sent, clients>>
  /\ UNCHANGED <<table, stamp, network>>

\* Mutant: the newest event first.
Follows(a, b) == stamp[a.id] > stamp[b.id]

\* The sort key EVENT#<created_at>#<event id>.
Precedes(a, b) ==
  \/ stamp[a.id] < stamp[b.id]
  \/ stamp[a.id] = stamp[b.id] /\ a.id < b.id

Unread(t) ==
  {e \in Range(orders[Target(t)].history) :
     \A read \in Range(loaded[t].history) : Precedes(read, e)}

\* What a query may answer: the first events by key, a full page or all.
Pages(t) ==
  {page \in SeqOf(Unread(t), PageSize) :
     /\ \A m, n \in DOMAIN page : m < n => Precedes(page[m], page[n])
     /\ \A e \in Unread(t) \ Range(page) :
          Len(page) = PageSize /\ \A n \in DOMAIN page : Precedes(page[n], e)}

\* Mutant: LastEvaluatedKey is ignored.
OnlyPage(page) == TRUE

\* No LastEvaluatedKey: the page is not full.
IsLastPage(page) == Len(page) < PageSize

QueryEvents(t) ==
  /\ pc[t] = "query"
  /\ \E page \in Pages(t) :
       /\ loaded' = [loaded EXCEPT ![t].history = @ \o page]
       /\ Goto(t, IF IsLastPage(page)
                  THEN CASE request[t].operation = "get"   -> "show"
                         [] request[t].operation = "apply" -> "evaluate"
                  ELSE "query")
  /\ UNCHANGED <<table, stamp, network, request, sent, clients>>

FinishGet(t) ==
  /\ pc[t] = "show"
  /\ Answer(t, "read")
  /\ UNCHANGED <<table, stamp, network>>

-----------------------------------------------------------------------------
(* apply_event *)

Refuse(t, status) ==
  /\ Answer(t, status)
  /\ UNCHANGED <<table, stamp, network>>

RefuseTransition(t) ==
  /\ pc[t] = "evaluate"
  /\ ~IsEnabled(loaded[t].state, Body(t).event)
  /\ Refuse(t, "invalidTransition")

RefuseOverrides(t) ==
  /\ pc[t] = "evaluate"
  /\ IsEnabled(loaded[t].state, Body(t).event)
  /\ OverridesConflict(Evaluation(t))
  /\ Refuse(t, "overrideConflict")

\* The time, in readings of a clock: two readings differ unless a clock runs
\* ahead.
Now == 1 + Cardinality({i \in RequestIds : stamp[i] # 0})

\* to_dynamodb_number raises on an amount that left the float range.
IsStorable(amount) == amount \notin {Infinity, NaN}

EvaluateEvent(t) ==
  /\ pc[t] = "evaluate"
  /\ Accepts(loaded[t], Body(t).event, Body(t).metadata)
  /\ \E skew \in 0 .. MaxSkew : stamp' = [stamp EXCEPT ![Id(t)] = Now + skew]
  /\ IF IsStorable(FinalAmount(Evaluation(t)))
     THEN /\ Send(t, TransactCall(Id(t), Target(t), Evaluation(t)))
          /\ loaded' = [loaded EXCEPT ![t] = None]
          /\ Goto(t, "transact")
          /\ UNCHANGED <<request, clients>>
     ELSE /\ Answer(t, "unstorable")
          /\ UNCHANGED network
  /\ UNCHANGED table

\* boto3 gives up or the function ends: the client is told 5xx.  (Where a
\* handler only computes, nobody can tell that from an end at the call before.)
Fail(t) ==
  /\ pc[t] \in {"put", "getItem", "query", "transact"}
  /\ Answer(t, "error")
  /\ UNCHANGED <<table, stamp, network>>

-----------------------------------------------------------------------------
ReceiveSome(t) ==
  \E o \in OrderIds :
    \/ \E amount \in Amounts, count \in ProductCounts : ReceiveCreate(t, o, amount, count)
    \/ ReceiveGet(t, o)
    \/ \E body \in Requests : ReceiveApply(t, o, body)

Proceed(t) ==
  \/ GetItem(t) \/ QueryEvents(t) \/ FinishGet(t)
  \/ RefuseTransition(t) \/ RefuseOverrides(t) \/ EvaluateEvent(t)
  \/ Resend(t) \/ Fail(t)

Execute(call) ==
  ExecutePut(call) \/ ExecuteTransaction(call) \/ CancelTransaction(call)

\* Every request was answered and the bound admits no other.
Exhausted ==
  /\ issued = MaxRequests
  /\ \A t \in Handlers : pc[t] = "idle"
  /\ UNCHANGED vars

Next ==
  \/ \E t \in Handlers : ReceiveSome(t) \/ Proceed(t)
  \/ \E call \in network : Execute(call)
  \/ Exhausted

Spec == Init /\ [][Next]_vars
-----------------------------------------------------------------------------
(* Properties *)

Steps == {"idle", "put", "getItem", "query", "show", "evaluate", "transact"}

\* Answers that tell the client that its request changed nothing.
Refusals ==
  {"notFound", "invalidTransition", "overrideConflict", "versionConflict", "unstorable"}

Outcomes ==
  {"none", "created", "exists", "read", "applied", "error"} \cup Refusals

RequestRecord ==
  [operation : {"create", "get", "apply"}, order : OrderIds, body : Requests \cup {None},
   id : RequestIds]

TypeOK ==
  /\ orders \in [OrderIds -> Order \cup {None}]
  /\ \A k \in tickets : k.id \in RequestIds /\ k.order \in OrderIds
  /\ tokens \subseteq RequestIds
  /\ stamp \in [RequestIds -> Nat]
  /\ \A call \in network :
       /\ call.id \in RequestIds /\ call.attempt \in 1 .. MaxAttempts
       /\ call.order \in OrderIds /\ call.item \in Order
       /\ call.type = "transact" => call.entry \in Entry
  /\ pc \in [Handlers -> Steps]
  /\ request \in [Handlers -> RequestRecord \cup {None}]
  /\ loaded \in [Handlers -> Order \cup {None}]
  /\ DOMAIN sent = Handlers /\ \A t \in Handlers : Waits(t) \/ sent[t] = None
  /\ issued \in 0 .. MaxRequests
  /\ outcome \in [RequestIds -> Outcomes]

(***************************************************************************)
(* An applied event is in the table, once, for good; an event that was     *)
(* refused never gets there, although calls are sent again, executed late  *)
(* and answered into the void; only a 5xx leaves the client in doubt.      *)
(* (ClientRequestToken and the condition of commit_transition.)            *)
(***************************************************************************)
Records(i) == RecordsIn(orders, i)

AnswersMatchTable ==
  \A i \in RequestIds :
    /\ Cardinality(Records(i)) <= 1
    /\ outcome[i] = "applied" => Records(i) # {}
    /\ outcome[i] \in Refusals => Records(i) = {}

(***************************************************************************)
(* A detail read is no snapshot, but its history has every event up to the *)
(* version it shows: events that commit between the pages can only add to  *)
(* it.  (get_by_id reads the item before the events.)                      *)
(***************************************************************************)
HistoryCoversVersion ==
  \A t \in Handlers :
    pc[t] \in {"show", "evaluate"} =>
      Range(SubSeq(orders[Target(t)].history, 1, loaded[t].version))
        \subseteq Range(loaded[t].history)

(***************************************************************************)
(* The answer to an applied event is exact although the load behind it was *)
(* no snapshot: its history is what was committed up to its version, in    *)
(* that order, if the clocks of the hosts agree (MaxSkew = 0).  The        *)
(* version condition rejects every load that was torn.                     *)
(***************************************************************************)
AppliedAnswerIsExact ==
  [][\A t \in Handlers :
       pc[t] = "transact" /\ outcome'[Id(t)] = "applied" =>
         SubSeq(orders'[Target(t)].history, 1, sent[t].item.version)
           = sent[t].item.history]_vars

(***************************************************************************)
(* The table implements the ledger: the transaction that commits is the    *)
(* step that advances the order, whichever copy of the call it was.        *)
(***************************************************************************)
Ledger == INSTANCE OrderRepository

ImplementsLedger ==
  Ledger!Init /\ [][UNCHANGED Ledger!vars \/ Ledger!Next]_vars
-----------------------------------------------------------------------------
(***************************************************************************)
(* The inductive invariant: what a handler holds at each step, what a call *)
(* carries that may still be executed, and what was recorded.              *)
(***************************************************************************)
\* A read of the order, perhaps of its past: everything but the history.
IsReading(order, o) ==
  /\ orders[o] # None
  /\ order.version <= orders[o].version
  /\ order.version = orders[o].version =>
       /\ order.amount = orders[o].amount
       /\ order.productCount = orders[o].productCount
       /\ order.state = orders[o].state

\* What the call would write is what an accepted event makes of the order as
\* it is stored; only the history it was made with may be another.
Carries(call, body) ==
  LET context == Context(orders[call.order], body.event, body.metadata)
      updated == UpdatedOrder(call.id, context)
  IN /\ Accepts(orders[call.order], body.event, body.metadata)
     /\ call.item.state = updated.state
     /\ call.item.amount = updated.amount
     /\ call.item.version = updated.version
     /\ call.entry = EventEntry(call.id, context)
     /\ call.tickets = SupportTickets(call.id, call.order, context)

PutInPlace(call) ==
  /\ DOMAIN call = {"type", "id", "attempt", "order", "item"}
  /\ \E amount \in Amounts, count \in ProductCounts : call.item = NewOrder(amount, count)

TransactionInPlace(call) ==
  /\ DOMAIN call = {"type", "id", "attempt", "order", "expected", "item", "entry", "tickets"}
  /\ call.expected \in Nat
  /\ call.item \in Order
  /\ call.entry \in Entry /\ call.entry.id = call.id
  /\ \A k \in call.tickets : k.id = call.id /\ k.order = call.order
  /\ orders[call.order] # None
  /\ call.expected <= orders[call.order].version
  /\ call.expected = orders[call.order].version => \E body \in Requests : Carries(call, body)

CallInPlace(call) ==
  /\ call.id \in 1 .. issued
  /\ call.attempt \in 1 .. MaxAttempts
  /\ call.order \in OrderIds
  /\ \/ call.type = "put" /\ PutInPlace(call)
     \/ call.type = "transact" /\ TransactionInPlace(call)

\* Copies of one call, an attempt each.
IsCopyOf(call, other) ==
  /\ call.type = other.type /\ call.order = other.order
  /\ call.type = "transact" => call.expected = other.expected

RequestInPlace(t) ==
  pc[t] # "idle" =>
    /\ request[t] \in RequestRecord
    /\ Id(t) <= issued
    /\ outcome[Id(t)] = "none"
    /\ \A u \in Handlers : pc[u] # "idle" /\ Id(u) = Id(t) => u = t
    /\ request[t].operation = "create" <=> pc[t] = "put"
    /\ request[t].operation = "apply" => request[t].body \in Requests
    /\ pc[t] \in {"evaluate", "transact"} => request[t].operation = "apply"

SentInPlace(t) ==
  /\ pc[t] \in {"getItem", "query", "show", "evaluate"} =>
       /\ Id(t) \notin tokens
       /\ \A call \in network : call.id # Id(t)
  /\ Waits(t) =>
       /\ sent[t].id = Id(t)
       /\ sent[t].type = pc[t]
       /\ CallInPlace(sent[t])
       /\ \A call \in network : call.id = Id(t) => IsCopyOf(call, sent[t])

\* Events that were committed when the item was read are read or still to come.
Loading(t) ==
  \A i \in 1 .. loaded[t].version :
    LET e == orders[Target(t)].history[i]
    IN \/ e \in Range(loaded[t].history)
       \/ pc[t] = "query" /\ \A read \in Range(loaded[t].history) : Precedes(read, e)

LoadInPlace(t) ==
  pc[t] \in {"query", "show", "evaluate"} =>
    /\ loaded[t] # None
    /\ \A read \in Range(loaded[t].history) : read.id \in tokens
    /\ IsReading(loaded[t], Target(t))
    /\ Loading(t)

HistoryInPlace(o) ==
  orders[o] # None =>
    /\ Len(orders[o].history) = orders[o].version
    /\ \A e \in Range(orders[o].history) : e.id \in tokens

RecordInPlace(i) ==
  /\ i > issued => outcome[i] = "none" /\ i \notin tokens
  /\ i \in tokens <=> Records(i) # {}
  /\ \A r, s \in Records(i) : r = s
  /\ outcome[i] = "applied" => i \in tokens
  /\ outcome[i] \in Refusals =>
       /\ i \notin tokens
       /\ \A call \in network :
            call.id = i /\ call.type = "transact" =>
              orders[call.order].version > call.expected

IndInv ==
  /\ TypeOK
  /\ \A o \in OrderIds : HistoryInPlace(o)
  /\ \A call \in network : CallInPlace(call)
  /\ \A t \in Handlers : RequestInPlace(t) /\ SentInPlace(t) /\ LoadInPlace(t)
  /\ \A i \in RequestIds : RecordInPlace(i)

-----------------------------------------------------------------------------
(***************************************************************************)
(* Where the clocks agree, what a call of an event carries is exact as     *)
(* long as the call can still commit: with IndInv the inductive invariant  *)
(* behind AppliedAnswerIsExact.                                            *)
(***************************************************************************)
\* The calls that may still be executed or answered.
Pending == network \cup {sent[t] : t \in {u \in Handlers : Waits(u)}}

\* The clock is ahead of every event, and was not read for those to come.
ClockFits ==
  /\ \A i \in RequestIds : stamp[i] < Now /\ (i > issued => stamp[i] = 0)
  /\ \A t \in Handlers : pc[t] \in {"getItem", "query", "show", "evaluate"} => stamp[Id(t)] = 0

\* Events were committed in the order of their times.
InOrder(o) ==
  LET h == orders[o].history
  IN orders[o] # None =>
       \A m, n \in 1 .. Len(h) : m < n => stamp[h[m].id] < stamp[h[n].id]

\* What was read of an order that has not moved since is what it has, up to a
\* point, and all of it in the end.
ReadsExactly(t) ==
  LET h    == orders[Target(t)].history
      read == loaded[t].history
  IN pc[t] \in {"query", "show", "evaluate"}
       /\ loaded[t].version = orders[Target(t)].version =>
       /\ Len(read) <= Len(h) /\ \A n \in 1 .. Len(read) : read[n] = h[n]
       /\ pc[t] # "query" => Len(read) = Len(h)

HandlerIsExact(t) == ReadsExactly(t) /\ (Waits(t) => sent[t].order = Target(t))

\* A call that committed left what it answers; one that can still commit will.
AnswersExactly(call) ==
  LET h    == orders[call.order].history
      told == call.item.history
  IN call.type = "transact" =>
       /\ call.id \in tokens =>
            /\ Len(told) = call.item.version /\ Len(told) <= Len(h)
            /\ \A n \in 1 .. Len(told) : told[n] = h[n]
       /\ call.id \notin tokens /\ call.expected = orders[call.order].version =>
            /\ told = Append(h, call.entry)
            /\ \A n \in 1 .. Len(h) : stamp[h[n].id] < stamp[call.id]

\* Calls under one request carry the same.
IsRepeatOf(call, other) ==
  call.id = other.id /\ call.type = "transact" =>
    /\ other.type = "transact" /\ other.order = call.order /\ other.item = call.item
    /\ other.entry = call.entry /\ other.expected = call.expected

ExactInv ==
  /\ ClockFits
  /\ \A o \in OrderIds : InOrder(o)
  /\ \A t \in Handlers : HandlerIsExact(t)
  /\ \A call \in Pending : AnswersExactly(call)
  /\ \A call, other \in Pending : IsRepeatOf(call, other)
=============================================================================
