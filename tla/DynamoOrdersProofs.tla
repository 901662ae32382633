------------------------- MODULE DynamoOrdersProofs -------------------------
(***************************************************************************)
(* The DynamoDB backend for any number of handlers, orders and requests,   *)
(* any loaded rules, page size, number of attempts and skew of clocks: its *)
(* inductive invariant, the honesty of its answers, the completeness of    *)
(* its paged reads, the refinement of the ledger and, where the clocks     *)
(* agree, the exactness of what an applied event answers.                  *)
(***************************************************************************)
EXTENDS DynamoOrders, OrderServiceProofs, FiniteSetTheorems

-----------------------------------------------------------------------------
(* The table only grows *)

(***************************************************************************)
(* What a step may do to a stored order: nothing, or move it on, keeping   *)
(* the events it has. (create, commit_transition.)                         *)
(***************************************************************************)
Grown ==
  \A o \in OrderIds :
    orders[o] # None =>
      /\ orders'[o] # None
      /\ \/ orders'[o] = orders[o]
         \/ /\ orders'[o].version > orders[o].version
            /\ Len(orders'[o].history) > Len(orders[o].history)
            /\ \A i \in 1 .. Len(orders[o].history) :
                 orders'[o].history[i] = orders[o].history[i]

\* The clock was read once for each event that was committed.
StampsStay ==
  tokens \subseteq tokens' /\ \A i \in tokens : stamp'[i] = stamp[i]

(***************************************************************************)
(* A stored order is an order, and its version counts its events.          *)
(***************************************************************************)
LEMMA StoredIsTyped ==
  ASSUME IndInv, NEW o \in OrderIds, orders[o] # None
  PROVE  /\ orders[o] \in Order /\ orders[o].version \in Nat
         /\ orders[o].history \in Seq(Entry)
         /\ Len(orders[o].history) = orders[o].version
BY DEF IndInv, HistoryInPlace, TypeOK, Order

(***************************************************************************)
(* A call keeps what it carries while the table grows: it still fits the   *)
(* order, or has come too late for it. (commit_transition.)                *)
(***************************************************************************)
LEMMA CallStays ==
  ASSUME IndInv, Grown, NEW call, CallInPlace(call), TypeOK', issued <= issued'
  PROVE  CallInPlace(call)'
<1> USE DEF CallInPlace
<1>1. call.id \in 1 .. issued'
  BY HandlersAssumption DEF IndInv, TypeOK
<1>2. CASE call.type = "put"
  BY <1>1, <1>2 DEF PutInPlace
<1>3. CASE call.type = "transact"
  <2> DEFINE o == call.order
  <2>1. TransactionInPlace(call) /\ o \in OrderIds
    BY <1>3
  <2>2. orders[o] # None /\ orders'[o] # None
        /\ orders[o].version \in Nat /\ orders'[o].version \in Nat /\ call.expected \in Nat
    BY <2>1 DEF TransactionInPlace, Grown, IndInv, TypeOK, Order
  <2>3. CASE orders'[o] = orders[o]
    <3>1. \A body : Carries(call, body) => Carries(call, body)'
      BY <2>3 DEF Carries
    <3> QED
      BY <1>1, <1>3, <2>1, <2>2, <2>3, <3>1 DEF TransactionInPlace
  <2>4. CASE orders'[o].version > orders[o].version
    <3>1. call.expected < orders'[o].version
      BY <2>1, <2>2, <2>4 DEF TransactionInPlace
    <3> QED
      BY <1>1, <1>3, <2>1, <2>2, <3>1 DEF TransactionInPlace
  <2> QED
    BY <2>1, <2>2, <2>3, <2>4 DEF Grown
<1> QED
  BY <1>2, <1>3

(***************************************************************************)
(* A handler that loads keeps what it has read while others commit: new    *)
(* events come after those it must read. (get_by_id.)                      *)
(***************************************************************************)
LEMMA LoadStays ==
  ASSUME IndInv, TypeOK', Grown, StampsStay, NEW t \in Handlers,
         pc'[t] = pc[t], request'[t] = request[t], loaded'[t] = loaded[t]
  PROVE  LoadInPlace(t)'
<1> SUFFICES ASSUME pc[t] \in {"query", "show", "evaluate"}
             PROVE  LoadInPlace(t)'
  BY DEF LoadInPlace
<1> DEFINE o == Target(t)
           h == orders[o].history
<1>1. /\ LoadInPlace(t) /\ RequestInPlace(t)
      /\ o \in OrderIds /\ orders[o] # None /\ loaded[t] \in Order
      /\ Target(t)' = o
  BY DEF IndInv, TypeOK, LoadInPlace, RequestInPlace, RequestRecord, Target, IsReading
<1>2. /\ h \in Seq(Entry) /\ Len(h) = orders[o].version /\ orders[o].version \in Nat
      /\ \A n \in 1 .. Len(h) : h[n].id \in tokens
  BY <1>1, StoredIsTyped DEF IndInv, HistoryInPlace, Range
<1>3. /\ orders'[o] # None
      /\ orders'[o] = orders[o] \/ orders'[o].version > orders[o].version
      /\ \A n \in 1 .. Len(h) : orders'[o].history[n] = h[n]
  BY <1>1, <1>2 DEF Grown
<1>4. /\ loaded[t].version <= orders[o].version /\ loaded[t].version \in Nat
      /\ \A read \in Range(loaded[t].history) : read.id \in tokens
  BY <1>1 DEF LoadInPlace, IsReading, Order
<1>5. IsReading(loaded[t], Target(t))'
  <2>1. IsReading(loaded[t], o)
    BY <1>1 DEF LoadInPlace
  <2>2. CASE orders'[o] = orders[o]
    BY <1>1, <1>3, <2>1, <2>2 DEF IsReading
  <2>3. CASE orders'[o].version > orders[o].version
    <3>1. orders'[o].version \in Nat
      BY <1>1, <1>3 DEF TypeOK, Order
    <3> QED
      BY <1>1, <1>2, <1>3, <1>4, <2>3, <3>1 DEF IsReading
  <2> QED
    BY <1>3, <2>2, <2>3
<1>6. Loading(t)'
  <2>1. ASSUME NEW read, NEW e, read.id \in tokens, e.id \in tokens
        PROVE  Precedes(read, e)' <=> Precedes(read, e)
    BY <2>1 DEF StampsStay, Precedes
  <2>2. ASSUME NEW n \in 1 .. loaded[t].version
        PROVE  /\ h[n].id \in tokens /\ orders'[o].history[n] = h[n]
               /\ \/ h[n] \in Range(loaded[t].history)
                  \/ /\ pc[t] = "query"
                     /\ \A read \in Range(loaded[t].history) : Precedes(read, h[n])
    <3>1. n \in 1 .. Len(h)
      BY <1>2, <1>4
    <3> QED
      BY <1>1, <1>2, <1>3, <3>1 DEF LoadInPlace, Loading
  <2> HIDE DEF h
  <2>3. ASSUME NEW n \in 1 .. loaded[t].version, NEW e, e = h[n]
        PROVE  \/ e \in Range(loaded[t].history)
               \/ /\ pc[t] = "query"
                  /\ \A read \in Range(loaded[t].history) : Precedes(read, e)'
    BY <1>4, <2>1, <2>2, <2>3
  <2> QED
    BY <1>1, <2>2, <2>3 DEF Loading
<1> QED
  BY <1>1, <1>3, <1>4, <1>5, <1>6 DEF LoadInPlace, StampsStay

-----------------------------------------------------------------------------
(* Steps that leave each handler where it is, or let it answer *)

Stays(u) ==
  pc'[u] = pc[u] /\ request'[u] = request[u] /\ loaded'[u] = loaded[u] /\ sent'[u] = sent[u]

LoadSteps == {"getItem", "query", "show", "evaluate"}

(***************************************************************************)
(* Requests of their own and no answer yet: kept by the handlers that stay *)
(* when one leaves. (The routes.)                                          *)
(***************************************************************************)
LEMMA RequestsStay ==
  ASSUME IndInv, TypeOK', issued <= issued', NEW u \in Handlers, Stays(u),
         \A v \in Handlers : Stays(v) \/ pc'[v] = "idle",
         pc'[u] # "idle" => outcome'[Id(u)] = outcome[Id(u)]
  PROVE  RequestInPlace(u)'
<1> SUFFICES ASSUME pc'[u] # "idle"
             PROVE  RequestInPlace(u)'
  BY DEF RequestInPlace
<1>1. RequestInPlace(u) /\ pc[u] # "idle" /\ Id(u)' = Id(u) /\ issued \in Nat /\ issued' \in Nat
      /\ Id(u) \in Nat
  BY HandlersAssumption
     DEF IndInv, Stays, Id, TypeOK, RequestInPlace, RequestRecord, RequestIds
<1>2. \A v \in Handlers : pc'[v] # "idle" /\ Id(v)' = Id(u)' => v = u
  BY <1>1 DEF RequestInPlace, Stays, Id
<1> QED
  BY <1>1, <1>2 DEF RequestInPlace, Stays

(***************************************************************************)
(* A step that grows the table and sends nothing keeps the invariant if    *)
(* the handlers it concerns go idle.                                       *)
(***************************************************************************)
LEMMA RestKeeps ==
  ASSUME IndInv, TypeOK', Grown, StampsStay, network' \subseteq network, issued' = issued,
         \A o \in OrderIds : HistoryInPlace(o)',
         \A i \in RequestIds : RecordInPlace(i)',
         \A u \in Handlers : Stays(u) \/ pc'[u] = "idle",
         \A u \in Handlers : pc'[u] # "idle" => outcome'[Id(u)] = outcome[Id(u)],
         \A u \in Handlers : pc'[u] \in LoadSteps => Id(u) \notin tokens'
  PROVE  IndInv'
<1>1. issued <= issued'
  BY HandlersAssumption DEF IndInv, TypeOK
<1>2. \A call \in network' : CallInPlace(call)'
  BY <1>1, CallStays DEF IndInv
<1>3. ASSUME NEW u \in Handlers
      PROVE  RequestInPlace(u)' /\ SentInPlace(u)' /\ LoadInPlace(u)'
  <2>1. CASE pc'[u] = "idle"
    BY <2>1 DEF RequestInPlace, SentInPlace, LoadInPlace, Waits
  <2>2. CASE pc'[u] # "idle"
    <3>1. Stays(u) /\ Id(u)' = Id(u)
      BY <2>2 DEF Stays, Id
    <3>2. RequestInPlace(u)'
      BY <1>1, <2>2, <3>1, RequestsStay
    <3>3. LoadInPlace(u)'
      BY <3>1, LoadStays DEF Stays
    <3>4. SentInPlace(u)
      BY DEF IndInv
    <3>5. Waits(u)' => CallInPlace(sent[u])'
      BY <1>1, <3>1, <3>4, CallStays DEF SentInPlace, Waits, Stays
    <3>6. SentInPlace(u)'
      BY <2>2, <3>1, <3>4, <3>5 DEF SentInPlace, Waits, Stays, LoadSteps
    <3> QED
      BY <3>2, <3>3, <3>6
  <2> QED
    BY <2>1, <2>2
<1> QED
  BY <1>2, <1>3 DEF IndInv

(***************************************************************************)
(* A handler that answers leaves the others alone. (FastAPI's pool, Lambda *)
(* instances.)                                                             *)
(***************************************************************************)
LEMMA AnswerLeaves ==
  ASSUME IndInv, NEW t \in Handlers, pc[t] # "idle", NEW status, Answer(t, status)
  PROVE  /\ pc'[t] = "idle" /\ issued' = issued
         /\ \A u \in Handlers : Stays(u) \/ pc'[u] = "idle"
         /\ \A u \in Handlers : u # t => pc'[u] = pc[u]
         /\ \A u \in Handlers : pc'[u] # "idle" => outcome'[Id(u)] = outcome[Id(u)]
         /\ Id(t) \in RequestIds /\ Id(t) <= issued /\ outcome[Id(t)] = "none"
         /\ outcome' = [outcome EXCEPT ![Id(t)] = status]
<1>1. /\ pc' = [pc EXCEPT ![t] = "idle"] /\ issued' = issued
      /\ request' = [request EXCEPT ![t] = None] /\ loaded' = [loaded EXCEPT ![t] = None]
      /\ sent' = [sent EXCEPT ![t] = None] /\ outcome' = [outcome EXCEPT ![Id(t)] = status]
  BY DEF Answer, Goto
<1>2. RequestInPlace(t)
  BY DEF IndInv
<1>3. Id(t) \in RequestIds /\ Id(t) <= issued /\ outcome[Id(t)] = "none"
  BY <1>2 DEF RequestInPlace, RequestRecord, Id
<1>4. \A u \in Handlers : u # t => Stays(u)
  BY <1>1 DEF Stays, IndInv, TypeOK
<1>5. pc'[t] = "idle"
  BY <1>1 DEF IndInv, TypeOK
<1>6. ASSUME NEW u \in Handlers, pc'[u] # "idle"
      PROVE  outcome'[Id(u)] = outcome[Id(u)]
  <2>1. u # t /\ pc[u] # "idle"
    BY <1>4, <1>5, <1>6 DEF Stays
  <2>2. Id(u) # Id(t) /\ Id(u) \in RequestIds
    BY <2>1, <1>2 DEF IndInv, RequestInPlace, RequestRecord, Id
  <2> QED
    BY <1>1, <2>2 DEF IndInv, TypeOK
<1> QED
  BY <1>1, <1>3, <1>4, <1>5, <1>6 DEF Stays

\* What TypeOK says of the table and the clock.
TableTypes ==
  /\ orders \in [OrderIds -> Order \cup {None}]
  /\ \A k \in tickets : k.id \in RequestIds /\ k.order \in OrderIds
  /\ tokens \subseteq RequestIds
  /\ stamp \in [RequestIds -> Nat]

(***************************************************************************)
(* A handler that answers keeps the types. (The routes return or raise.)   *)
(***************************************************************************)
LEMMA AnswerTypes ==
  ASSUME IndInv, TableTypes', network' \subseteq network,
         NEW t \in Handlers, pc[t] # "idle", NEW status \in Outcomes, Answer(t, status)
  PROVE  TypeOK'
<1>1. /\ pc' = [pc EXCEPT ![t] = "idle"] /\ issued' = issued
      /\ request' = [request EXCEPT ![t] = None] /\ loaded' = [loaded EXCEPT ![t] = None]
      /\ sent' = [sent EXCEPT ![t] = None] /\ outcome' = [outcome EXCEPT ![Id(t)] = status]
  BY DEF Answer, Goto
<1>2. \A u \in Handlers : Waits(u)' \/ sent'[u] = None
  BY <1>1 DEF IndInv, TypeOK, Waits
<1> QED
  BY <1>1, <1>2 DEF IndInv, TypeOK, TableTypes, Steps

(***************************************************************************)
(* An answer is true of the table it leaves as it is: an event that is     *)
(* said to be applied was committed, and no call of a refused one can      *)
(* commit any more. (commit_transition.)                                   *)
(***************************************************************************)
LEMMA AnswerKeeps ==
  ASSUME IndInv, UNCHANGED <<orders, tickets, tokens>>, network' \subseteq network,
         stamp' \in [RequestIds -> Nat], StampsStay,
         NEW t \in Handlers, pc[t] # "idle", NEW status \in Outcomes, Answer(t, status),
         status = "applied" => Id(t) \in tokens,
         status \in Refusals =>
           /\ Id(t) \notin tokens
           /\ \A call \in network' :
                call.id = Id(t) /\ call.type = "transact" =>
                  orders[call.order].version > call.expected
  PROVE  IndInv'
<1>1. TypeOK'
  BY AnswerTypes DEF TableTypes, IndInv, TypeOK
<1>2. Grown /\ \A o \in OrderIds : HistoryInPlace(o)'
  BY DEF Grown, IndInv, HistoryInPlace
<1>3. ASSUME NEW i \in RequestIds
      PROVE  RecordInPlace(i)'
  <2>1. RecordInPlace(i) /\ Records(i)' = Records(i)
    BY DEF IndInv, Records, RecordsIn
  <2>2. CASE i = Id(t)
    <3>1. outcome'[i] = status /\ issued' = issued /\ i <= issued
      BY <2>2, AnswerLeaves DEF IndInv, TypeOK
    <3>2. issued \in Nat /\ i \in Nat
      BY HandlersAssumption DEF IndInv, TypeOK, RequestIds
    <3> QED
      BY <2>1, <2>2, <3>1, <3>2 DEF RecordInPlace
  <2>3. CASE i # Id(t)
    <3>1. outcome'[i] = outcome[i] /\ issued' = issued
      BY <2>3, AnswerLeaves DEF IndInv, TypeOK
    <3> QED
      BY <2>1, <3>1 DEF RecordInPlace
  <2> QED
    BY <2>2, <2>3
<1>4. \A u \in Handlers : pc'[u] \in LoadSteps => Id(u) \notin tokens'
  BY AnswerLeaves DEF LoadSteps, IndInv, SentInPlace
<1> QED
  BY <1>1, <1>2, <1>3, <1>4, AnswerLeaves, RestKeeps

-----------------------------------------------------------------------------
(* Steps of a handler that goes on *)

(***************************************************************************)
(* A handler that computes, reads or sends changes nothing for the others: *)
(* a call it sends bears the number of its own request.                    *)
(***************************************************************************)
LEMMA HandlerKeeps ==
  ASSUME IndInv, TypeOK', UNCHANGED <<orders, tickets, tokens, outcome>>,
         issued <= issued', StampsStay,
         NEW t \in Handlers, \A u \in Handlers : u # t => Stays(u), pc'[t] # "idle",
         \A call \in network' :
           \/ call \in network
           \/ call.id = Id(t)' /\ CallInPlace(call)',
         RequestInPlace(t)', SentInPlace(t)', LoadInPlace(t)'
  PROVE  IndInv'
<1>1. Grown /\ \A o \in OrderIds : HistoryInPlace(o)'
  BY DEF Grown, IndInv, HistoryInPlace
<1>2. \A call \in network' : CallInPlace(call)'
  BY <1>1, CallStays DEF IndInv
<1>3. ASSUME NEW u \in Handlers, u # t
      PROVE  RequestInPlace(u)' /\ SentInPlace(u)' /\ LoadInPlace(u)'
  <2>1. Stays(u) /\ Id(u)' = Id(u)
    BY <1>3 DEF Stays, Id
  <2>2. CASE pc'[u] = "idle"
    BY <2>2 DEF RequestInPlace, SentInPlace, LoadInPlace, Waits
  <2>3. CASE pc'[u] # "idle"
    <3>1. RequestInPlace(u) /\ pc[u] # "idle" /\ issued \in Nat /\ issued' \in Nat
          /\ Id(u) \in Nat
      <4>1. RequestInPlace(u) /\ pc[u] # "idle"
        BY <2>1, <2>3 DEF IndInv, Stays
      <4>2. Id(u) \in Nat
        BY <4>1, HandlersAssumption DEF RequestInPlace, RequestRecord, RequestIds, Id
      <4> QED
        BY <4>1, <4>2, HandlersAssumption DEF IndInv, TypeOK
    <3>2. Id(u) # Id(t)'
      BY <1>3, <2>1, <2>3 DEF RequestInPlace
    <3>3. \A v \in Handlers : pc'[v] # "idle" /\ Id(v)' = Id(u)' => v = u
      BY <2>1, <3>1, <3>2 DEF RequestInPlace, Stays, Id
    <3>4. RequestInPlace(u)'
      BY <2>1, <3>1, <3>3 DEF RequestInPlace, Stays
    <3>5. LoadInPlace(u)'
      BY <1>1, <2>1, LoadStays DEF Stays
    <3>6. SentInPlace(u)
      BY DEF IndInv
    <3>7. Waits(u)' => CallInPlace(sent[u])'
      BY <1>1, <2>1, <3>6, CallStays DEF SentInPlace, Waits, Stays
    <3>8. \A call \in network' : call.id = Id(u) => call \in network
      BY <3>2
    <3>9. SentInPlace(u)'
      BY <2>1, <3>6, <3>7, <3>8 DEF SentInPlace, Waits, Stays
    <3> QED
      BY <3>4, <3>5, <3>9
  <2> QED
    BY <2>2, <2>3
<1>4. ASSUME NEW i \in RequestIds
      PROVE  RecordInPlace(i)'
  <2>1. RecordInPlace(i) /\ Records(i)' = Records(i)
    BY DEF IndInv, Records, RecordsIn
  <2>2. i > issued' => i > issued
    BY HandlersAssumption DEF IndInv, TypeOK, RequestIds
  <2>3. outcome[Id(t)'] = "none"
    BY DEF RequestInPlace
  <2>4. outcome[i] \in Refusals => \A call \in network' : call.id = i => call \in network
    BY <2>3 DEF Refusals
  <2> QED
    BY <2>1, <2>2, <2>4 DEF RecordInPlace
<1> QED
  BY <1>1, <1>2, <1>3, <1>4 DEF IndInv

(***************************************************************************)
(* A request that comes in has a number nobody has used. (The routes.)     *)
(***************************************************************************)
LEMMA ReceiveFacts ==
  ASSUME IndInv, NEW t \in Handlers, NEW operation \in {"create", "get", "apply"},
         NEW o \in OrderIds, NEW body \in Requests \cup {None},
         operation = "apply" => body \in Requests,
         Receive(t, operation, o, body),
         NEW step, pc' = [pc EXCEPT ![t] = step],
         operation = "create" <=> step = "put", step \notin {"idle", "evaluate", "transact"}
  PROVE  /\ issued' = issued + 1 /\ issued \in Nat /\ issued + 1 \in RequestIds
         /\ Id(t)' = issued + 1 /\ pc[t] = "idle" /\ pc'[t] = step
         /\ RequestInPlace(t)'
         /\ \A u \in Handlers : u # t => pc'[u] = pc[u] /\ request'[u] = request[u]
         /\ issued + 1 \notin tokens
         /\ \A call \in network : call.id # issued + 1
         /\ UNCHANGED <<orders, tickets, tokens, stamp, outcome>>
         /\ request' \in [Handlers -> RequestRecord \cup {None}]
<1> DEFINE n == issued + 1
           record == [operation |-> operation, order |-> o, body |-> body, id |-> n]
<1>1. /\ pc[t] = "idle" /\ issued < MaxRequests /\ issued' = n
      /\ request' = [request EXCEPT ![t] = record]
      /\ UNCHANGED <<orders, tickets, tokens, stamp, outcome>>
  BY DEF Receive, table
<1>2. issued \in Nat /\ n \in RequestIds
  BY <1>1, HandlersAssumption DEF IndInv, TypeOK, RequestIds
<1>3. record \in RequestRecord
  BY <1>2 DEF RequestRecord
<1>4. /\ request'[t] = record /\ pc'[t] = step
      /\ \A u \in Handlers : u # t => pc'[u] = pc[u] /\ request'[u] = request[u]
      /\ request' \in [Handlers -> RequestRecord \cup {None}]
  BY <1>1, <1>3 DEF IndInv, TypeOK
<1>5. Id(t)' = n
  BY <1>4 DEF Id
<1>6. outcome[n] = "none" /\ n \notin tokens
  BY <1>2 DEF IndInv, RecordInPlace
<1>7. \A call \in network : call.id # n
  BY <1>2 DEF IndInv, CallInPlace
<1>8. ASSUME NEW u \in Handlers, u # t, pc'[u] # "idle"
      PROVE  Id(u)' # n
  BY <1>2, <1>4, <1>8 DEF IndInv, RequestInPlace, RequestRecord, RequestIds, Id
<1>9. RequestInPlace(t)'
  BY <1>1, <1>2, <1>3, <1>4, <1>5, <1>6, <1>8 DEF RequestInPlace
<1> QED
  BY <1>1, <1>2, <1>4, <1>5, <1>6, <1>7, <1>9

(***************************************************************************)
(* A request to read or to apply starts with nothing in the network.       *)
(***************************************************************************)
LEMMA ReceiveReadKeeps ==
  ASSUME IndInv, NEW t \in Handlers, NEW o \in OrderIds,
         ReceiveGet(t, o) \/ \E body \in Requests : ReceiveApply(t, o, body)
  PROVE  IndInv'
<1>1. PICK operation \in {"get", "apply"}, body \in Requests \cup {None} :
        /\ Receive(t, operation, o, body)
        /\ operation = "apply" => body \in Requests
  BY DEF ReceiveGet, ReceiveApply
<1>2. pc' = [pc EXCEPT ![t] = "getItem"] /\ UNCHANGED <<network, loaded, sent>>
  BY DEF ReceiveGet, ReceiveApply, Goto
<1>3. /\ issued' = issued + 1 /\ issued \in Nat /\ issued + 1 \in RequestIds
      /\ Id(t)' = issued + 1 /\ pc[t] = "idle" /\ pc'[t] = "getItem"
      /\ RequestInPlace(t)'
      /\ \A u \in Handlers : u # t => pc'[u] = pc[u] /\ request'[u] = request[u]
      /\ issued + 1 \notin tokens
      /\ \A call \in network : call.id # issued + 1
      /\ UNCHANGED <<orders, tickets, tokens, stamp, outcome>>
      /\ request' \in [Handlers -> RequestRecord \cup {None}]
  <2> DEFINE step == "getItem"
  <2>1. operation \in {"create", "get", "apply"} /\ operation # "create"
    OBVIOUS
  <2>2. /\ operation = "create" <=> step = "put"
        /\ step \notin {"idle", "evaluate", "transact"}
    BY <2>1
  <2>3. pc' = [pc EXCEPT ![t] = step]
    BY <1>2
  <2>4. step = "getItem"
    OBVIOUS
  <2> HIDE DEF step
  <2> QED
    BY <1>1, <2>1, <2>2, <2>3, <2>4, ReceiveFacts, ZenonT(30)
<1>4. TypeOK'
  <2>1. issued' \in 0 .. MaxRequests
    BY <1>3 DEF RequestIds
  <2>2. \A u \in Handlers : Waits(u)' \/ sent'[u] = None
    BY <1>2, <1>3 DEF IndInv, TypeOK, Waits
  <2> QED
    BY <1>2, <1>3, <2>1, <2>2 DEF IndInv, TypeOK, Steps
<1>5. SentInPlace(t)' /\ LoadInPlace(t)'
  BY <1>2, <1>3 DEF SentInPlace, LoadInPlace, Waits
<1>6. \A u \in Handlers : u # t => Stays(u)
  BY <1>2, <1>3 DEF Stays
<1> QED
  BY <1>2, <1>3, <1>4, <1>5, <1>6, HandlerKeeps DEF StampsStay

(***************************************************************************)
(* The put of a new order carries the request's number.                    *)
(* (order_service.py create_order.)                                        *)
(***************************************************************************)
LEMMA ReceiveCreateKeeps ==
  ASSUME IndInv, NEW t \in Handlers, NEW o \in OrderIds,
         NEW amount \in Amounts, NEW count \in ProductCounts,
         ReceiveCreate(t, o, amount, count)
  PROVE  IndInv'
<1>0. PICK call : call = PutCall(issued + 1, o, NewOrder(amount, count))
  OBVIOUS
<1>1. /\ Receive(t, "create", o, None) /\ pc' = [pc EXCEPT ![t] = "put"]
      /\ network' = network \cup {call} /\ sent' = [sent EXCEPT ![t] = call]
      /\ loaded' = loaded
  BY <1>0 DEF ReceiveCreate, Goto, Send
<1>2. /\ issued' = issued + 1 /\ issued \in Nat /\ issued + 1 \in RequestIds
      /\ Id(t)' = issued + 1 /\ pc[t] = "idle" /\ pc'[t] = "put"
      /\ RequestInPlace(t)'
      /\ \A u \in Handlers : u # t => pc'[u] = pc[u] /\ request'[u] = request[u]
      /\ \A c \in network : c.id # issued + 1
      /\ UNCHANGED <<orders, tickets, tokens, stamp, outcome>>
      /\ request' \in [Handlers -> RequestRecord \cup {None}]
  BY <1>1, ReceiveFacts
<1>3. /\ call.type = "put" /\ call.id = issued + 1 /\ call.order = o /\ call.attempt = 1
      /\ call.item = NewOrder(amount, count)
      /\ DOMAIN call = {"type", "id", "attempt", "order", "item"}
  BY <1>0 DEF PutCall
<1>4. call.item \in Order
  BY <1>3, NewOrderIsOrder
<1>5. TypeOK'
  <2>1. issued' \in 0 .. MaxRequests
    BY <1>2 DEF RequestIds
  <2>2. DOMAIN sent' = Handlers /\ \A u \in Handlers : Waits(u)' \/ sent'[u] = None
    BY <1>1, <1>2 DEF IndInv, TypeOK, Waits
  <2> QED
    BY <1>1, <1>2, <1>3, <1>4, <2>1, <2>2, HandlersAssumption DEF IndInv, TypeOK, Steps
<1>6. CallInPlace(call)'
  BY <1>2, <1>3, HandlersAssumption DEF CallInPlace, PutInPlace
<1>7. sent'[t] = call /\ \A u \in Handlers : u # t => sent'[u] = sent[u]
  BY <1>1 DEF IndInv, TypeOK
<1>8. SentInPlace(t)' /\ LoadInPlace(t)'
  BY <1>1, <1>2, <1>3, <1>6, <1>7 DEF SentInPlace, LoadInPlace, Waits, IsCopyOf
<1>9. \A u \in Handlers : u # t => Stays(u)
  BY <1>1, <1>2, <1>7 DEF Stays
<1> QED
  BY <1>1, <1>2, <1>3, <1>5, <1>6, <1>8, <1>9, HandlerKeeps DEF StampsStay

-----------------------------------------------------------------------------
(* The load: get_by_id *)

(***************************************************************************)
(* A handler that reads moves on from one step of the load to the next,    *)
(* with a reading of its order. (get_by_id.)                               *)
(***************************************************************************)
LEMMA LoadKeeps ==
  ASSUME IndInv, NEW t \in Handlers, NEW step \in {"query", "show", "evaluate"},
         NEW order \in Order, pc[t] \in {"getItem", "query"},
         step = "evaluate" => request[t].operation = "apply",
         pc' = [pc EXCEPT ![t] = step], loaded' = [loaded EXCEPT ![t] = order],
         UNCHANGED <<table, stamp, network, request, sent, clients>>,
         LoadInPlace(t)'
  PROVE  IndInv'
<1>1. /\ UNCHANGED <<orders, tickets, tokens, stamp, network, request, sent, issued, outcome>>
      /\ issued <= issued'
  BY HandlersAssumption DEF table, clients, IndInv, TypeOK
<1>2. pc'[t] = step /\ \A u \in Handlers : u # t => Stays(u)
  BY <1>1 DEF IndInv, TypeOK, Stays
<1>3. TypeOK'
  <2>1. \A u \in Handlers : Waits(u)' \/ sent'[u] = None
    BY <1>1, <1>2 DEF IndInv, TypeOK, Waits, Stays
  <2> QED
    BY <1>1, <2>1 DEF IndInv, TypeOK, Steps
<1>4. RequestInPlace(t)'
  <2>1. RequestInPlace(t) /\ pc[t] # "idle" /\ Id(t)' = Id(t)
    BY <1>1 DEF IndInv, Id
  <2>2. \A u \in Handlers : pc'[u] # "idle" => pc[u] # "idle" /\ Id(u)' = Id(u)
    BY <1>1, <1>2 DEF Stays, Id
  <2> QED
    BY <1>1, <1>2, <2>1, <2>2 DEF RequestInPlace
<1>5. SentInPlace(t)'
  <2>1. SentInPlace(t) /\ Id(t)' = Id(t)
    BY <1>1 DEF IndInv, Id
  <2> QED
    BY <1>1, <1>2, <2>1 DEF SentInPlace, Waits
<1> QED
  BY <1>1, <1>2, <1>3, <1>4, <1>5, HandlerKeeps DEF StampsStay

(***************************************************************************)
(* A handler that has not sent a write yet may refuse: nothing of its      *)
(* request is in the table or in the network. (order_service.py.)          *)
(***************************************************************************)
LEMMA EarlyAnswerKeeps ==
  ASSUME IndInv, NEW t \in Handlers, pc[t] \in LoadSteps,
         NEW status \in Outcomes, status # "applied", Answer(t, status),
         UNCHANGED <<orders, tickets, tokens, network>>,
         stamp' \in [RequestIds -> Nat], StampsStay
  PROVE  IndInv'
<1>1. pc[t] # "idle" /\ network' \subseteq network /\ SentInPlace(t)
  BY DEF LoadSteps, IndInv
<1>2. Id(t) \notin tokens /\ \A call \in network' : call.id # Id(t)
  BY <1>1 DEF SentInPlace, LoadSteps
<1> QED
  BY <1>1, <1>2, AnswerKeeps

(***************************************************************************)
(* Reading the order item keeps the invariant.                             *)
(* (dynamodb_order_repository.py get_by_id.)                               *)
(***************************************************************************)
LEMMA GetItemKeeps ==
  ASSUME IndInv, NEW t \in Handlers, GetItem(t)
  PROVE  IndInv'
<1>1. pc[t] = "getItem" /\ UNCHANGED <<table, stamp, network>>
  BY DEF GetItem
<1>2. CASE orders[Target(t)] = None
  <2>1. Answer(t, "notFound")
    BY <1>2 DEF GetItem
  <2> QED
    BY <1>1, <2>1, EarlyAnswerKeeps
       DEF LoadSteps, Outcomes, Refusals, table, StampsStay, IndInv, TypeOK
<1>3. CASE orders[Target(t)] # None
  <2> DEFINE o == Target(t)
  <2>1. PICK item : item = [orders[o] EXCEPT !.history = <<>>]
    OBVIOUS
  <2>2. /\ loaded' = [loaded EXCEPT ![t] = item] /\ pc' = [pc EXCEPT ![t] = "query"]
        /\ UNCHANGED <<request, sent, clients>>
    BY <1>3, <2>1 DEF GetItem, Goto
  <2>3. o \in OrderIds /\ orders[o] \in Order /\ Target(t)' = o /\ orders' = orders
    BY <1>1, <1>3, <2>2
       DEF IndInv, TypeOK, RequestInPlace, RequestRecord, Target, table
  <2>4. /\ item \in Order /\ item.version = orders[o].version /\ item.amount = orders[o].amount
        /\ item.productCount = orders[o].productCount /\ item.state = orders[o].state
        /\ item.history = <<>> /\ item.version \in Nat /\ item # None
    <3>1. /\ item.version = orders[o].version /\ item.amount = orders[o].amount
          /\ item.productCount = orders[o].productCount /\ item.state = orders[o].state
          /\ item.history = <<>> /\ orders[o].version \in Nat
      BY <2>1, <2>3 DEF Order
    <3>2. <<>> \in Seq(Entry)
      OBVIOUS
    <3>3. item \in Order
      BY <2>1, <2>3, <3>2 DEF Order
    <3> QED
      BY <3>1, <3>3, ServiceAssumption
  <2>5. loaded'[t] = item /\ pc'[t] = "query"
    BY <2>2 DEF IndInv, TypeOK
  <2>6. LoadInPlace(t)'
    <3>1. IsReading(loaded[t], Target(t))'
      BY <1>3, <2>3, <2>4, <2>5 DEF IsReading
    <3>2. Range(loaded'[t].history) = {}
      BY <2>4, <2>5 DEF Range
    <3>3. Loading(t)'
      BY <2>5, <3>2 DEF Loading
    <3> QED
      BY <2>4, <2>5, <3>1, <3>2, <3>3 DEF LoadInPlace
  <2> QED
    BY <1>1, <2>2, <2>4, <2>6, LoadKeeps
<1> QED
  BY <1>2, <1>3

(***************************************************************************)
(* A page moves events from those to come to those read; after a page that *)
(* is not full none is to come. (get_by_id, LastEvaluatedKey.)             *)
(***************************************************************************)
LEMMA QueryEventsKeeps ==
  ASSUME IndInv, NEW t \in Handlers, QueryEvents(t)
  PROVE  IndInv'
<1> DEFINE o == Target(t)
           h == orders[o].history
           done == loaded[t].history
<1>1. PICK page \in Pages(t) :
        /\ loaded' = [loaded EXCEPT ![t].history = @ \o page]
        /\ pc' = [pc EXCEPT ![t] = IF IsLastPage(page)
                                   THEN CASE request[t].operation = "get"   -> "show"
                                          [] request[t].operation = "apply" -> "evaluate"
                                   ELSE "query"]
  BY DEF QueryEvents, Goto
<1>2. pc[t] = "query" /\ UNCHANGED <<table, stamp, network, request, sent, clients>>
      /\ orders' = orders /\ tokens' = tokens /\ stamp' = stamp
  BY DEF QueryEvents, table
<1>3. /\ LoadInPlace(t) /\ RequestInPlace(t) /\ o \in OrderIds
      /\ orders[o] # None /\ loaded[t] \in Order /\ Target(t)' = o
      /\ request[t].operation \in {"get", "apply"}
  BY <1>2 DEF IndInv, TypeOK, RequestInPlace, RequestRecord, Target, LoadInPlace, IsReading
<1>4. PICK step \in {"query", "show", "evaluate"} :
        /\ pc' = [pc EXCEPT ![t] = step]
        /\ ~IsLastPage(page) <=> step = "query"
        /\ step = "evaluate" => request[t].operation = "apply"
  BY <1>1, <1>3
<1>5. /\ h \in Seq(Entry) /\ \A e \in Range(h) : e.id \in tokens
      /\ loaded[t].version \in Nat /\ loaded[t].version <= Len(h)
      /\ done \in Seq(Entry)
  <2>1. /\ h \in Seq(Entry) /\ Len(h) = orders[o].version /\ orders[o].version \in Nat
        /\ HistoryInPlace(o) /\ IsReading(loaded[t], o)
    BY <1>2, <1>3, StoredIsTyped DEF IndInv, LoadInPlace
  <2> QED
    BY <1>3, <2>1 DEF HistoryInPlace, IsReading, Order
<1>6. Range(h) \subseteq Entry /\ Unread(t) \subseteq Range(h)
  BY <1>5 DEF Range, Unread
<1>7. /\ page \in Seq(Unread(t)) /\ Len(page) <= PageSize /\ page \in Seq(Entry)
      /\ Range(page) \subseteq Unread(t)
  <2>1. PICK m \in 0 .. PageSize : page \in [1 .. m -> Unread(t)]
    BY DEF Pages, SeqOf
  <2> QED
    BY <1>6, <2>1, HandlersAssumption DEF Range
<1>8. \A e \in Unread(t) \ Range(page) :
        Len(page) = PageSize /\ \A n \in DOMAIN page : Precedes(page[n], e)
  BY DEF Pages
<1>9. PICK order : order = [loaded[t] EXCEPT !.history = done \o page]
  OBVIOUS
<1>10. /\ order \in Order /\ order.version = loaded[t].version
       /\ order.amount = loaded[t].amount /\ order.productCount = loaded[t].productCount
       /\ order.state = loaded[t].state /\ order.history = done \o page /\ order # None
  <2>1. done \o page \in Seq(Entry)
    BY <1>5, <1>7
  <2> QED
    BY <1>3, <1>9, <2>1, ServiceAssumption DEF Order
<1>11. loaded' = [loaded EXCEPT ![t] = order]
  BY <1>1, <1>9
<1>12. Range(order.history) = Range(done) \cup Range(page)
  <2>1. /\ DOMAIN order.history = 1 .. Len(done) + Len(page)
        /\ \A n \in 1 .. Len(done) + Len(page) :
             order.history[n] = IF n <= Len(done) THEN done[n] ELSE page[n - Len(done)]
    BY <1>5, <1>7, <1>10
  <2>2. /\ DOMAIN done = 1 .. Len(done) /\ DOMAIN page = 1 .. Len(page)
        /\ Len(done) \in Nat /\ Len(page) \in Nat
    BY <1>5, <1>7
  <2> HIDE DEF done
  <2>3. \A n \in 1 .. Len(page) : order.history[Len(done) + n] = page[n]
    BY <2>1, <2>2
  <2>4. \A n \in 1 .. Len(done) : order.history[n] = done[n]
    BY <2>1, <2>2
  <2>5. ASSUME NEW e \in Range(order.history)
        PROVE  e \in Range(done) \cup Range(page)
    <3>1. PICK n \in 1 .. Len(done) + Len(page) : e = order.history[n]
      BY <2>1 DEF Range
    <3>2. CASE n <= Len(done)
      BY <2>2, <2>4, <3>1, <3>2 DEF Range
    <3>3. CASE n > Len(done)
      <4>1. n - Len(done) \in DOMAIN page /\ e = page[n - Len(done)]
        BY <2>1, <2>2, <3>1, <3>3
      <4> QED
        BY <4>1 DEF Range
    <3> QED
      BY <2>2, <3>2, <3>3
  <2>6. Range(done) \subseteq Range(order.history)
    BY <2>1, <2>2, <2>4 DEF Range
  <2>7. ASSUME NEW e \in Range(page)
        PROVE  e \in Range(order.history)
    <3>1. PICK n \in 1 .. Len(page) : e = page[n]
      BY <2>2 DEF Range
    <3>2. Len(done) + n \in DOMAIN order.history /\ e = order.history[Len(done) + n]
      BY <2>1, <2>2, <2>3, <3>1
    <3> QED
      BY <3>2 DEF Range
  <2> QED
    BY <2>5, <2>6, <2>7
<1>13. loaded'[t] = order /\ pc'[t] = step
  BY <1>4, <1>11 DEF IndInv, TypeOK
<1>14. \A a, b : Precedes(a, b)' <=> Precedes(a, b)
  BY <1>2 DEF Precedes
<1>15. LoadInPlace(t)'
  <2>1. \A read \in Range(order.history) : read.id \in tokens
    BY <1>2, <1>3, <1>5, <1>6, <1>7, <1>12 DEF LoadInPlace
  <2>2. IsReading(loaded[t], Target(t))'
    BY <1>2, <1>3, <1>10, <1>13 DEF LoadInPlace, IsReading
  <2>3. ASSUME NEW n \in 1 .. order.version, NEW e, e = h[n]
        PROVE  \/ e \in Range(order.history)
               \/ step = "query" /\ \A read \in Range(order.history) : Precedes(read, e)
    <3>1. \/ e \in Range(done)
          \/ \A read \in Range(done) : Precedes(read, e)
      BY <1>2, <1>3, <1>10, <2>3 DEF LoadInPlace, Loading
    <3>2. e \in Range(h)
      BY <1>5, <1>10, <2>3 DEF Range
    <3>3. CASE e \in Range(done) \cup Range(page)
      BY <1>12, <3>3
    <3>4. CASE e \notin Range(done) \cup Range(page)
      <4>1. e \in Unread(t) \ Range(page)
        BY <3>1, <3>2, <3>4 DEF Unread
      <4>2. step = "query"
        BY <1>4, <1>8, <4>1, HandlersAssumption DEF IsLastPage
      <4>3. \A read \in Range(page) : Precedes(read, e)
        BY <1>8, <4>1 DEF Range
      <4> QED
        BY <1>12, <3>1, <3>4, <4>2, <4>3
    <3> QED
      BY <3>3, <3>4
  <2>4. Loading(t)'
    BY <1>2, <1>3, <1>13, <1>14, <2>3 DEF Loading
  <2> QED
    BY <1>2, <1>10, <1>13, <2>1, <2>2, <2>4 DEF LoadInPlace
<1> QED
  BY <1>2, <1>4, <1>10, <1>11, <1>15, LoadKeeps

(***************************************************************************)
(* Answers of handlers that wait for no write. (get_by_id, the errors of   *)
(* apply_event.)                                                           *)
(***************************************************************************)
LEMMA AnswersKeep ==
  ASSUME IndInv, NEW t \in Handlers,
         FinishGet(t) \/ RefuseTransition(t) \/ RefuseOverrides(t) \/ Fail(t)
  PROVE  IndInv'
<1>1. /\ UNCHANGED <<orders, tickets, tokens, network>>
      /\ stamp' \in [RequestIds -> Nat] /\ StampsStay
  BY DEF FinishGet, RefuseTransition, RefuseOverrides, Fail, Refuse, table, StampsStay,
         IndInv, TypeOK
<1>2. CASE FinishGet(t)
  BY <1>1, <1>2, EarlyAnswerKeeps DEF FinishGet, LoadSteps, Outcomes
<1>3. CASE RefuseTransition(t)
  BY <1>1, <1>3, EarlyAnswerKeeps
     DEF RefuseTransition, Refuse, LoadSteps, Outcomes, Refusals
<1>4. CASE RefuseOverrides(t)
  BY <1>1, <1>4, EarlyAnswerKeeps
     DEF RefuseOverrides, Refuse, LoadSteps, Outcomes, Refusals
<1>5. CASE Fail(t)
  <2>1. /\ pc[t] # "idle" /\ Answer(t, "error") /\ network' \subseteq network
        /\ "error" \in Outcomes /\ "error" \notin Refusals
    BY <1>1, <1>5 DEF Fail, Outcomes, Refusals
  <2> QED
    BY <1>1, <2>1, AnswerKeeps
<1> QED
  BY <1>2, <1>3, <1>4, <1>5

-----------------------------------------------------------------------------
(* The transaction: apply_event, commit_transition *)

(***************************************************************************)
(* The time is a number, since there are only so many requests.            *)
(***************************************************************************)
LEMMA NowIsNat == Now \in Nat
<1> DEFINE built == {i \in RequestIds : stamp[i] # 0}
<1>1. IsFiniteSet(RequestIds)
  BY HandlersAssumption, FS_Interval DEF RequestIds
<1>2. built \in SUBSET RequestIds
  OBVIOUS
<1>3. IsFiniteSet(built)
  BY <1>1, <1>2, FS_Subset
<1>4. Cardinality(built) \in Nat
  BY <1>3, FS_CardinalityType
<1> HIDE DEF built
<1>5. 1 + Cardinality(built) \in Nat
  BY <1>4
<1> QED
  BY <1>5 DEF Now, built

(***************************************************************************)
(* The call that an accepted event is sent with fits the order as it is    *)
(* stored, unless the order has moved on since it was read.                *)
(* (order_service.py apply_event.)                                         *)
(***************************************************************************)
LEMMA NewCallInPlace ==
  ASSUME IndInv, NEW t \in Handlers, pc[t] = "evaluate",
         Accepts(loaded[t], Body(t).event, Body(t).metadata)
  PROVE  CallInPlace(TransactCall(Id(t), Target(t), Evaluation(t)))
<1> DEFINE o == Target(t)
           body == Body(t)
           context == Evaluation(t)
<1>0. PICK call : call = TransactCall(Id(t), o, context)
  OBVIOUS
<1>1. /\ Id(t) \in RequestIds /\ Id(t) <= issued /\ o \in OrderIds /\ body \in Requests
      /\ IsReading(loaded[t], o) /\ loaded[t] \in Order /\ orders[o] \in Order
      /\ orders[o] # None
  BY DEF IndInv, TypeOK, RequestInPlace, RequestRecord, LoadInPlace, IsReading, Id, Target, Body
<1>2. /\ UpdatedOrder(Id(t), context) \in Order /\ EventEntry(Id(t), context) \in Entry
  <2>1. Id(t) \in Nat /\ IsEnabled(loaded[t].state, body.event)
    BY <1>1, HandlersAssumption DEF RequestIds, Accepts
  <2>2. PICK order, r, id : order = loaded[t] /\ r = body /\ id = Id(t)
    OBVIOUS
  <2>3. LET c == Context(order, r.event, r.metadata)
        IN UpdatedOrder(id, c) \in Order /\ EventEntry(id, c) \in Entry
    BY <1>1, <2>1, <2>2, UpdatedOrderIsOrder
  <2> QED
    BY <2>2, <2>3 DEF Evaluation
<1>3. context.order = loaded[t] /\ EventEntry(Id(t), context).id = Id(t)
  BY DEF Evaluation, Context, EventEntry
<1>4. \A k \in SupportTickets(Id(t), o, context) : k.id = Id(t) /\ k.order = o
  BY DEF SupportTickets
<1>5. loaded[t].version = orders[o].version =>
        LET stored == Context(orders[o], body.event, body.metadata)
            made == UpdatedOrder(Id(t), stored)
            copied == UpdatedOrder(Id(t), context)
        IN /\ Accepts(orders[o], body.event, body.metadata)
           /\ copied.amount = made.amount /\ copied.state = made.state
           /\ copied.version = made.version
           /\ EventEntry(Id(t), context) = EventEntry(Id(t), stored)
           /\ SupportTickets(Id(t), o, context) = SupportTickets(Id(t), o, stored)
  <2> SUFFICES ASSUME loaded[t].version = orders[o].version
               PROVE  LET stored == Context(orders[o], body.event, body.metadata)
                          made == UpdatedOrder(Id(t), stored)
                          copied == UpdatedOrder(Id(t), context)
                      IN /\ Accepts(orders[o], body.event, body.metadata)
                         /\ copied.amount = made.amount /\ copied.state = made.state
                         /\ copied.version = made.version
                         /\ EventEntry(Id(t), context) = EventEntry(Id(t), stored)
                         /\ SupportTickets(Id(t), o, context)
                              = SupportTickets(Id(t), o, stored)
    OBVIOUS
  <2>1. PICK order, copy, event, metadata, id, p :
          /\ order = orders[o] /\ copy = loaded[t] /\ event = body.event
          /\ metadata = body.metadata /\ id = Id(t) /\ p = o
    OBVIOUS
  <2>2. /\ order \in Order /\ copy \in Order
        /\ copy.amount = order.amount /\ copy.productCount = order.productCount
        /\ copy.state = order.state /\ copy.version = order.version
    BY <1>1, <2>1 DEF IsReading
  <2>3. LET made == UpdatedOrder(id, Context(order, event, metadata))
            copied == UpdatedOrder(id, Context(copy, event, metadata))
        IN /\ Accepts(copy, event, metadata) <=> Accepts(order, event, metadata)
           /\ SupportTickets(id, p, Context(copy, event, metadata))
                = SupportTickets(id, p, Context(order, event, metadata))
           /\ EventEntry(id, Context(copy, event, metadata))
                = EventEntry(id, Context(order, event, metadata))
           /\ copied.amount = made.amount /\ copied.state = made.state
           /\ copied.version = made.version
    BY <2>2, HistoryIsNotRead
  <2> QED
    BY <2>1, <2>3 DEF Evaluation
<1>6. /\ call.type = "transact" /\ call.id = Id(t) /\ call.attempt = 1 /\ call.order = o
      /\ call.expected = loaded[t].version
      /\ call.item = UpdatedOrder(Id(t), context) /\ call.entry = EventEntry(Id(t), context)
      /\ call.tickets = SupportTickets(Id(t), o, context)
      /\ DOMAIN call = {"type", "id", "attempt", "order", "expected", "item", "entry", "tickets"}
  BY <1>0, <1>3 DEF TransactCall
<1>7. loaded[t].version = orders[o].version => Carries(call, body)
  BY <1>5, <1>6 DEF Carries
<1>8. loaded[t].version \in Nat /\ loaded[t].version <= orders[o].version
  BY <1>1 DEF IsReading, Order
<1>9. TransactionInPlace(call)
  BY <1>1, <1>2, <1>3, <1>4, <1>6, <1>7, <1>8 DEF TransactionInPlace
<1>10. call.id \in 1 .. issued /\ 1 \in 1 .. MaxAttempts
  BY <1>1, <1>6, HandlersAssumption DEF RequestIds, IndInv, TypeOK
<1>11. CallInPlace(call)
  BY <1>1, <1>6, <1>9, <1>10 DEF CallInPlace
<1> QED
  BY <1>0, <1>11

\* What TypeOK says of a call, from what it carries.
LEMMA CallTypes ==
  ASSUME IndInv, NEW call, CallInPlace(call)
  PROVE  /\ call.id \in RequestIds /\ call.attempt \in 1 .. MaxAttempts
         /\ call.order \in OrderIds /\ call.item \in Order
         /\ call.type = "transact" => call.entry \in Entry
<1>1. call.id \in RequestIds /\ call.attempt \in 1 .. MaxAttempts /\ call.order \in OrderIds
  BY HandlersAssumption DEF CallInPlace, IndInv, TypeOK, RequestIds
<1>2. CASE call.type = "put"
  BY <1>1, <1>2, NewOrderIsOrder DEF CallInPlace, PutInPlace
<1>3. CASE call.type = "transact"
  BY <1>1, <1>3 DEF CallInPlace, TransactionInPlace
<1> QED
  BY <1>2, <1>3 DEF CallInPlace

(***************************************************************************)
(* What a call carries depends on the orders and on how many requests came *)
(* in, nothing else.                                                       *)
(***************************************************************************)
LEMMA SameCall ==
  ASSUME UNCHANGED <<orders, issued>>, NEW call, CallInPlace(call)
  PROVE  CallInPlace(call)'
<1>1. TransactionInPlace(call)' <=> TransactionInPlace(call)
  BY DEF TransactionInPlace, Carries
<1> QED
  BY <1>1 DEF CallInPlace, PutInPlace

(***************************************************************************)
(* Evaluating an event and sending its transaction keeps the invariant.    *)
(* (order_service.py apply_event, commit_transition.)                      *)
(***************************************************************************)
LEMMA EvaluateEventKeeps ==
  ASSUME IndInv, NEW t \in Handlers, EvaluateEvent(t)
  PROVE  IndInv'
<1>1. PICK skew \in 0 .. MaxSkew : stamp' = [stamp EXCEPT ![Id(t)] = Now + skew]
  BY DEF EvaluateEvent
<1>2. /\ pc[t] = "evaluate" /\ UNCHANGED <<orders, tickets, tokens>>
      /\ Accepts(loaded[t], Body(t).event, Body(t).metadata)
  BY DEF EvaluateEvent, table
<1>3. stamp' \in [RequestIds -> Nat]
  <2>1. Now + skew \in Nat
    BY NowIsNat, HandlersAssumption
  <2>2. stamp \in [RequestIds -> Nat]
    BY DEF IndInv, TypeOK
  <2> QED
    BY <1>1, <2>1, <2>2
<1>4. SentInPlace(t) /\ RequestInPlace(t) /\ Id(t) \notin tokens
      /\ \A call \in network : call.id # Id(t)
  BY <1>2 DEF IndInv, SentInPlace
<1>5. StampsStay
  BY <1>1, <1>2, <1>4 DEF StampsStay, IndInv, TypeOK
<1>6. CASE ~IsStorable(FinalAmount(Evaluation(t)))
  <2>1. Answer(t, "unstorable") /\ UNCHANGED network
    BY <1>6 DEF EvaluateEvent
  <2> QED
    BY <1>2, <1>3, <1>5, <2>1, EarlyAnswerKeeps DEF LoadSteps, Outcomes, Refusals
<1>7. CASE IsStorable(FinalAmount(Evaluation(t)))
  <2>1. PICK call : call = TransactCall(Id(t), Target(t), Evaluation(t))
    OBVIOUS
  <2>2. /\ network' = network \cup {call} /\ sent' = [sent EXCEPT ![t] = call]
        /\ loaded' = [loaded EXCEPT ![t] = None] /\ pc' = [pc EXCEPT ![t] = "transact"]
        /\ UNCHANGED <<request, issued, outcome>>
    BY <1>7, <2>1 DEF EvaluateEvent, Send, Goto, clients
  <2>3. CallInPlace(call) /\ CallInPlace(call)'
    BY <1>2, <2>1, <2>2, NewCallInPlace, SameCall
  <2>4. call.id = Id(t) /\ call.type = "transact"
    BY <2>1 DEF TransactCall
  <2>5. /\ pc'[t] = "transact" /\ sent'[t] = call /\ Id(t)' = Id(t)
        /\ \A u \in Handlers : u # t => Stays(u)
    BY <2>2 DEF IndInv, TypeOK, Stays, Id
  <2>6. TypeOK'
    <3>1. \A c \in network' :
            /\ c.id \in RequestIds /\ c.attempt \in 1 .. MaxAttempts
            /\ c.order \in OrderIds /\ c.item \in Order
            /\ c.type = "transact" => c.entry \in Entry
      BY <2>2, <2>3, CallTypes DEF IndInv
    <3>2. DOMAIN sent' = Handlers /\ \A u \in Handlers : Waits(u)' \/ sent'[u] = None
      BY <2>2, <2>5 DEF IndInv, TypeOK, Waits, Stays
    <3> QED
      BY <1>2, <1>3, <2>2, <3>1, <3>2 DEF IndInv, TypeOK, Steps
  <2>7. RequestInPlace(t)'
    <3>1. request[t].operation = "apply"
      BY <1>2, <1>4 DEF RequestInPlace
    <3>2. \A u \in Handlers : pc'[u] # "idle" => pc[u] # "idle" /\ Id(u)' = Id(u)
      BY <1>2, <2>2, <2>5 DEF Stays, Id
    <3> QED
      BY <1>2, <1>4, <2>2, <2>5, <3>1, <3>2 DEF RequestInPlace
  <2>8. SentInPlace(t)' /\ LoadInPlace(t)'
    <3>1. \A c \in network' : c.id = Id(t) => IsCopyOf(c, call)
      BY <1>4, <2>2 DEF IsCopyOf
    <3> QED
      BY <2>3, <2>4, <2>5, <3>1 DEF SentInPlace, LoadInPlace, Waits
  <2>9. \A c \in network' : c \in network \/ (c.id = Id(t)' /\ CallInPlace(c)')
    BY <2>2, <2>3, <2>4, <2>5
  <2>10. issued <= issued' /\ outcome' = outcome /\ pc'[t] # "idle"
    BY <2>2, <2>5, HandlersAssumption DEF IndInv, TypeOK
  <2> QED
    BY <1>2, <1>5, <2>5, <2>6, <2>7, <2>8, <2>9, <2>10, HandlerKeeps
<1> QED
  BY <1>6, <1>7

(***************************************************************************)
(* boto3 sends a call again: a copy, under the same request.               *)
(***************************************************************************)
LEMMA ResendKeeps ==
  ASSUME IndInv, NEW t \in Handlers, Resend(t)
  PROVE  IndInv'
<1>1. PICK call : call = [sent[t] EXCEPT !.attempt = @ + 1]
  OBVIOUS
<1>2. /\ Waits(t) /\ sent[t].attempt < MaxAttempts
      /\ network' = network \cup {call} /\ sent' = [sent EXCEPT ![t] = call]
      /\ UNCHANGED <<orders, tickets, tokens, stamp, pc, request, loaded, issued, outcome>>
  BY <1>1 DEF Resend, Send, table, clients
<1>3. SentInPlace(t) /\ RequestInPlace(t) /\ CallInPlace(sent[t])
      /\ sent[t].id = Id(t) /\ sent[t].type = pc[t] /\ pc[t] \in {"put", "transact"}
  BY <1>2 DEF IndInv, SentInPlace, Waits
<1>4. /\ DOMAIN call = DOMAIN sent[t]
      /\ call.attempt \in 1 .. MaxAttempts
      /\ \A f \in DOMAIN sent[t] : f # "attempt" => call[f] = sent[t][f]
  <2>1. "attempt" \in DOMAIN sent[t]
    BY <1>3 DEF CallInPlace, PutInPlace, TransactionInPlace
  <2>2. DOMAIN call = DOMAIN sent[t] /\ call.attempt = sent[t].attempt + 1
        /\ \A f \in DOMAIN sent[t] : f # "attempt" => call[f] = sent[t][f]
    BY <1>1, <2>1
  <2>3. sent[t].attempt \in 1 .. MaxAttempts
    BY <1>3 DEF CallInPlace
  <2> QED
    BY <1>2, <2>2, <2>3, HandlersAssumption
<1>5. CallInPlace(call) /\ IsCopyOf(sent[t], call) /\ call.id = Id(t) /\ call.type = pc[t]
  <2>1. CASE sent[t].type = "put"
    <3>1. DOMAIN sent[t] = {"type", "id", "attempt", "order", "item"} /\ PutInPlace(sent[t])
      BY <1>3, <2>1 DEF CallInPlace, PutInPlace
    <3>2. call.type = "put" /\ call.id = sent[t].id /\ call.order = sent[t].order
          /\ call.item = sent[t].item
      BY <1>4, <2>1, <3>1
    <3> QED
      BY <1>3, <1>4, <2>1, <3>1, <3>2 DEF CallInPlace, PutInPlace, IsCopyOf
  <2>2. CASE sent[t].type = "transact"
    <3>1. /\ DOMAIN sent[t]
               = {"type", "id", "attempt", "order", "expected", "item", "entry", "tickets"}
          /\ TransactionInPlace(sent[t])
      BY <1>3, <2>2 DEF CallInPlace, TransactionInPlace
    <3>2. call.type = "transact" /\ call.id = sent[t].id /\ call.order = sent[t].order
          /\ call.item = sent[t].item /\ call.expected = sent[t].expected
          /\ call.entry = sent[t].entry /\ call.tickets = sent[t].tickets
      BY <1>4, <2>2, <3>1
    <3>3. \A body : Carries(sent[t], body) => Carries(call, body)
      BY <3>2 DEF Carries
    <3>4. TransactionInPlace(call)
      BY <1>4, <3>1, <3>2, <3>3 DEF TransactionInPlace
    <3> QED
      BY <1>3, <1>4, <2>2, <3>2, <3>4 DEF CallInPlace, IsCopyOf
  <2> QED
    BY <1>3, <2>1, <2>2
<1>6. CallInPlace(call)'
  BY <1>2, <1>5, SameCall
<1>7. /\ sent'[t] = call /\ Id(t)' = Id(t) /\ pc'[t] # "idle"
      /\ \A u \in Handlers : u # t => Stays(u)
  BY <1>2, <1>3 DEF IndInv, TypeOK, Stays, Id
<1>8. TypeOK'
  <2>1. \A c \in network' :
          /\ c.id \in RequestIds /\ c.attempt \in 1 .. MaxAttempts
          /\ c.order \in OrderIds /\ c.item \in Order
          /\ c.type = "transact" => c.entry \in Entry
    BY <1>2, <1>5, CallTypes DEF IndInv
  <2>2. DOMAIN sent' = Handlers /\ \A u \in Handlers : Waits(u)' \/ sent'[u] = None
    BY <1>2, <1>7 DEF IndInv, TypeOK, Waits, Stays
  <2> QED
    BY <1>2, <2>1, <2>2 DEF IndInv, TypeOK
<1>9. RequestInPlace(t)'
  <2>1. \A u \in Handlers : Id(u)' = Id(u)
    BY <1>2 DEF Id
  <2> QED
    BY <1>2, <1>3, <2>1 DEF RequestInPlace
<1>10. SentInPlace(t)' /\ LoadInPlace(t)'
  <2>1. \A c \in network' : c.id = Id(t) => IsCopyOf(c, call)
    BY <1>2, <1>3, <1>5 DEF SentInPlace, IsCopyOf
  <2> QED
    BY <1>2, <1>3, <1>5, <1>6, <1>7, <2>1 DEF SentInPlace, LoadInPlace, Waits
<1>11. issued <= issued'
  BY <1>2, HandlersAssumption DEF IndInv, TypeOK
<1> QED
  BY <1>2, <1>5, <1>6, <1>7, <1>8, <1>9, <1>10, <1>11, HandlerKeeps DEF StampsStay

-----------------------------------------------------------------------------
(* The table executes a call *)

(***************************************************************************)
(* A call that was executed leaves the network, and its answer arrives or  *)
(* is lost.  What the table made of it must settle its request: an answer  *)
(* "applied" only after the commit, a refusal only if no copy of the call  *)
(* can commit any more. (commit_transition, create.)                       *)
(***************************************************************************)
Settles(call, status) ==
  /\ status \in Outcomes
  /\ tokens' \subseteq tokens \cup {call.id}
  /\ \A i \in RequestIds :
       /\ i \in tokens' <=> Records(i)' # {}
       /\ \A r, s \in Records(i)' : r = s
       /\ outcome[i] \in Refusals => i \notin tokens'
  /\ status = "applied" => call.id \in tokens'
  /\ status \in Refusals =>
       /\ call.type = "transact" /\ call.id \notin tokens'
       /\ orders'[call.order].version > call.expected

(***************************************************************************)
(* A call that is settled keeps the invariant, whether its answer arrives  *)
(* or is lost.                                                             *)
(***************************************************************************)
LEMMA ReplyKeeps ==
  ASSUME IndInv, NEW call \in network, network' = network \ {call}, UNCHANGED stamp,
         TableTypes', Grown, tokens \subseteq tokens', \A o \in OrderIds : HistoryInPlace(o)',
         NEW status, Settles(call, status), Reply(call, status)
  PROVE  IndInv'
<1>1. /\ CallInPlace(call) /\ call.id \in RequestIds /\ call.id <= issued
      /\ issued \in Nat /\ StampsStay /\ network' \subseteq network
  BY CallTypes, HandlersAssumption DEF IndInv, TypeOK, CallInPlace, RequestIds, StampsStay
<1>2. \A u \in Handlers : pc[u] \in LoadSteps => Id(u) \notin tokens'
  BY DEF IndInv, SentInPlace, Settles, LoadSteps
<1>3. ASSUME NEW c \in network, c.type = "transact", orders[c.order].version > c.expected
      PROVE  orders'[c.order].version > c.expected
  <2>1. c.order \in OrderIds /\ orders[c.order] # None /\ c.expected \in Nat
        /\ orders[c.order].version \in Nat
    BY <1>3, StoredIsTyped DEF IndInv, CallInPlace, TransactionInPlace
  <2>2. orders'[c.order] = orders[c.order] \/ orders'[c.order].version > orders[c.order].version
    BY <2>1 DEF Grown
  <2>3. orders'[c.order].version \in Nat
    BY <2>1 DEF Grown, TableTypes, Order
  <2> QED
    BY <1>3, <2>1, <2>2, <2>3
<1>4. ASSUME NEW i \in RequestIds, outcome'[i] = outcome[i], issued' = issued
      PROVE  RecordInPlace(i)'
  <2>1. RecordInPlace(i)
    BY DEF IndInv
  <2>2. i > issued => i # call.id
    BY <1>1 DEF RequestIds
  <2> QED
    BY <1>1, <1>3, <1>4, <2>1, <2>2 DEF RecordInPlace, Settles
<1>5. CASE UNCHANGED <<handlers, clients>>
  <2>1. UNCHANGED <<pc, request, loaded, sent, issued, outcome>>
    BY <1>5 DEF handlers, clients
  <2>2. TypeOK'
    BY <1>1, <2>1 DEF IndInv, TypeOK, TableTypes, Waits
  <2>3. \A u \in Handlers : Stays(u) /\ Id(u)' = Id(u)
    BY <2>1 DEF Stays, Id
  <2>4. \A i \in RequestIds : RecordInPlace(i)'
    BY <1>4, <2>1
  <2>5. \A u \in Handlers : outcome'[Id(u)] = outcome[Id(u)]
    BY <2>1
  <2>6. \A u \in Handlers : pc'[u] \in LoadSteps => Id(u) \notin tokens'
    BY <1>2, <2>1
  <2> QED
    BY <1>1, <2>1, <2>2, <2>3, <2>4, <2>5, <2>6, RestKeeps
<1>6. ASSUME NEW t \in Handlers, Waits(t), sent[t] = call, Answer(t, status)
      PROVE  IndInv'
  <2>1. SentInPlace(t) /\ pc[t] # "idle" /\ call.id = Id(t)
        /\ \A c \in network : c.id = Id(t) => IsCopyOf(c, call)
    BY <1>6 DEF IndInv, SentInPlace, Waits
  <2>2. TypeOK'
    BY <1>1, <1>6, <2>1, AnswerTypes DEF Settles
  <2>3. /\ issued' = issued /\ outcome' = [outcome EXCEPT ![Id(t)] = status]
        /\ \A u \in Handlers : Stays(u) \/ pc'[u] = "idle"
        /\ \A u \in Handlers : u # t => pc'[u] = pc[u]
        /\ pc'[t] = "idle"
        /\ \A u \in Handlers : pc'[u] # "idle" => outcome'[Id(u)] = outcome[Id(u)]
    BY <1>6, <2>1, AnswerLeaves
  <2>4. ASSUME NEW i \in RequestIds
        PROVE  RecordInPlace(i)'
    <3>1. CASE i # Id(t)
      <4>1. outcome'[i] = outcome[i]
        BY <2>3, <3>1 DEF IndInv, TypeOK
      <4> QED
        BY <1>4, <2>3, <4>1
    <3>2. CASE i = Id(t)
      <4>1. outcome'[i] = status
        BY <2>3, <3>2 DEF IndInv, TypeOK
      <4>2. ~(i > issued')
        BY <1>1, <2>1, <2>3, <3>2 DEF RequestIds
      <4>3. ASSUME status \in Refusals, NEW c \in network', c.id = i, c.type = "transact"
            PROVE  orders'[c.order].version > c.expected
        <5>1. IsCopyOf(c, call)
          BY <1>1, <2>1, <3>2, <4>3
        <5> QED
          BY <4>3, <5>1 DEF IsCopyOf, Settles
      <4> QED
        BY <2>1, <3>2, <4>1, <4>2, <4>3 DEF RecordInPlace, Settles
    <3> QED
      BY <3>1, <3>2
  <2>5. \A u \in Handlers : pc'[u] \in LoadSteps => Id(u) \notin tokens'
    <3>1. ASSUME NEW u \in Handlers, pc'[u] \in LoadSteps
          PROVE  Id(u)' \notin tokens' /\ Id(u)' = Id(u)
      BY <1>2, <2>3, <3>1 DEF Stays, Id, LoadSteps
    <3> QED
      BY <3>1
  <2> QED
    BY <1>1, <2>2, <2>3, <2>4, <2>5, RestKeeps
<1> QED
  BY <1>5, <1>6 DEF Reply

\* A call that leaves the table as it was.
LEMMA TableStays ==
  ASSUME IndInv, UNCHANGED <<orders, tickets, tokens, stamp>>
  PROVE  /\ TableTypes' /\ Grown /\ \A o \in OrderIds : HistoryInPlace(o)'
         /\ \A i \in RequestIds :
              /\ Records(i)' = Records(i)
              /\ i \in tokens' <=> Records(i)' # {}
              /\ \A r, s \in Records(i)' : r = s
              /\ outcome[i] \in Refusals => i \notin tokens'
BY DEF IndInv, TypeOK, TableTypes, Grown, HistoryInPlace, RecordInPlace, Records, RecordsIn

(***************************************************************************)
(* The conditional put of a new order keeps the invariant. (create.)       *)
(***************************************************************************)
LEMMA ExecutePutKeeps ==
  ASSUME IndInv, NEW call \in network, ExecutePut(call)
  PROVE  IndInv'
<1>1. /\ call.type = "put" /\ network' = network \ {call}
      /\ UNCHANGED <<tickets, tokens, stamp>>
  BY DEF ExecutePut
<1>2. CASE ~KeyIsFree(call)
  <2>1. UNCHANGED orders /\ Reply(call, "exists")
    BY <1>2 DEF ExecutePut
  <2>2. Settles(call, "exists")
    BY <1>1, <2>1, TableStays DEF Settles, Outcomes, Refusals
  <2> QED
    BY <1>1, <2>1, <2>2, TableStays, ReplyKeeps
<1>3. CASE KeyIsFree(call)
  <2> DEFINE o == call.order
  <2>1. orders' = [orders EXCEPT ![o] = call.item] /\ Reply(call, "created")
        /\ orders[o] = None
    BY <1>3 DEF ExecutePut, KeyIsFree
  <2>2. /\ o \in OrderIds /\ call.item \in Order
        /\ call.item.history = <<>> /\ call.item.version = 0
    <3>1. o \in OrderIds /\ call.item \in Order /\ PutInPlace(call)
      BY <1>1, CallTypes DEF IndInv, CallInPlace
    <3> QED
      BY <3>1 DEF PutInPlace, NewOrder
  <2>3. orders'[o] = call.item /\ \A p \in OrderIds : p # o => orders'[p] = orders[p]
    BY <2>1, <2>2 DEF IndInv, TypeOK
  <2>4. TableTypes' /\ Grown
    BY <1>1, <2>1, <2>2, <2>3 DEF TableTypes, Grown, IndInv, TypeOK
  <2>5. ASSUME NEW p \in OrderIds
        PROVE  HistoryInPlace(p)'
    <3>1. CASE p = o
      BY <2>2, <2>3, <3>1 DEF HistoryInPlace, Range
    <3>2. CASE p # o
      BY <1>1, <2>3, <3>2 DEF HistoryInPlace, IndInv
    <3> QED
      BY <3>1, <3>2
  <2>6. ASSUME NEW i \in RequestIds
        PROVE  Records(i)' = Records(i)
    <3>1. PICK before, after, p, order :
            before = orders /\ after = orders' /\ p = o /\ order = call.item
      OBVIOUS
    <3>2. OpensIn(before, after, p)
      BY <2>1, <2>2, <3>1 DEF OpensIn, IndInv, TypeOK
    <3>3. RecordsIn(after, i) = RecordsIn(before, i)
      BY <3>2, RecordsStayInOpen
    <3> QED
      BY <3>1, <3>3 DEF Records, RecordsIn
  <2>7. Settles(call, "created")
    BY <1>1, <2>6 DEF Settles, Outcomes, Refusals, IndInv, RecordInPlace
  <2> QED
    BY <1>1, <2>1, <2>4, <2>5, <2>7, ReplyKeeps
<1> QED
  BY <1>2, <1>3

(***************************************************************************)
(* The transaction that commits makes of the stored order what an accepted *)
(* event makes of it, and its ticket: the handler may have loaded another  *)
(* history, but nothing else that is written depends on it.                *)
(* (commit_transition.)                                                    *)
(***************************************************************************)
LEMMA CommitIsAccepted ==
  ASSUME IndInv, NEW call \in network, call.type = "transact", OrderIsUnmoved(call),
         Commit(call)
  PROVE  \E body \in Requests :
           LET stored == Context(orders[call.order], body.event, body.metadata)
           IN /\ Accepts(orders[call.order], body.event, body.metadata)
              /\ orders' = [orders EXCEPT ![call.order] = UpdatedOrder(call.id, stored)]
              /\ tickets' = tickets \cup SupportTickets(call.id, call.order, stored)
              /\ call.entry = EventEntry(call.id, stored)
              /\ UpdatedOrder(call.id, stored) \in Order
              /\ UpdatedOrder(call.id, stored).version = orders[call.order].version + 1
<1> DEFINE o == call.order
<1>1. /\ TransactionInPlace(call) /\ o \in OrderIds /\ orders[o] \in Order
      /\ orders[o].version = call.expected /\ call.id \in Nat
  BY HandlersAssumption
     DEF IndInv, TypeOK, CallInPlace, TransactionInPlace, OrderIsUnmoved, RequestIds
<1>2. PICK body \in Requests : Carries(call, body)
  BY <1>1 DEF TransactionInPlace
<1>3. PICK stored : stored = Context(orders[o], body.event, body.metadata)
  OBVIOUS
<1>4. PICK made : made = UpdatedOrder(call.id, stored)
  OBVIOUS
<1>5. /\ Accepts(orders[o], body.event, body.metadata)
      /\ call.item.state = made.state /\ call.item.amount = made.amount
      /\ call.item.version = made.version
      /\ call.entry = EventEntry(call.id, stored)
      /\ call.tickets = SupportTickets(call.id, o, stored)
  BY <1>2, <1>3, <1>4 DEF Carries
<1>6. made \in Order /\ made.version = orders[o].version + 1
  <2>1. PICK order, id : order = orders[o] /\ id = call.id
    OBVIOUS
  <2>2. IsEnabled(order.state, body.event) /\ order \in Order /\ id \in Nat
    BY <1>1, <1>5, <2>1 DEF Accepts
  <2>3. LET context == Context(order, body.event, body.metadata)
            updated == UpdatedOrder(id, context)
        IN updated \in Order /\ updated.version = order.version + 1
    BY <2>2, UpdatedOrderIsOrder
  <2> QED
    BY <1>3, <1>4, <2>1, <2>3
<1>7. made = Replaced(orders[o], made.amount, made.state, made.version,
                      Append(orders[o].history, call.entry))
  <2>1. PICK order, amount, state, version, history :
          /\ order = orders[o] /\ amount = made.amount /\ state = made.state
          /\ version = made.version /\ history = Append(orders[o].history, call.entry)
    OBVIOUS
  <2>2. Replaced(order, amount, state, version, history)
          = [amount |-> amount, productCount |-> order.productCount, state |-> state,
             version |-> version, history |-> history]
    <3>1. order \in Order
      BY <1>1, <2>1
    <3> QED
      BY <3>1, ReplacedOrder
  <2>3. /\ stored.order = orders[o]
        /\ made = [amount |-> FinalAmount(stored), productCount |-> orders[o].productCount,
                   state |-> FinalState(stored), version |-> orders[o].version + 1,
                   history |-> Append(orders[o].history, call.entry)]
    BY <1>3, <1>4, <1>5 DEF UpdatedOrder, Context
  <2> QED
    BY <2>1, <2>2, <2>3
<1>8. orders' = [orders EXCEPT ![o] = made]
  <2>1. orders' = [orders EXCEPT ![o] =
                     Replaced(orders[o], call.item.amount, call.item.state,
                              call.item.version, Append(orders[o].history, call.entry))]
    BY DEF Commit, Replaced
  <2> QED
    BY <1>5, <1>7, <2>1
<1>9. tickets' = tickets \cup SupportTickets(call.id, o, stored)
  BY <1>5 DEF Commit
<1> QED
  BY <1>3, <1>4, <1>5, <1>6, <1>8, <1>9

(***************************************************************************)
(* The commit records the event, its only record, and nothing else.        *)
(***************************************************************************)
LEMMA CommitRecords ==
  ASSUME IndInv, NEW call \in network, call.type = "transact",
         ~IsRepeated(call), OrderIsUnmoved(call), Commit(call), UNCHANGED stamp
  PROVE  /\ TableTypes' /\ Grown /\ \A o \in OrderIds : HistoryInPlace(o)'
         /\ Settles(call, "applied")
<1> DEFINE o == call.order
           h == orders[o].history
<1>1. /\ o \in OrderIds /\ orders[o] \in Order /\ orders[o] # None /\ call.id \in RequestIds
      /\ tokens' = tokens \cup {call.id} /\ call.id \notin tokens
      /\ h \in Seq(Entry) /\ Len(h) = orders[o].version /\ orders[o].version \in Nat
  BY CallTypes, StoredIsTyped
     DEF IndInv, TypeOK, OrderIsUnmoved, IsRepeated, Commit
<1>2. PICK stored :
        LET made == UpdatedOrder(call.id, stored)
        IN /\ stored.order = orders[o]
           /\ orders' = [orders EXCEPT ![o] = made]
           /\ call.entry = EventEntry(call.id, stored)
           /\ made \in Order /\ made.version = orders[o].version + 1
  BY CommitIsAccepted DEF Context
<1>3. PICK made :
        /\ orders' = [orders EXCEPT ![o] = made]
        /\ made \in Order /\ made.version = orders[o].version + 1
        /\ made.history = Append(h, call.entry)
  <2>1. PICK made : made = UpdatedOrder(call.id, stored)
    OBVIOUS
  <2>2. made.history = Append(stored.order.history, call.entry)
    BY <1>2, <2>1 DEF UpdatedOrder
  <2> QED
    BY <1>2, <2>1, <2>2
<1>4. call.entry.id = call.id /\ call.entry \in Entry
  BY <1>2, CallTypes DEF EventEntry, IndInv
<1>5. orders'[o] = made /\ \A p \in OrderIds : p # o => orders'[p] = orders[p]
  BY <1>1, <1>3 DEF IndInv, TypeOK
<1>6. /\ Len(made.history) = Len(h) + 1 /\ made.history[Len(h) + 1] = call.entry
      /\ \A n \in 1 .. Len(h) : made.history[n] = h[n]
      /\ DOMAIN made.history = 1 .. Len(h) + 1
  <2>1. PICK s, e, longer : s = h /\ e = call.entry /\ longer = made.history
    OBVIOUS
  <2>2. s \in Seq(Entry) /\ e \in Entry /\ longer = Append(s, e)
    BY <1>1, <1>3, <1>4, <2>1
  <2>3. /\ Len(longer) = Len(s) + 1 /\ longer[Len(s) + 1] = e
        /\ \A n \in 1 .. Len(s) : longer[n] = s[n]
        /\ DOMAIN longer = 1 .. Len(s) + 1
    BY <2>2
  <2> QED
    BY <2>1, <2>3
<1>7. TableTypes'
  <2>1. \A k \in call.tickets : k.id = call.id /\ k.order = o
    BY DEF IndInv, CallInPlace, TransactionInPlace
  <2>2. tickets' = tickets \cup call.tickets
    BY DEF Commit
  <2> QED
    BY <1>1, <1>3, <2>1, <2>2 DEF TableTypes, IndInv, TypeOK
<1>8. Grown
  <2>1. orders'[o] # None /\ orders'[o].version > orders[o].version
        /\ Len(orders'[o].history) > Len(h)
        /\ \A n \in 1 .. Len(h) : orders'[o].history[n] = h[n]
    <3>1. made # None /\ Len(h) \in Nat
      BY <1>1, <1>3, ServiceAssumption
    <3>2. made.version > orders[o].version /\ Len(made.history) > Len(h)
      BY <1>1, <1>3, <1>6, <3>1
    <3> QED
      BY <1>5, <1>6, <3>1, <3>2
  <2> QED
    BY <1>5, <2>1 DEF Grown
<1>9. ASSUME NEW p \in OrderIds
      PROVE  HistoryInPlace(p)'
  <2>1. CASE p = o
    <3>1. \A e \in Range(h) : e.id \in tokens
      BY <1>1 DEF IndInv, HistoryInPlace
    <3>2. ASSUME NEW n \in 1 .. Len(h) + 1
          PROVE  made.history[n].id \in tokens'
      <4>1. CASE n = Len(h) + 1
        BY <1>1, <1>4, <1>6, <4>1
      <4>2. CASE n \in 1 .. Len(h)
        <5>1. h[n] \in Range(h) /\ made.history[n] = h[n]
          BY <1>1, <1>6, <4>2 DEF Range
        <5> QED
          BY <1>1, <3>1, <5>1
      <4> QED
        BY <1>1, <4>1, <4>2
    <3> QED
      <4>1. /\ orders'[p] = made /\ Len(made.history) = made.version
            /\ DOMAIN made.history = 1 .. Len(h) + 1
        BY <1>1, <1>3, <1>5, <1>6, <2>1
      <4>2. \A e \in Range(made.history) : e.id \in tokens'
        BY <3>2, <4>1 DEF Range
      <4> QED
        BY <4>1, <4>2 DEF HistoryInPlace
  <2>2. CASE p # o
    BY <1>1, <1>5, <2>2 DEF HistoryInPlace, IndInv
  <2> QED
    BY <2>1, <2>2
<1>10. ASSUME NEW i \in RequestIds
      PROVE  /\ i \in tokens' <=> Records(i)' # {}
             /\ \A r, s \in Records(i)' : r = s
             /\ outcome[i] \in Refusals => i \notin tokens'
  <2>1. Records(i)' = IF i = call.id
                      THEN Records(i) \cup {<<o, Len(made.history)>>}
                      ELSE Records(i)
    <3>1. PICK before, after, p, e :
            before = orders /\ after = orders' /\ p = o /\ e = call.entry
      OBVIOUS
    <3>2. AppendsIn(before, after, p, e)
      BY <1>1, <1>3, <1>4, <3>1 DEF AppendsIn, IndInv, TypeOK
    <3>3. RecordsIn(after, i) = IF e.id = i
                                THEN RecordsIn(before, i) \cup {<<p, Len(after[p].history)>>}
                                ELSE RecordsIn(before, i)
      BY <3>2, RecordsGrow
    <3> QED
      BY <1>4, <1>5, <3>1, <3>3 DEF Records, RecordsIn
  <2>2. RecordInPlace(i)
    BY DEF IndInv
  <2>3. orders[o].version = call.expected
    BY DEF OrderIsUnmoved
  <2>4. i = call.id => Records(i) = {} /\ outcome[i] \notin Refusals
    BY <1>1, <2>2, <2>3, HandlersAssumption DEF RecordInPlace
  <2> QED
    BY <1>1, <2>1, <2>2, <2>4 DEF RecordInPlace
<1>11. Settles(call, "applied")
  BY <1>1, <1>10 DEF Settles, Outcomes, Refusals
<1> QED
  BY <1>7, <1>8, <1>9, <1>11

(***************************************************************************)
(* A transaction whose condition fails has come too late for good: the     *)
(* version it expects is gone. (commit_transition.)                        *)
(***************************************************************************)
LEMMA ConflictIsFinal ==
  ASSUME IndInv, NEW call \in network, call.type = "transact", ~OrderIsUnmoved(call)
  PROVE  orders[call.order].version > call.expected
<1> DEFINE o == call.order
<1>1. /\ TransactionInPlace(call) /\ o \in OrderIds /\ orders[o] # None
      /\ orders[o].version \in Nat /\ call.expected \in Nat
      /\ call.expected <= orders[o].version
  BY StoredIsTyped DEF IndInv, CallInPlace, TransactionInPlace
<1>2. ASSUME call.expected = orders[o].version
      PROVE  call.entry.from = orders[o].state
  <2>1. PICK body \in Requests : Carries(call, body)
    BY <1>1, <1>2 DEF TransactionInPlace
  <2>2. call.entry = EventEntry(call.id, Context(orders[o], body.event, body.metadata))
    BY <2>1 DEF Carries
  <2> QED
    BY <2>2 DEF EventEntry, Context
<1> QED
  BY <1>1, <1>2 DEF OrderIsUnmoved

(***************************************************************************)
(* The transaction of an event keeps the invariant, the first time and     *)
(* when it is repeated. (commit_transition.)                               *)
(***************************************************************************)
LEMMA ExecuteTransactionKeeps ==
  ASSUME IndInv, NEW call \in network, ExecuteTransaction(call)
  PROVE  IndInv'
<1>1. /\ call.type = "transact" /\ network' = network \ {call} /\ UNCHANGED stamp
      /\ call.id \in RequestIds
  BY CallTypes DEF ExecuteTransaction, IndInv
<1>2. CASE IsRepeated(call)
  <2>1. UNCHANGED <<orders, tickets, tokens>> /\ Reply(call, "applied")
    BY <1>2 DEF ExecuteTransaction, table
  <2>2. Settles(call, "applied")
    BY <1>1, <1>2, <2>1, TableStays DEF Settles, Outcomes, Refusals, IsRepeated
  <2> QED
    BY <1>1, <2>1, <2>2, TableStays, ReplyKeeps
<1>3. CASE ~IsRepeated(call) /\ OrderIsUnmoved(call)
  <2>1. Commit(call) /\ Reply(call, "applied")
    BY <1>3 DEF ExecuteTransaction
  <2>2. tokens \subseteq tokens'
    BY <2>1 DEF Commit
  <2> QED
    BY <1>1, <1>3, <2>1, <2>2, CommitRecords, ReplyKeeps
<1>4. CASE ~IsRepeated(call) /\ ~OrderIsUnmoved(call)
  <2>1. UNCHANGED <<orders, tickets, tokens>> /\ Reply(call, "versionConflict")
    BY <1>4 DEF ExecuteTransaction, table
  <2>2. Settles(call, "versionConflict")
    BY <1>1, <1>4, <2>1, ConflictIsFinal, TableStays
       DEF Settles, Outcomes, Refusals, IsRepeated
  <2> QED
    BY <1>1, <2>1, <2>2, TableStays, ReplyKeeps
<1> QED
  BY <1>2, <1>3, <1>4

(***************************************************************************)
(* A transaction that another one cancels keeps the invariant.             *)
(* (TransactionCanceledException.)                                         *)
(***************************************************************************)
LEMMA CancelTransactionKeeps ==
  ASSUME IndInv, NEW call \in network, CancelTransaction(call)
  PROVE  IndInv'
<1>1. /\ network' = network \ {call} /\ UNCHANGED <<orders, tickets, tokens, stamp>>
      /\ Reply(call, "error")
  BY DEF CancelTransaction, table
<1>2. Settles(call, "error")
  BY <1>1, TableStays DEF Settles, Outcomes, Refusals
<1> QED
  BY <1>1, <1>2, TableStays, ReplyKeeps

-----------------------------------------------------------------------------
(* The invariant *)

(***************************************************************************)
(* The invariant holds of the empty table.                                 *)
(***************************************************************************)
LEMMA InitIndInv == Init => IndInv
<1> SUFFICES ASSUME Init
             PROVE  IndInv
  OBVIOUS
<1>1. TypeOK
  BY HandlersAssumption DEF Init, TypeOK, Steps, Outcomes, Waits
<1>2. \A i \in RequestIds : RecordInPlace(i)
  BY DEF Init, RecordInPlace, Records, RecordsIn, Refusals
<1> QED
  BY <1>1, <1>2
     DEF Init, IndInv, HistoryInPlace, RequestInPlace, SentInPlace, LoadInPlace, Waits

(***************************************************************************)
(* Every step keeps the invariant.                                         *)
(***************************************************************************)
LEMMA NextIndInv == IndInv /\ [Next]_vars => IndInv'
<1> SUFFICES ASSUME IndInv, [Next]_vars
             PROVE  IndInv'
  OBVIOUS
<1>1. ASSUME NEW t \in Handlers, ReceiveSome(t)
      PROVE  IndInv'
  BY <1>1, ReceiveCreateKeeps, ReceiveReadKeeps DEF ReceiveSome
<1>2. ASSUME NEW t \in Handlers, Proceed(t)
      PROVE  IndInv'
  BY <1>2, GetItemKeeps, QueryEventsKeeps, AnswersKeep, EvaluateEventKeeps, ResendKeeps
     DEF Proceed
<1>3. ASSUME NEW call \in network, Execute(call)
      PROVE  IndInv'
  BY <1>3, ExecutePutKeeps, ExecuteTransactionKeeps, CancelTransactionKeeps DEF Execute
<1>4. CASE UNCHANGED vars
  <2>1. /\ UNCHANGED <<orders, tickets, tokens, stamp, network, pc, request, loaded, sent>>
        /\ UNCHANGED <<issued, outcome>>
    BY <1>4 DEF vars, table, handlers, clients
  <2>2. TypeOK'
    BY <2>1 DEF IndInv, TypeOK, Waits
  <2>3. \A u \in Handlers : Stays(u) /\ Id(u)' = Id(u)
    BY <2>1 DEF Stays, Id
  <2>4. Grown /\ StampsStay /\ \A o \in OrderIds : HistoryInPlace(o)'
    BY <2>1, TableStays DEF StampsStay
  <2>5. \A i \in RequestIds : RecordInPlace(i)'
    BY <2>1 DEF IndInv, RecordInPlace, Records, RecordsIn
  <2>6. \A u \in Handlers : pc'[u] \in LoadSteps => Id(u) \notin tokens'
    BY <2>1 DEF IndInv, SentInPlace, LoadSteps
  <2> QED
    BY <2>1, <2>2, <2>3, <2>4, <2>5, <2>6, RestKeeps
<1> QED
  BY <1>1, <1>2, <1>3, <1>4 DEF Next, Exhausted

(***************************************************************************)
(* The types, what each call in the network carries, what each handler     *)
(* holds and what each request recorded, throughout.                       *)
(***************************************************************************)
THEOREM Invariance == Spec => []IndInv
BY InitIndInv, NextIndInv, PTL DEF Spec

-----------------------------------------------------------------------------
(* What clients may rely on *)

(***************************************************************************)
(* An applied event is in the table once and for good, a refused one never *)
(* gets there, whatever is sent again, executed late or never answered.    *)
(* (ClientRequestToken, the condition of commit_transition.)               *)
(***************************************************************************)
THEOREM AnswersAreTrue == Spec => []AnswersMatchTable
<1>1. IndInv => AnswersMatchTable
  <2> SUFFICES ASSUME IndInv, NEW i \in RequestIds
               PROVE  /\ Cardinality(Records(i)) <= 1
                      /\ outcome[i] = "applied" => Records(i) # {}
                      /\ outcome[i] \in Refusals => Records(i) = {}
    BY DEF AnswersMatchTable
  <2>1. RecordInPlace(i)
    BY DEF IndInv
  <2>2. Cardinality(Records(i)) <= 1
    <3>1. CASE Records(i) = {}
      BY <3>1, FS_EmptySet
    <3>2. CASE Records(i) # {}
      <4>1. PICK r, S : S = Records(i) /\ S = {r}
        BY <2>1, <3>2 DEF RecordInPlace
      <4>2. Cardinality(S) = 1
        BY <4>1, FS_Singleton
      <4> QED
        BY <4>1, <4>2
    <3> QED
      BY <3>1, <3>2
  <2> QED
    BY <2>1, <2>2 DEF RecordInPlace
<1> QED
  BY <1>1, Invariance, PTL

(***************************************************************************)
(* A paged read has every event up to the version it shows, for any size   *)
(* of page and any skew of the clocks. (get_by_id.)                        *)
(***************************************************************************)
THEOREM ReadsAreComplete == Spec => []HistoryCoversVersion
<1>1. IndInv => HistoryCoversVersion
  <2> SUFFICES ASSUME IndInv, NEW t \in Handlers, pc[t] \in {"show", "evaluate"}
               PROVE  Range(SubSeq(orders[Target(t)].history, 1, loaded[t].version))
                        \subseteq Range(loaded[t].history)
    BY DEF HistoryCoversVersion
  <2> DEFINE h == orders[Target(t)].history
             v == loaded[t].version
  <2>1. /\ Target(t) \in OrderIds /\ orders[Target(t)] # None /\ loaded[t] \in Order
        /\ v <= orders[Target(t)].version /\ Loading(t)
    BY DEF IndInv, TypeOK, RequestInPlace, RequestRecord, Target, LoadInPlace, IsReading
  <2>2. h \in Seq(Entry) /\ Len(h) = orders[Target(t)].version /\ v \in Nat
    BY <2>1, StoredIsTyped DEF Order
  <2>3. \A n \in 1 .. v : h[n] \in Range(loaded[t].history)
    BY <2>1 DEF Loading
  <2> HIDE DEF h, v
  <2>4. v <= Len(h)
    BY <2>1, <2>2 DEF v
  <2>5. \A e \in Range(SubSeq(h, 1, v)) : \E n \in 1 .. v : e = h[n]
    BY <2>2, <2>4 DEF Range
  <2> QED
    BY <2>3, <2>5 DEF h, v
<1> QED
  BY <1>1, Invariance, PTL

-----------------------------------------------------------------------------
(* The refinement *)

(***************************************************************************)
(* A put opens the order; the transaction that commits advances it.        *)
(* (create, commit_transition.)                                            *)
(***************************************************************************)
LEMMA PutOpens ==
  ASSUME IndInv, NEW call \in network, ExecutePut(call)
  PROVE  UNCHANGED Ledger!vars \/ Ledger!Next
<1>1. /\ call.type = "put" /\ UNCHANGED tickets
      /\ orders' = IF KeyIsFree(call) THEN [orders EXCEPT ![call.order] = call.item]
                   ELSE orders
  BY DEF ExecutePut
<1>2. CASE ~KeyIsFree(call)
  BY <1>1, <1>2 DEF Ledger!vars
<1>3. CASE KeyIsFree(call)
  <2>1. call.order \in OrderIds /\ PutInPlace(call)
    BY <1>1 DEF IndInv, CallInPlace
  <2>2. PICK amount \in Amounts, count \in ProductCounts : call.item = NewOrder(amount, count)
    BY <2>1 DEF PutInPlace
  <2>3. Ledger!Open(call.order, amount, count)
    BY <1>1, <1>3, <2>2 DEF Ledger!Open, KeyIsFree
  <2> QED
    BY <2>1, <2>3 DEF Ledger!Next
<1> QED
  BY <1>2, <1>3

(***************************************************************************)
(* A transaction that is executed advances one order of the ledger, or     *)
(* repeats what was done. (commit_transition.)                             *)
(***************************************************************************)
LEMMA TransactionAdvances ==
  ASSUME IndInv, NEW call \in network, ExecuteTransaction(call)
  PROVE  UNCHANGED Ledger!vars \/ Ledger!Next
<1>1. CASE UNCHANGED table
  BY <1>1 DEF table, Ledger!vars
<1>2. CASE ~IsRepeated(call) /\ OrderIsUnmoved(call) /\ Commit(call)
  <2> DEFINE o == call.order
  <2>1. /\ call.type = "transact" /\ call.id \in RequestIds /\ o \in OrderIds
        /\ orders[o] # None /\ call.id \notin tokens
    BY <1>2, CallTypes DEF ExecuteTransaction, OrderIsUnmoved, IsRepeated, IndInv
  <2>2. PICK body \in Requests :
          /\ Accepts(orders[o], body.event, body.metadata)
          /\ orders' = [orders EXCEPT ![o] =
               UpdatedOrder(call.id, Context(orders[o], body.event, body.metadata))]
          /\ tickets' = tickets \cup
               SupportTickets(call.id, o, Context(orders[o], body.event, body.metadata))
    BY <1>2, <2>1, CommitIsAccepted
  <2>3. call.id \notin Ledger!RecordedIds
    <3>1. ASSUME NEW p \in OrderIds, orders[p] # None, NEW n \in DOMAIN orders[p].history,
                 call.id = orders[p].history[n].id
          PROVE  FALSE
      BY <2>1, <3>1 DEF IndInv, HistoryInPlace, Range
    <3> QED
      BY <3>1 DEF Ledger!RecordedIds
  <2>4. Ledger!Advance(o, call.id, body.event, body.metadata)
    BY <2>1, <2>2, <2>3 DEF Ledger!Advance
  <2> QED
    BY <2>1, <2>4 DEF Ledger!Next
<1> QED
  BY <1>1, <1>2 DEF ExecuteTransaction

(***************************************************************************)
(* The DynamoDB repository implements OrderRepository, for any handlers,   *)
(* orders, requests and rules, with calls lost, copied and late: each      *)
(* event is judged against the order as it is stored when it commits.      *)
(* (dynamodb_order_repository.py.)                                         *)
(***************************************************************************)
THEOREM DynamoImplementsLedger == Spec => ImplementsLedger
<1>1. Init => Ledger!Init
  BY DEF Init, Ledger!Init
<1>2. IndInv /\ [Next]_vars => [UNCHANGED Ledger!vars \/ Ledger!Next]_vars
  <2> SUFFICES ASSUME IndInv, [Next]_vars
               PROVE  UNCHANGED Ledger!vars \/ Ledger!Next \/ UNCHANGED vars
    OBVIOUS
  <2>1. ASSUME NEW t \in Handlers, ReceiveSome(t)
        PROVE  UNCHANGED Ledger!vars
    BY <2>1
       DEF ReceiveSome, ReceiveCreate, ReceiveGet, ReceiveApply, Receive, table, Ledger!vars
  <2>2. ASSUME NEW t \in Handlers, Proceed(t)
        PROVE  UNCHANGED Ledger!vars
    BY <2>2
       DEF Proceed, GetItem, QueryEvents, FinishGet, RefuseTransition, RefuseOverrides,
           EvaluateEvent, Resend, Fail, Refuse, table, Ledger!vars
  <2>3. ASSUME NEW call \in network, Execute(call)
        PROVE  UNCHANGED Ledger!vars \/ Ledger!Next
    <3>1. CASE CancelTransaction(call)
      BY <3>1 DEF CancelTransaction, table, Ledger!vars
    <3> QED
      BY <2>3, <3>1, PutOpens, TransactionAdvances DEF Execute
  <2> QED
    BY <2>1, <2>2, <2>3 DEF Next, Exhausted
<1> QED
  BY <1>1, <1>2, Invariance, PTL DEF Spec, ImplementsLedger

-----------------------------------------------------------------------------
(* Exact answers, where the clocks agree *)

(***************************************************************************)
(* Numbers above a bound, in rising order and without a gap, are those     *)
(* that follow the bound: a page has no hole. (query.)                     *)
(***************************************************************************)
IsRun(f, k, low) ==
  /\ \A m \in 1 .. k : f[m] > low
  /\ \A m, n \in 1 .. k : m < n => f[m] < f[n]
  /\ \A n \in 1 .. k : \A j \in Nat :
       low < j /\ j < f[n] => \E m \in 1 .. k : f[m] = j

(***************************************************************************)
(* Numbers that ascend from above a bound and leave nothing out are the    *)
(* ones that follow it: the versions in a page.                            *)
(***************************************************************************)
LEMMA RunHasNoGap ==
  ASSUME NEW low \in Nat, NEW k \in Nat, NEW f \in [1 .. k -> Nat], IsRun(f, k, low),
         NEW n \in 1 .. k
  PROVE  f[n] = low + n
<1> DEFINE S == 1 .. n
           T == low + 1 .. f[n]
           g == [m \in S |-> f[m]]
<1>1. n \in Nat /\ f[n] \in Nat /\ f[n] > low
  BY DEF IsRun
<1>2. \A m \in S : m \in 1 .. k /\ (m < n \/ m = n)
  BY <1>1
<1>3. g \in [S -> T]
  BY <1>1, <1>2 DEF IsRun
<1>4. ASSUME NEW a \in S, NEW b \in S, g[a] = g[b]
      PROVE  a = b
  BY <1>2, <1>4, SMTT(30) DEF IsRun
<1>5. ASSUME NEW j \in T
      PROVE  \E m \in S : g[m] = j
  <2>1. CASE j = f[n]
    BY <1>1, <2>1
  <2>2. CASE j < f[n]
    <3>1. PICK m \in 1 .. k : f[m] = j
      BY <1>1, <2>2 DEF IsRun
    <3>2. ~(n < m)
      BY <2>2, <3>1 DEF IsRun
    <3> QED
      BY <3>1, <3>2
  <2> QED
    BY <1>1, <2>1, <2>2
<1> HIDE DEF g, S, T
<1>6. g \in Bijection(S, T)
  BY <1>3, <1>4, <1>5 DEF Bijection, Injection, Surjection, IsInjective, g
<1>7. IsFiniteSet(S) /\ Cardinality(S) = n
  BY <1>1, FS_Interval DEF S
<1>8. Cardinality(T) = f[n] - low
  <2>1. low + 1 \in Int /\ f[n] \in Int /\ ~(low + 1 > f[n])
    BY <1>1
  <2>2. Cardinality(low + 1 .. f[n]) = f[n] - (low + 1) + 1
    BY <2>1, FS_Interval
  <2> QED
    BY <1>1, <2>2 DEF T
<1>9. Cardinality(T) = Cardinality(S)
  BY <1>6, <1>7, FS_Bijection DEF ExistsBijection
<1>10. f[n] - low = n
  BY <1>7, <1>8, <1>9
<1> QED
  BY <1>1, <1>10

(***************************************************************************)
(* A page of an order that has not moved since it was read continues what  *)
(* was read, and the last page ends where the history ends. (get_by_id.)   *)
(***************************************************************************)
LEMMA PageContinues ==
  ASSUME IndInv, NEW t \in Handlers, pc[t] = "query", InOrder(Target(t)), ReadsExactly(t),
         loaded[t].version = orders[Target(t)].version, NEW page \in Pages(t)
  PROVE  LET h   == orders[Target(t)].history
             low == Len(loaded[t].history)
         IN /\ low + Len(page) <= Len(h)
            /\ \A n \in 1 .. Len(page) : page[n] = h[low + n]
            /\ IsLastPage(page) => low + Len(page) = Len(h)
<1>1. PICK o, h, done, low, last :
        /\ o = Target(t) /\ h = orders[o].history /\ done = loaded[t].history
        /\ low = Len(done) /\ last = Len(h)
  OBVIOUS
<1>2. /\ o \in OrderIds /\ orders[o] # None /\ h \in Seq(Entry) /\ done \in Seq(Entry)
      /\ low \in Nat /\ last \in Nat
  <2>1. RequestInPlace(t) /\ LoadInPlace(t) /\ loaded[t] \in Order
    BY DEF IndInv, TypeOK, LoadInPlace
  <2>2. o \in OrderIds /\ orders[o] # None
    BY <1>1, <2>1 DEF RequestInPlace, RequestRecord, Target, LoadInPlace, IsReading
  <2>3. h \in Seq(Entry) /\ done \in Seq(Entry)
    BY <1>1, <2>1, <2>2, StoredIsTyped DEF Order
  <2> QED
    BY <1>1, <2>2, <2>3
<1>3. low <= last /\ \A n \in 1 .. low : done[n] = h[n]
  BY <1>1 DEF ReadsExactly
<1>4. /\ DOMAIN h = 1 .. last /\ DOMAIN done = 1 .. low
      /\ \A n \in 1 .. last : h[n] \in Range(h) /\ stamp[h[n].id] \in Nat /\ h[n].id \in Nat
  <2>1. DOMAIN h = 1 .. last /\ DOMAIN done = 1 .. low
    BY <1>1, <1>2
  <2>2. \A e \in Range(h) : e.id \in RequestIds
    BY <1>1, <1>2 DEF IndInv, TypeOK, HistoryInPlace
  <2>3. \A i \in RequestIds : i \in Nat /\ stamp[i] \in Nat
    BY HandlersAssumption DEF RequestIds, IndInv, TypeOK
  <2> QED
    BY <2>1, <2>2, <2>3 DEF Range
<1>5. ASSUME NEW m \in 1 .. last, NEW n \in 1 .. last
      PROVE  Precedes(h[m], h[n]) <=> m < n
  <2>1. /\ m < n => stamp[h[m].id] < stamp[h[n].id]
        /\ n < m => stamp[h[n].id] < stamp[h[m].id]
    BY <1>1, <1>2 DEF InOrder
  <2>2. stamp[h[m].id] \in Nat /\ stamp[h[n].id] \in Nat /\ m \in Nat /\ n \in Nat
    BY <1>2, <1>4
  <2>3. CASE m = n
    <3>1. ~(h[m].id < h[m].id)
      <4>1. h[m].id \in Nat
        BY <1>4
      <4> QED
        BY <4>1
    <3> QED
      BY <2>2, <2>3, <3>1 DEF Precedes
  <2>4. CASE m # n
    BY <2>1, <2>2, <2>4 DEF Precedes
  <2> QED
    BY <2>3, <2>4
<1>6. ASSUME NEW e \in Unread(t)
      PROVE  \E j \in 1 .. last : j > low /\ e = h[j]
  <2>1. /\ e \in Range(h)
        /\ \A read \in Range(done) : Precedes(read, e)
    BY <1>1 DEF Unread
  <2>2. PICK j \in 1 .. last : e = h[j]
    BY <1>4, <2>1 DEF Range
  <2>3. CASE low = 0
    BY <1>2, <2>2, <2>3
  <2>4. CASE low # 0
    <3>1. low \in 1 .. low /\ low \in 1 .. last
      BY <1>2, <1>3, <2>4
    <3>2. h[low] \in Range(done)
      BY <1>3, <1>4, <3>1 DEF Range
    <3> QED
      BY <1>5, <2>1, <2>2, <3>1, <3>2
  <2> QED
    BY <2>3, <2>4
<1>7. ASSUME NEW j \in 1 .. last, j > low
      PROVE  h[j] \in Unread(t)
  <2>1. ASSUME NEW read \in Range(done)
        PROVE  Precedes(read, h[j])
    <3>1. PICK n \in 1 .. low : read = h[n]
      BY <1>3, <1>4 DEF Range
    <3>2. n \in 1 .. last /\ n < j
      BY <1>2, <1>3, <1>7, <3>1
    <3> QED
      BY <1>5, <3>1, <3>2
  <2> QED
    BY <1>1, <1>4, <2>1 DEF Unread
<1>8. PICK k \in 0 .. PageSize : page \in [1 .. k -> Unread(t)]
  BY DEF Pages, SeqOf
<1>9. /\ k \in Nat /\ Len(page) = k /\ DOMAIN page = 1 .. k
      /\ \A m, n \in 1 .. k : m < n => Precedes(page[m], page[n])
      /\ \A e \in Unread(t) \ Range(page) :
           k = PageSize /\ \A n \in 1 .. k : Precedes(page[n], e)
  <2>1. k \in Nat /\ DOMAIN page = 1 .. k /\ page \in Seq(Unread(t))
    BY <1>8, HandlersAssumption
  <2>2. Len(page) = k
    BY <1>8, <2>1
  <2> QED
    BY <2>1, <2>2 DEF Pages
<1> DEFINE f == [n \in 1 .. k |-> CHOOSE j \in 1 .. last : j > low /\ page[n] = h[j]]
<1>10. ASSUME NEW n \in 1 .. k
       PROVE  f[n] \in 1 .. last /\ f[n] \in Nat /\ f[n] > low /\ page[n] = h[f[n]]
  <2>1. \E j \in 1 .. last : j > low /\ page[n] = h[j]
    BY <1>6, <1>8
  <2> QED
    BY <1>2, <2>1
<1>11. f \in [1 .. k -> Nat]
  BY <1>10
<1> HIDE DEF f
<1>12. IsRun(f, k, low)
  <2>1. \A m, n \in 1 .. k : m < n => f[m] < f[n]
    BY <1>5, <1>9, <1>10
  <2>2. ASSUME NEW n \in 1 .. k, NEW j \in Nat, low < j, j < f[n]
        PROVE  \E m \in 1 .. k : f[m] = j
    <3>1. j \in 1 .. last /\ ~Precedes(page[n], h[j])
      <4>1. f[n] \in Nat /\ f[n] <= last /\ f[n] \in 1 .. last /\ page[n] = h[f[n]]
        BY <1>2, <1>10
      <4>2. j \in 1 .. last /\ ~(f[n] < j)
        BY <1>2, <2>2, <4>1
      <4> QED
        BY <1>5, <4>1, <4>2
    <3>2. h[j] \in Unread(t)
      BY <1>2, <1>7, <2>2, <3>1
    <3>3. h[j] \in Range(page)
      BY <1>9, <3>1, <3>2
    <3>4. PICK m \in 1 .. k : h[j] = page[m]
      BY <1>9, <3>3 DEF Range
    <3>5. f[m] \in 1 .. last /\ h[j] = h[f[m]]
      BY <1>10, <3>4
    <3>6. Precedes(h[j], h[j]) <=> j < j
      BY <1>5, <3>1
    <3>7. ~(j < f[m]) /\ ~(f[m] < j)
      BY <1>5, <3>1, <3>5, <3>6
    <3>8. f[m] \in Nat /\ f[m] = j
      BY <1>10, <3>7
    <3> QED
      BY <3>8
  <2>3. \A n \in 1 .. k : f[n] > low
    BY <1>10
  <2> QED
    BY <2>1, <2>2, <2>3 DEF IsRun
<1>13. \A n \in 1 .. k : f[n] = low + n
  BY <1>2, <1>9, <1>11, <1>12, RunHasNoGap
<1>14. \A n \in 1 .. k : low + n \in 1 .. last /\ page[n] = h[low + n]
  BY <1>10, <1>13
<1>15. low + k <= last
  <2>1. CASE k = 0
    BY <1>2, <1>3, <2>1
  <2>2. CASE k # 0
    <3>1. k \in 1 .. k
      BY <1>9, <2>2
    <3>2. low + k \in 1 .. last
      BY <1>14, <3>1
    <3> QED
      BY <1>2, <3>2
  <2> QED
    BY <2>1, <2>2
<1>16. ASSUME k < PageSize
       PROVE  low + k = last
  <2>1. SUFFICES ASSUME low + k < last
                 PROVE  FALSE
    BY <1>2, <1>9, <1>15
  <2>2. low + k + 1 \in 1 .. last /\ low + k + 1 > low
    BY <1>2, <1>9, <2>1
  <2>3. PICK j : j = low + k + 1
    OBVIOUS
  <2>4. h[j] \in Range(page)
    BY <1>7, <1>9, <1>16, <2>2, <2>3, HandlersAssumption
  <2>5. PICK m \in 1 .. k : h[j] = page[m]
    BY <1>9, <2>4 DEF Range
  <2>6. /\ h[j] = h[low + m] /\ low + m \in 1 .. last /\ low + m < j /\ j \in 1 .. last
        /\ j \in Nat
    BY <1>2, <1>9, <1>14, <2>2, <2>3, <2>5
  <2>7. Precedes(h[low + m], h[j]) /\ ~Precedes(h[j], h[j])
    BY <1>5, <2>6
  <2> QED
    BY <2>6, <2>7
<1> QED
  BY <1>1, <1>9, <1>14, <1>15, <1>16 DEF IsLastPage

-----------------------------------------------------------------------------
(* What others do leaves a call, a read and an order exact *)

(***************************************************************************)
(* A call that may still be executed is of a request that was issued and   *)
(* is no longer loading.                                                   *)
(***************************************************************************)
LEMMA PendingIsPlaced ==
  ASSUME IndInv, NEW c \in Pending
  PROVE  /\ CallInPlace(c) /\ c.id \in RequestIds /\ c.id <= issued
         /\ c.order \in OrderIds /\ c.item \in Order
         /\ \A u \in Handlers : pc[u] \in LoadSteps => Id(u) # c.id
<1>1. CallInPlace(c) /\ \A u \in Handlers : pc[u] \in LoadSteps => Id(u) # c.id
  <2>1. CASE c \in network
    BY <2>1 DEF IndInv, SentInPlace, LoadSteps
  <2>2. ASSUME NEW t \in Handlers, Waits(t), c = sent[t]
        PROVE  CallInPlace(c) /\ \A u \in Handlers : pc[u] \in LoadSteps => Id(u) # c.id
    <3>1. CallInPlace(c) /\ c.id = Id(t) /\ RequestInPlace(t) /\ pc[t] # "idle"
          /\ pc[t] \notin LoadSteps
      BY <2>2 DEF IndInv, SentInPlace, Waits, LoadSteps
    <3> QED
      BY <3>1 DEF RequestInPlace, LoadSteps
  <2> QED
    BY <2>1, <2>2 DEF Pending
<1>2. c.id <= issued
  BY <1>1 DEF CallInPlace, IndInv, TypeOK
<1> QED
  BY <1>1, <1>2, CallTypes

(***************************************************************************)
(* A call that committed keeps what it answers in the history, whatever is *)
(* appended; one that can still commit sees the order as it was.           *)
(***************************************************************************)
LEMMA AnswersStay ==
  ASSUME IndInv, IndInv', Grown, StampsStay, NEW c, CallInPlace(c), AnswersExactly(c),
         c.id \in tokens' => c.id \in tokens, stamp'[c.id] = stamp[c.id]
  PROVE  AnswersExactly(c)'
<1> SUFFICES ASSUME c.type = "transact"
             PROVE  AnswersExactly(c)'
  BY DEF AnswersExactly
<1>1. PICK o, h, told, later :
        /\ o = c.order /\ h = orders[o].history /\ told = c.item.history
        /\ later = orders'[o].history
  OBVIOUS
<1>2. /\ o \in OrderIds /\ orders[o] # None /\ orders'[o] # None
      /\ orders[o].version \in Nat /\ orders'[o].version \in Nat
      /\ c.expected \in Nat /\ c.expected <= orders[o].version
      /\ c.item \in Order
  BY <1>1, CallTypes DEF CallInPlace, TransactionInPlace, Grown, IndInv, TypeOK, Order
<1>3. /\ h \in Seq(Entry) /\ later \in Seq(Entry) /\ told \in Seq(Entry)
      /\ \A n \in 1 .. Len(h) : h[n].id \in tokens
  BY <1>1, <1>2 DEF IndInv, TypeOK, HistoryInPlace, Order, Range
<1>4. \/ orders'[o] = orders[o]
      \/ /\ orders'[o].version > orders[o].version /\ Len(later) > Len(h)
         /\ \A n \in 1 .. Len(h) : later[n] = h[n]
  BY <1>1, <1>2 DEF Grown
<1>5. ASSUME c.id \in tokens'
      PROVE  /\ Len(told) = c.item.version /\ Len(told) <= Len(later)
             /\ \A n \in 1 .. Len(told) : told[n] = later[n]
  <2>1. /\ Len(told) = c.item.version /\ Len(told) <= Len(h)
        /\ \A n \in 1 .. Len(told) : told[n] = h[n]
    BY <1>1, <1>5 DEF AnswersExactly
  <2>2. CASE orders'[o] = orders[o]
    BY <1>1, <2>1, <2>2
  <2>3. CASE orders'[o].version > orders[o].version
    <3>1. Len(later) > Len(h) /\ \A n \in 1 .. Len(h) : later[n] = h[n]
      BY <1>2, <1>4, <2>3
    <3>2. Len(later) \in Nat /\ Len(h) \in Nat /\ Len(told) \in Nat
      BY <1>3
    <3>3. Len(told) <= Len(later)
      BY <2>1, <3>1, <3>2
    <3>4. \A n \in 1 .. Len(told) : n \in 1 .. Len(h)
      BY <2>1, <3>2
    <3> QED
      BY <2>1, <3>1, <3>3, <3>4
  <2> QED
    BY <1>4, <2>2, <2>3
<1>6. ASSUME c.id \notin tokens', c.expected = orders'[o].version
      PROVE  /\ told = Append(later, c.entry)
             /\ \A n \in 1 .. Len(later) : stamp'[later[n].id] < stamp'[c.id]
  <2>1. orders'[o] = orders[o] /\ c.id \notin tokens /\ later = h
    BY <1>1, <1>2, <1>4, <1>6 DEF StampsStay
  <2>2. told = Append(h, c.entry) /\ \A n \in 1 .. Len(h) : stamp[h[n].id] < stamp[c.id]
    BY <1>1, <1>6, <2>1 DEF AnswersExactly
  <2> QED
    BY <1>3, <2>1, <2>2 DEF StampsStay
<1> QED
  BY <1>1, <1>5, <1>6 DEF AnswersExactly

(***************************************************************************)
(* A handler that does not move keeps an exact read of an order that       *)
(* grows.                                                                  *)
(***************************************************************************)
LEMMA ReadsStay ==
  ASSUME IndInv, IndInv', Grown, NEW t \in Handlers, Stays(t), HandlerIsExact(t)
  PROVE  HandlerIsExact(t)'
<1>1. Waits(t)' => sent'[t].order = Target(t)'
  BY DEF HandlerIsExact, Waits, Stays, Target
<1>2. ASSUME pc[t] \in {"query", "show", "evaluate"},
             loaded[t].version = orders'[Target(t)].version
      PROVE  orders'[Target(t)] = orders[Target(t)]
  <2>1. LoadInPlace(t) /\ RequestInPlace(t) /\ loaded[t] \in Order
    BY <1>2 DEF IndInv, TypeOK, LoadInPlace
  <2>2. /\ Target(t) \in OrderIds /\ orders[Target(t)] # None
        /\ loaded[t].version <= orders[Target(t)].version /\ loaded[t].version \in Nat
    BY <1>2, <2>1
       DEF LoadInPlace, IsReading, RequestInPlace, RequestRecord, Target, Order
  <2>3. orders[Target(t)].version \in Nat
    BY <2>2, StoredIsTyped
  <2> QED
    BY <1>2, <2>2, <2>3 DEF Grown
<1>3. ReadsExactly(t)'
  BY <1>2 DEF HandlerIsExact, ReadsExactly, Stays, Target
<1> QED
  BY <1>1, <1>3 DEF HandlerIsExact

(***************************************************************************)
(* An order that is left alone keeps its history in the order of its       *)
(* times.                                                                  *)
(***************************************************************************)
LEMMA InOrderStays ==
  ASSUME IndInv, StampsStay, NEW o \in OrderIds, orders'[o] = orders[o], InOrder(o)
  PROVE  InOrder(o)'
<1> SUFFICES ASSUME orders[o] # None
             PROVE  InOrder(o)'
  BY DEF InOrder
<1>1. \A n \in 1 .. Len(orders[o].history) : orders[o].history[n].id \in tokens
  BY StoredIsTyped DEF IndInv, HistoryInPlace, Range
<1> QED
  BY <1>1 DEF InOrder, StampsStay

\* The table only grows, and the state and the answers of the calls that were
\* pending are exact again.
StepIsExact == Grown /\ ExactInv' /\ \A c \in Pending : AnswersExactly(c)'

(***************************************************************************)
(* A step is exact if the histories it leaves, the calls it sends and the  *)
(* handlers it moves are.                                                  *)
(***************************************************************************)
LEMMA RestIsExact ==
  ASSUME IndInv, IndInv', ExactInv, Grown, ClockFits',
         \A o \in OrderIds : InOrder(o)',
         \A c \in Pending : AnswersExactly(c)',
         \A c \in Pending' :
           \/ c \in Pending
           \/ /\ AnswersExactly(c)'
              /\ \A d \in Pending' : IsRepeatOf(c, d) /\ IsRepeatOf(d, c),
         \A u \in Handlers : Stays(u) \/ pc'[u] = "idle" \/ HandlerIsExact(u)'
  PROVE  StepIsExact
<1>1. ASSUME NEW u \in Handlers
      PROVE  HandlerIsExact(u)'
  <2>1. CASE Stays(u)
    BY <2>1, ReadsStay DEF ExactInv
  <2>2. CASE pc'[u] = "idle"
    BY <2>2 DEF HandlerIsExact, ReadsExactly, Waits
  <2> QED
    BY <2>1, <2>2
<1>2. \A c, d \in Pending' : IsRepeatOf(c, d)
  BY DEF ExactInv
<1>3. \A c \in Pending' : AnswersExactly(c)'
  OBVIOUS
<1>4. \A c, d : IsRepeatOf(c, d)' <=> IsRepeatOf(c, d)
  BY DEF IsRepeatOf
<1> QED
  BY <1>1, <1>2, <1>3, <1>4 DEF ExactInv, StepIsExact

(***************************************************************************)
(* A step that leaves the events and the clock alone.                      *)
(***************************************************************************)
LEMMA StillExact ==
  ASSUME IndInv, IndInv', ExactInv, UNCHANGED <<orders, tokens, stamp>>, issued <= issued',
         \A c \in Pending' :
           \/ c \in Pending
           \/ /\ AnswersExactly(c)
              /\ \A d \in Pending' : IsRepeatOf(c, d) /\ IsRepeatOf(d, c),
         \A u \in Handlers :
           \/ Stays(u) \/ pc'[u] = "idle"
           \/ HandlerIsExact(u)' /\ (pc'[u] \in LoadSteps => (stamp[Id(u)] = 0)')
  PROVE  StepIsExact
<1>1. Grown /\ StampsStay
  BY DEF Grown, StampsStay
<1>2. ClockFits'
  <2>1. Now' = Now
    BY DEF Now
  <2>2. \A u \in Handlers : pc'[u] \in LoadSteps => (stamp[Id(u)] = 0)'
    BY DEF ExactInv, ClockFits, Stays, Id, LoadSteps
  <2>3. \A i \in RequestIds : i > issued' => i > issued
    BY HandlersAssumption DEF IndInv, TypeOK, RequestIds
  <2> QED
    BY <2>1, <2>2, <2>3 DEF ExactInv, ClockFits, LoadSteps
<1>3. \A o \in OrderIds : InOrder(o)'
  BY <1>1, InOrderStays DEF ExactInv
<1>4. \A c : AnswersExactly(c)' <=> AnswersExactly(c)
  BY DEF AnswersExactly
<1> QED
  BY <1>1, <1>2, <1>3, <1>4, RestIsExact DEF ExactInv

(***************************************************************************)
(* No step that sends nothing adds a call.                                 *)
(***************************************************************************)
LEMMA PendingShrinks ==
  ASSUME network' \subseteq network,
         \A u \in Handlers : Stays(u) \/ pc'[u] \notin {"put", "transact"}
  PROVE  Pending' \subseteq Pending
<1>1. ASSUME NEW u \in Handlers, Waits(u)'
      PROVE  Waits(u) /\ sent'[u] = sent[u]
  BY <1>1 DEF Waits, Stays
<1> QED
  BY <1>1 DEF Pending

-----------------------------------------------------------------------------
(* Each step *)

(***************************************************************************)
(* Taking up a request, with a put if it creates, is exact.                *)
(***************************************************************************)
LEMMA ReceiveIsExact ==
  ASSUME IndInv, IndInv', ExactInv, NEW t \in Handlers, ReceiveSome(t)
  PROVE  StepIsExact
<1>1. PICK o \in OrderIds :
        \/ \E amount \in Amounts, count \in ProductCounts : ReceiveCreate(t, o, amount, count)
        \/ ReceiveGet(t, o) \/ \E body \in Requests : ReceiveApply(t, o, body)
  BY DEF ReceiveSome
<1>2. PICK operation, body : Receive(t, operation, o, body)
  BY <1>1 DEF ReceiveCreate, ReceiveGet, ReceiveApply
<1>3. /\ UNCHANGED <<orders, tokens, stamp>> /\ issued' = issued + 1
      /\ request' = [request EXCEPT ![t] =
           [operation |-> operation, order |-> o, body |-> body, id |-> issued + 1]]
      /\ issued \in Nat /\ issued + 1 \in RequestIds
  BY <1>2, HandlersAssumption DEF Receive, table, IndInv, TypeOK, RequestIds
<1>4. Target(t)' = o /\ Id(t)' = issued + 1
  BY <1>3 DEF Target, Id, IndInv, TypeOK
<1>5. stamp'[issued + 1] = 0
  BY <1>3 DEF ExactInv, ClockFits
<1>6. CASE ReceiveGet(t, o) \/ \E b \in Requests : ReceiveApply(t, o, b)
  <2>1. pc' = [pc EXCEPT ![t] = "getItem"] /\ UNCHANGED <<network, loaded, sent>>
    BY <1>6 DEF ReceiveGet, ReceiveApply, Goto
  <2>2. pc'[t] = "getItem" /\ \A u \in Handlers : u # t => Stays(u)
    BY <1>3, <2>1 DEF Stays, IndInv, TypeOK
  <2>3. HandlerIsExact(t)'
    BY <2>2 DEF HandlerIsExact, ReadsExactly, Waits
  <2>4. Pending' \subseteq Pending
    BY <2>1, <2>2, PendingShrinks
  <2> QED
    BY <1>3, <1>4, <1>5, <2>2, <2>3, <2>4, StillExact
<1>7. ASSUME NEW amount \in Amounts, NEW count \in ProductCounts,
             ReceiveCreate(t, o, amount, count)
      PROVE  StepIsExact
  <2>1. PICK call : call = PutCall(issued + 1, o, NewOrder(amount, count))
    OBVIOUS
  <2>2. /\ pc' = [pc EXCEPT ![t] = "put"] /\ loaded' = loaded
        /\ network' = network \cup {call} /\ sent' = [sent EXCEPT ![t] = call]
    BY <1>7, <2>1 DEF ReceiveCreate, Goto, Send
  <2>3. /\ call.type = "put" /\ call.id = issued + 1 /\ call.order = o
    BY <2>1 DEF PutCall
  <2>4. pc'[t] = "put" /\ sent'[t] = call /\ \A u \in Handlers : u # t => Stays(u)
    BY <1>3, <2>2 DEF Stays, IndInv, TypeOK
  <2>5. HandlerIsExact(t)'
    BY <1>4, <2>3, <2>4 DEF HandlerIsExact, ReadsExactly
  <2>6. \A c \in Pending' : c \in Pending \/ c = call
    BY <2>2, <2>4 DEF Pending, Waits, Stays
  <2>7. \A c \in Pending : c.id # issued + 1
    BY <1>3, PendingIsPlaced DEF RequestIds
  <2>8. \A c \in Pending' : IsRepeatOf(call, c) /\ IsRepeatOf(c, call)
    BY <2>3, <2>6, <2>7 DEF IsRepeatOf
  <2>9. AnswersExactly(call)
    BY <2>3 DEF AnswersExactly
  <2>10. \A u \in Handlers : u # t => Stays(u)
    BY <2>4
  <2>11. pc'[t] \notin LoadSteps
    BY <2>4 DEF LoadSteps
  <2> QED
    BY <1>3, <2>5, <2>6, <2>8, <2>9, <2>10, <2>11, StillExact
<1> QED
  BY <1>1, <1>6, <1>7

\* A handler that answers, or a call that is executed and changes nothing.
LEMMA LeavingIsExact ==
  ASSUME IndInv, IndInv', ExactInv, UNCHANGED <<orders, tokens, stamp>>, issued' = issued,
         network' \subseteq network,
         \A u \in Handlers : Stays(u) \/ pc'[u] = "idle"
  PROVE  StepIsExact
<1>1. Pending' \subseteq Pending
  BY PendingShrinks
<1>2. issued <= issued'
  BY HandlersAssumption DEF IndInv, TypeOK
<1> QED
  BY <1>1, <1>2, StillExact

(***************************************************************************)
(* Reading the order item is exact. (get_by_id.)                           *)
(***************************************************************************)
LEMMA GetItemIsExact ==
  ASSUME IndInv, IndInv', ExactInv, NEW t \in Handlers, GetItem(t)
  PROVE  StepIsExact
<1>1. pc[t] = "getItem" /\ UNCHANGED <<orders, tokens, stamp, network>>
  BY DEF GetItem, table
<1>2. CASE orders[Target(t)] = None
  <2>1. Answer(t, "notFound")
    BY <1>2 DEF GetItem
  <2>2. issued' = issued /\ \A u \in Handlers : Stays(u) \/ pc'[u] = "idle"
    BY <1>1, <2>1, AnswerLeaves
  <2> QED
    BY <1>1, <2>2, LeavingIsExact
<1>3. CASE orders[Target(t)] # None
  <2>1. /\ loaded' = [loaded EXCEPT ![t] = [orders[Target(t)] EXCEPT !.history = <<>>]]
        /\ pc' = [pc EXCEPT ![t] = "query"]
        /\ UNCHANGED <<request, sent, issued>>
    BY <1>3 DEF GetItem, Goto, clients
  <2>2. /\ Target(t)' = Target(t) /\ Id(t)' = Id(t) /\ pc'[t] = "query"
        /\ \A u \in Handlers : u # t => Stays(u)
    BY <2>1 DEF Target, Id, Stays, IndInv, TypeOK
  <2>3. Target(t) \in OrderIds
    BY <1>1 DEF IndInv, RequestInPlace, RequestRecord, Target
  <2>4. PICK o : o = orders[Target(t)]
    OBVIOUS
  <2>5. o \in Order
    BY <1>3, <2>3, <2>4 DEF IndInv, TypeOK
  <2>6. loaded'[t].history = <<>>
    BY <2>1, <2>4, <2>5 DEF Order, IndInv, TypeOK
  <2>7. HandlerIsExact(t)'
    <3>1. /\ Len(loaded'[t].history) = 0
          /\ \A n \in 1 .. Len(loaded'[t].history) : FALSE
      BY <2>6
    <3>2. Len(orders'[Target(t)].history) \in Nat
      BY <1>1, <2>4, <2>5 DEF Order
    <3> QED
      BY <2>2, <3>1, <3>2 DEF HandlerIsExact, ReadsExactly, Waits
  <2>8. (stamp[Id(t)] = 0)'
    BY <1>1, <2>2 DEF ExactInv, ClockFits
  <2>9. Pending' \subseteq Pending
    BY <1>1, <2>2, PendingShrinks
  <2>10. issued <= issued'
    BY <2>1, HandlersAssumption DEF IndInv, TypeOK
  <2> QED
    BY <1>1, <2>2, <2>7, <2>8, <2>9, <2>10, StillExact
<1> QED
  BY <1>2, <1>3

(***************************************************************************)
(* Reading a page of events is exact: of an order that has not moved it is *)
(* the next part of the history. (get_by_id.)                              *)
(***************************************************************************)
LEMMA QueryEventsIsExact ==
  ASSUME IndInv, IndInv', ExactInv, NEW t \in Handlers, QueryEvents(t)
  PROVE  StepIsExact
<1>1. /\ pc[t] = "query" /\ UNCHANGED <<orders, tokens, stamp, network, request, sent, issued>>
  BY DEF QueryEvents, table, clients
<1>2. PICK page \in Pages(t), step \in {"query", "show", "evaluate"} :
        /\ loaded' = [loaded EXCEPT ![t].history = @ \o page]
        /\ pc' = [pc EXCEPT ![t] = step]
        /\ step # "query" => IsLastPage(page)
  <2>1. RequestInPlace(t)
    BY DEF IndInv
  <2>2. request[t].operation \in {"get", "apply"}
    BY <1>1, <2>1 DEF RequestInPlace, RequestRecord
  <2> QED
    BY <1>1, <2>2 DEF QueryEvents, Goto
<1>3. PICK o, h, done, read : /\ o = Target(t) /\ h = orders[o].history
                              /\ done = loaded[t].history /\ read = done \o page
  OBVIOUS
<1>4. /\ o \in OrderIds /\ orders[o] # None /\ loaded[t] \in Order
      /\ h \in Seq(Entry) /\ done \in Seq(Entry)
  <2>1. RequestInPlace(t) /\ LoadInPlace(t) /\ loaded[t] \in Order
    BY <1>1 DEF IndInv, TypeOK, LoadInPlace
  <2>2. o \in OrderIds /\ orders[o] # None
    BY <1>1, <1>3, <2>1 DEF RequestInPlace, RequestRecord, Target, LoadInPlace, IsReading
  <2>3. h \in Seq(Entry) /\ done \in Seq(Entry)
    BY <1>3, <2>1, <2>2, StoredIsTyped DEF Order
  <2> QED
    BY <2>1, <2>2, <2>3
<1>5. page \in Seq(Entry)
  <2>1. PICK k \in 0 .. PageSize : page \in [1 .. k -> Unread(t)]
    BY DEF Pages, SeqOf
  <2>2. Unread(t) \subseteq Range(h) /\ Range(h) \subseteq Entry
    BY <1>3, <1>4 DEF Unread, Range
  <2> QED
    BY <2>1, <2>2, HandlersAssumption
<1>6. /\ pc'[t] = step /\ Target(t)' = o /\ Id(t)' = Id(t)
      /\ loaded'[t].version = loaded[t].version /\ loaded'[t].history = read
      /\ \A u \in Handlers : u # t => Stays(u)
  <2>1. loaded'[t] = [loaded[t] EXCEPT !.history = read]
    BY <1>2, <1>3 DEF IndInv, TypeOK
  <2>2. PICK old, new : old = loaded[t] /\ new = loaded'[t]
    OBVIOUS
  <2>3. new.version = old.version /\ new.history = read
    BY <1>4, <2>1, <2>2 DEF Order
  <2> QED
    BY <1>1, <1>2, <1>3, <2>2, <2>3 DEF Target, Id, Stays, IndInv, TypeOK
<1>7. ASSUME loaded[t].version = orders[o].version
      PROVE  /\ Len(read) <= Len(h) /\ \A n \in 1 .. Len(read) : read[n] = h[n]
             /\ step # "query" => Len(read) = Len(h)
  <2>1. InOrder(o) /\ ReadsExactly(t)
    BY <1>4 DEF ExactInv, HandlerIsExact
  <2>2. /\ Len(done) + Len(page) <= Len(h)
        /\ \A n \in 1 .. Len(page) : page[n] = h[Len(done) + n]
        /\ IsLastPage(page) => Len(done) + Len(page) = Len(h)
    BY <1>1, <1>3, <1>7, <2>1, PageContinues
  <2>3. \A n \in 1 .. Len(done) : done[n] = h[n]
    BY <1>1, <1>3, <1>7, <2>1 DEF ReadsExactly
  <2>4. /\ Len(read) = Len(done) + Len(page) /\ Len(done) \in Nat /\ Len(page) \in Nat
        /\ \A n \in 1 .. Len(done) + Len(page) :
             read[n] = IF n <= Len(done) THEN done[n] ELSE page[n - Len(done)]
    BY <1>3, <1>4, <1>5
  <2>5. ASSUME NEW n \in 1 .. Len(read)
        PROVE  read[n] = h[n]
    <3>1. CASE n <= Len(done)
      BY <2>3, <2>4, <3>1
    <3>2. CASE n > Len(done)
      <4>1. n - Len(done) \in 1 .. Len(page) /\ Len(done) + (n - Len(done)) = n
        BY <2>4, <3>2
      <4>2. read[n] = page[n - Len(done)]
        BY <2>4, <3>2
      <4> QED
        BY <2>2, <4>1, <4>2
    <3> QED
      BY <2>4, <3>1, <3>2
  <2> QED
    BY <1>2, <2>2, <2>4, <2>5
<1>8. HandlerIsExact(t)'
  BY <1>1, <1>2, <1>3, <1>6, <1>7 DEF HandlerIsExact, ReadsExactly, Waits
<1>9. (stamp[Id(t)] = 0)'
  BY <1>1, <1>6 DEF ExactInv, ClockFits
<1>10. Pending' \subseteq Pending
  BY <1>1, <1>2, <1>6, PendingShrinks
<1>11. issued <= issued'
  BY <1>1, HandlersAssumption DEF IndInv, TypeOK
<1> QED
  BY <1>1, <1>6, <1>8, <1>9, <1>10, <1>11, StillExact

(***************************************************************************)
(* A handler that answers without a commit is exact.                       *)
(***************************************************************************)
LEMMA AnswersAreExact ==
  ASSUME IndInv, IndInv', ExactInv, NEW t \in Handlers,
         FinishGet(t) \/ RefuseTransition(t) \/ RefuseOverrides(t) \/ Fail(t)
  PROVE  StepIsExact
<1>1. PICK status : Answer(t, status)
  BY DEF FinishGet, RefuseTransition, RefuseOverrides, Fail, Refuse
<1>2. pc[t] # "idle" /\ UNCHANGED <<orders, tokens, stamp, network>>
  BY DEF FinishGet, RefuseTransition, RefuseOverrides, Fail, Refuse, table
<1>3. issued' = issued /\ \A u \in Handlers : Stays(u) \/ pc'[u] = "idle"
  BY <1>1, <1>2, AnswerLeaves
<1> QED
  BY <1>2, <1>3, LeavingIsExact

(***************************************************************************)
(* Sending a call again is exact: the repeat carries what the call does.   *)
(* (boto3's retries.)                                                      *)
(***************************************************************************)
LEMMA ResendIsExact ==
  ASSUME IndInv, IndInv', ExactInv, NEW t \in Handlers, Resend(t)
  PROVE  StepIsExact
<1>1. PICK old, call : old = sent[t] /\ call = [sent[t] EXCEPT !.attempt = @ + 1]
  OBVIOUS
<1>2. /\ Waits(t) /\ network' = network \cup {call} /\ sent' = [sent EXCEPT ![t] = call]
      /\ UNCHANGED <<orders, tokens, stamp, pc, request, loaded, issued>>
  BY <1>1 DEF Resend, Send, table, clients
<1>3. old \in Pending
  BY <1>1, <1>2 DEF Pending
<1>4. /\ call.type = old.type /\ call.id = old.id /\ call.order = old.order
      /\ call.item = old.item
      /\ old.type = "transact" => call.entry = old.entry /\ call.expected = old.expected
  <2>1. CallInPlace(old)
    BY <1>3, PendingIsPlaced
  <2> QED
    BY <1>1, <2>1 DEF CallInPlace, PutInPlace, TransactionInPlace
<1>5. sent'[t] = call /\ \A u \in Handlers : u # t => Stays(u)
  BY <1>2 DEF Stays, IndInv, TypeOK
<1>6. AnswersExactly(call)
  <2>1. AnswersExactly(old)
    BY <1>3 DEF ExactInv
  <2> QED
    BY <1>4, <2>1 DEF AnswersExactly
<1>7. \A c \in Pending' : c \in Pending \/ c = call
  BY <1>2, <1>5 DEF Pending, Waits, Stays
<1>8. \A c \in Pending' : IsRepeatOf(call, c) /\ IsRepeatOf(c, call)
  <2>1. \A c \in Pending : IsRepeatOf(old, c) /\ IsRepeatOf(c, old)
    BY <1>3 DEF ExactInv
  <2>2. \A c \in Pending : IsRepeatOf(call, c) /\ IsRepeatOf(c, call)
    BY <1>4, <2>1 DEF IsRepeatOf
  <2> QED
    BY <1>7, <2>2 DEF IsRepeatOf
<1>9. HandlerIsExact(t)' /\ pc'[t] \notin LoadSteps
  <2>1. HandlerIsExact(t) /\ pc'[t] \in {"put", "transact"}
    BY <1>2 DEF ExactInv, Waits
  <2>2. sent'[t].order = Target(t)'
    BY <1>1, <1>2, <1>4, <1>5, <2>1 DEF HandlerIsExact, Target
  <2> QED
    BY <2>1, <2>2 DEF HandlerIsExact, ReadsExactly, LoadSteps
<1>10. issued <= issued'
  BY <1>2, HandlersAssumption DEF IndInv, TypeOK
<1> QED
  BY <1>2, <1>5, <1>6, <1>7, <1>8, <1>9, <1>10, StillExact

(***************************************************************************)
(* A clock that agrees with the others never shows the same time twice.    *)
(***************************************************************************)
LEMMA ClockTicks ==
  ASSUME NEW i \in RequestIds, stamp \in [RequestIds -> Nat], stamp[i] = 0,
         stamp' = [stamp EXCEPT ![i] = Now]
  PROVE  Now \in Nat /\ Now > 0 /\ Now' = Now + 1
<1>1. PICK built, later : /\ built = {j \in RequestIds : stamp[j] # 0}
                          /\ later = {j \in RequestIds : stamp'[j] # 0}
  OBVIOUS
<1>2. IsFiniteSet(built)
  <2>1. IsFiniteSet(RequestIds) /\ built \in SUBSET RequestIds
    BY <1>1, HandlersAssumption, FS_Interval DEF RequestIds
  <2> QED
    BY <2>1, FS_Subset
<1>3. Cardinality(built) \in Nat /\ Now = 1 + Cardinality(built)
      /\ Now' = 1 + Cardinality(later)
  BY <1>1, <1>2, FS_CardinalityType DEF Now
<1>4. Now > 0 /\ Now \in Nat /\ Now # 0
  BY <1>3
<1>5. later = built \cup {i} /\ i \notin built
  BY <1>1, <1>4
<1>6. Cardinality(later) = Cardinality(built) + 1
  BY <1>2, <1>5, FS_AddElement
<1> QED
  BY <1>3, <1>4, <1>6

(***************************************************************************)
(* The call of an accepted event carries the whole history of an order     *)
(* that has not moved since it was read, and one more event, later than    *)
(* the others. (apply_event.)                                              *)
(***************************************************************************)
LEMMA EvaluateEventIsExact ==
  ASSUME MaxSkew = 0, IndInv, IndInv', ExactInv, NEW t \in Handlers, EvaluateEvent(t)
  PROVE  StepIsExact
<1>1. PICK i : i = Id(t)
  OBVIOUS
<1>2. /\ pc[t] = "evaluate" /\ UNCHANGED <<orders, tokens>>
      /\ RequestInPlace(t) /\ i \in RequestIds /\ i <= issued /\ i \notin tokens
      /\ stamp \in [RequestIds -> Nat] /\ stamp[i] = 0 /\ pc[t] \in LoadSteps
  <2>1. pc[t] = "evaluate" /\ UNCHANGED <<orders, tokens>>
    BY DEF EvaluateEvent, table
  <2>2. RequestInPlace(t) /\ SentInPlace(t) /\ stamp \in [RequestIds -> Nat]
    BY DEF IndInv, TypeOK
  <2>3. i \in RequestIds /\ i <= issued /\ i \notin tokens
    BY <1>1, <2>1, <2>2 DEF RequestInPlace, RequestRecord, SentInPlace, Id
  <2>4. stamp[i] = 0
    BY <1>1, <2>1 DEF ExactInv, ClockFits
  <2> QED
    BY <2>1, <2>2, <2>3, <2>4 DEF LoadSteps
<1>3. stamp' = [stamp EXCEPT ![i] = Now]
  <2>1. PICK skew \in 0 .. MaxSkew : stamp' = [stamp EXCEPT ![Id(t)] = Now + skew]
    BY DEF EvaluateEvent
  <2>2. skew = 0 /\ Now + skew = Now
    BY NowIsNat
  <2> QED
    BY <1>1, <2>1, <2>2
<1>4. Now \in Nat /\ Now > 0 /\ Now' = Now + 1
  BY <1>2, <1>3, ClockTicks
<1>5. stamp'[i] = Now /\ \A j \in RequestIds : j # i => stamp'[j] = stamp[j]
  BY <1>2, <1>3
<1>6. Grown /\ StampsStay
  BY <1>2, <1>5 DEF Grown, StampsStay, IndInv, TypeOK
<1>7. \A o \in OrderIds : InOrder(o)'
  BY <1>2, <1>6, InOrderStays DEF ExactInv
<1>8. ASSUME NEW c \in Pending
      PROVE  AnswersExactly(c)' /\ c.id # i
  <2>1. CallInPlace(c) /\ c.id \in RequestIds /\ c.id # i /\ AnswersExactly(c)
    BY <1>1, <1>2, PendingIsPlaced DEF ExactInv
  <2> QED
    BY <1>2, <1>5, <1>6, <2>1, AnswersStay
<1>9. ASSUME issued' = issued, pc'[t] \notin LoadSteps,
             \A u \in Handlers : u # t => Stays(u)
      PROVE  ClockFits'
  <2>1. ASSUME NEW j \in RequestIds
        PROVE  stamp'[j] < Now' /\ (j > issued' => stamp'[j] = 0)
    <3>1. stamp[j] < Now /\ (j > issued => stamp[j] = 0) /\ stamp[j] \in Nat
      BY <1>2 DEF ExactInv, ClockFits
    <3>2. CASE j = i
      <4>1. ~(j > issued')
        BY <1>2, <1>9, <3>2, HandlersAssumption DEF RequestIds, IndInv, TypeOK
      <4> QED
        BY <1>4, <1>5, <3>2, <4>1
    <3>3. CASE j # i
      BY <1>4, <1>5, <1>9, <3>1, <3>3
    <3> QED
      BY <3>2, <3>3
  <2>2. ASSUME NEW u \in Handlers, pc'[u] \in LoadSteps
        PROVE  (stamp[Id(u)] = 0)'
    <3>1. u # t /\ Stays(u) /\ pc[u] \in LoadSteps /\ Id(u)' = Id(u)
      BY <1>9, <2>2 DEF Stays, Id
    <3>2. Id(u) # i /\ Id(u) \in RequestIds /\ stamp[Id(u)] = 0
      <4>1. RequestInPlace(u) /\ pc[u] # "idle"
        BY <3>1 DEF IndInv, LoadSteps
      <4>2. Id(u) \in RequestIds /\ stamp[Id(u)] = 0
        BY <3>1, <4>1 DEF RequestInPlace, RequestRecord, Id, ExactInv, ClockFits, LoadSteps
      <4> QED
        BY <1>1, <1>2, <3>1, <4>1, <4>2 DEF RequestInPlace
    <3> QED
      BY <1>5, <3>1, <3>2
  <2> QED
    BY <2>1, <2>2 DEF ClockFits, LoadSteps
<1>10. CASE ~IsStorable(FinalAmount(Evaluation(t)))
  <2>1. Answer(t, "unstorable") /\ UNCHANGED network
    BY <1>10 DEF EvaluateEvent
  <2>2. /\ pc'[t] = "idle" /\ issued' = issued
        /\ \A u \in Handlers : Stays(u) \/ pc'[u] = "idle"
    BY <1>2, <2>1, AnswerLeaves
  <2>3. \A u \in Handlers : u # t => Stays(u)
    BY <2>1 DEF Answer, Goto, Stays, IndInv, TypeOK
  <2>4. ClockFits'
    BY <1>9, <2>2, <2>3 DEF LoadSteps
  <2>5. Pending' \subseteq Pending
    BY <2>1, <2>2, PendingShrinks
  <2> QED
    BY <1>6, <1>7, <1>8, <2>2, <2>4, <2>5, RestIsExact
<1>11. CASE IsStorable(FinalAmount(Evaluation(t)))
  <2>1. PICK call, context, o :
          /\ context = Evaluation(t) /\ o = Target(t) /\ call = TransactCall(i, o, context)
    OBVIOUS
  <2>2. /\ network' = network \cup {call} /\ sent' = [sent EXCEPT ![t] = call]
        /\ loaded' = [loaded EXCEPT ![t] = None] /\ pc' = [pc EXCEPT ![t] = "transact"]
        /\ UNCHANGED <<request, issued>>
    BY <1>1, <1>11, <2>1 DEF EvaluateEvent, Send, Goto, clients
  <2>3. /\ pc'[t] = "transact" /\ sent'[t] = call /\ Target(t)' = o
        /\ \A u \in Handlers : u # t => Stays(u)
    BY <2>1, <2>2 DEF IndInv, TypeOK, Stays, Target
  <2>4. ClockFits'
    BY <1>9, <2>2, <2>3 DEF LoadSteps
  <2>5. PICK item, entry : item = UpdatedOrder(i, context) /\ entry = EventEntry(i, context)
    OBVIOUS
  <2>6. /\ call.type = "transact" /\ call.id = i /\ call.order = o
        /\ call.expected = context.order.version
        /\ call.item = item /\ call.entry = entry
    BY <2>1, <2>5 DEF TransactCall
  <2>7. context.order = loaded[t] /\ item.history = Append(loaded[t].history, entry)
    BY <2>1, <2>5 DEF Evaluation, Context, UpdatedOrder
  <2>8. AnswersExactly(call)'
    <3>1. call.id \notin tokens'
      BY <1>2, <2>6
    <3>2. ASSUME call.expected = orders'[o].version
          PROVE  /\ item.history = Append(orders[o].history, entry)
                 /\ \A n \in 1 .. Len(orders[o].history) :
                      stamp'[orders[o].history[n].id] < stamp'[i]
      <4>1. PICK h, read : h = orders[o].history /\ read = loaded[t].history
        OBVIOUS
      <4>2. /\ o \in OrderIds /\ orders[o] # None
            /\ h \in Seq(Entry) /\ read \in Seq(Entry)
            /\ \A n \in 1 .. Len(h) : h[n].id \in tokens
        <5>1. LoadInPlace(t) /\ loaded[t] \in Order
          BY <1>2 DEF IndInv, TypeOK, LoadInPlace
        <5>2. o \in OrderIds /\ orders[o] # None
          BY <1>2, <2>1, <5>1
             DEF RequestInPlace, RequestRecord, Target, LoadInPlace, IsReading
        <5>3. h \in Seq(Entry) /\ read \in Seq(Entry)
          BY <4>1, <5>1, <5>2, StoredIsTyped DEF Order
        <5> QED
          BY <4>1, <5>2, <5>3 DEF IndInv, HistoryInPlace, Range
      <4>3. Len(read) = Len(h) /\ \A n \in 1 .. Len(read) : read[n] = h[n]
        BY <1>2, <2>1, <2>6, <2>7, <3>2, <4>1 DEF ExactInv, HandlerIsExact, ReadsExactly
      <4>4. read = h
        BY <4>2, <4>3
      <4>5. \A n \in 1 .. Len(h) : h[n].id \in RequestIds /\ h[n].id # i
        BY <1>2, <4>2 DEF IndInv, TypeOK
      <4>6. \A j \in RequestIds : stamp[j] < Now
        BY DEF ExactInv, ClockFits
      <4> QED
        BY <1>5, <2>7, <4>1, <4>4, <4>5, <4>6
    <3> QED
      BY <1>2, <2>6, <3>1, <3>2 DEF AnswersExactly
  <2>9. \A c \in Pending' : c \in Pending \/ c = call
    BY <2>2, <2>3 DEF Pending, Waits, Stays
  <2>10. \A c \in Pending' : IsRepeatOf(call, c) /\ IsRepeatOf(c, call)
    BY <1>8, <2>6, <2>9 DEF IsRepeatOf
  <2>11. HandlerIsExact(t)'
    BY <2>3, <2>6 DEF HandlerIsExact, ReadsExactly
  <2>12. \A c \in Pending : AnswersExactly(c)'
    BY <1>8
  <2>13. \A u \in Handlers : Stays(u) \/ HandlerIsExact(u)'
    BY <2>3, <2>11
  <2> QED
    BY <1>6, <1>7, <2>4, <2>8, <2>9, <2>10, <2>12, <2>13, RestIsExact
<1> QED
  BY <1>10, <1>11

(***************************************************************************)
(* Whoever is told the end of a call goes idle, and no one else moves.     *)
(***************************************************************************)
LEMMA ReplyLeaves ==
  ASSUME IndInv, NEW call, NEW status, Reply(call, status)
  PROVE  issued' = issued /\ \A u \in Handlers : Stays(u) \/ pc'[u] = "idle"
<1>1. CASE UNCHANGED <<handlers, clients>>
  BY <1>1 DEF handlers, clients, Stays
<1>2. ASSUME NEW t \in Handlers, Waits(t), Answer(t, status)
      PROVE  issued' = issued /\ \A u \in Handlers : Stays(u) \/ pc'[u] = "idle"
  <2>1. pc[t] # "idle"
    BY <1>2 DEF Waits
  <2> QED
    BY <1>2, <2>1, AnswerLeaves
<1> QED
  BY <1>1, <1>2 DEF Reply

\* An order that is opened has no call and no reader yet.
LEMMA ExecutePutIsExact ==
  ASSUME IndInv, IndInv', ExactInv, NEW call \in network, ExecutePut(call)
  PROVE  StepIsExact
<1>1. /\ call.type = "put" /\ network' \subseteq network /\ UNCHANGED <<tokens, stamp>>
      /\ call.order \in OrderIds /\ CallInPlace(call)
  BY CallTypes DEF ExecutePut, IndInv
<1>2. issued' = issued /\ \A u \in Handlers : Stays(u) \/ pc'[u] = "idle"
  BY ReplyLeaves DEF ExecutePut
<1>3. CASE ~KeyIsFree(call)
  <2>1. UNCHANGED orders
    BY <1>3 DEF ExecutePut
  <2> QED
    BY <1>1, <1>2, <2>1, LeavingIsExact
<1>4. CASE KeyIsFree(call)
  <2>1. PICK o : o = call.order
    OBVIOUS
  <2>2. /\ o \in OrderIds /\ orders[o] = None /\ orders'[o] = call.item
        /\ \A p \in OrderIds : p # o => orders'[p] = orders[p]
    BY <1>1, <1>4, <2>1 DEF ExecutePut, KeyIsFree, IndInv, TypeOK
  <2>3. Grown /\ StampsStay
    BY <1>1, <2>2 DEF Grown, StampsStay
  <2>4. call.item.history = <<>>
    BY <1>1 DEF CallInPlace, PutInPlace, NewOrder
  <2>5. ASSUME NEW p \in OrderIds
        PROVE  InOrder(p)'
    <3>1. CASE p = o
      <4>1. \A m \in 1 .. Len(orders'[p].history) : FALSE
        BY <2>2, <2>4, <3>1
      <4> QED
        BY <4>1 DEF InOrder
    <3>2. CASE p # o
      BY <2>2, <2>3, <3>2, InOrderStays DEF ExactInv
    <3> QED
      BY <3>1, <3>2
  <2>6. ASSUME NEW c \in Pending
        PROVE  AnswersExactly(c)'
    BY <1>1, <2>3, PendingIsPlaced, AnswersStay DEF ExactInv
  <2>7. Pending' \subseteq Pending
    BY <1>1, <1>2, PendingShrinks
  <2>8. ClockFits'
    <3>1. Now' = Now
      BY <1>1 DEF Now
    <3>2. \A u \in Handlers : pc'[u] \in LoadSteps => (stamp[Id(u)] = 0)'
      BY <1>1, <1>2 DEF ExactInv, ClockFits, Stays, Id, LoadSteps
    <3> QED
      BY <1>1, <1>2, <3>1, <3>2 DEF ExactInv, ClockFits, LoadSteps
  <2> QED
    BY <1>2, <2>3, <2>5, <2>6, <2>7, <2>8, RestIsExact
<1> QED
  BY <1>3, <1>4

(***************************************************************************)
(* The transaction that commits makes the history what its call answers,   *)
(* and the event it appends is the latest. (commit_transition.)            *)
(***************************************************************************)
LEMMA CommitIsExact ==
  ASSUME IndInv, IndInv', ExactInv, NEW call \in network, call.type = "transact",
         ~IsRepeated(call), OrderIsUnmoved(call), Commit(call), UNCHANGED stamp
  PROVE  /\ \A o \in OrderIds : InOrder(o)'
         /\ \A c \in Pending : AnswersExactly(c)'
<1>1. PICK o, i, h, told, later :
        /\ o = call.order /\ i = call.id /\ h = orders[o].history
        /\ told = call.item.history /\ later = orders'[o].history
  OBVIOUS
<1>2. /\ call \in Pending /\ o \in OrderIds /\ orders[o] # None /\ i \in RequestIds
      /\ i \notin tokens /\ tokens' = tokens \cup {i}
      /\ call.entry \in Entry /\ call.entry.id = i
      /\ call.expected = orders[o].version
  BY <1>1, PendingIsPlaced
     DEF Pending, IsRepeated, OrderIsUnmoved, Commit, CallInPlace, TransactionInPlace
<1>3. /\ h \in Seq(Entry) /\ Len(h) = orders[o].version /\ Len(h) \in Nat
      /\ \A n \in 1 .. Len(h) : h[n].id \in tokens
  BY <1>1, <1>2, StoredIsTyped DEF IndInv, HistoryInPlace, Range
<1>4. Grown
  BY CommitRecords
<1>5. /\ later = Append(h, call.entry) /\ orders'[o].version = call.item.version
      /\ orders'[o].version = orders[o].version + 1
      /\ \A p \in OrderIds : p # o => orders'[p] = orders[p]
  <2>1. PICK old, new : old = orders[o] /\ new = orders'[o]
    OBVIOUS
  <2>2. /\ new = [old EXCEPT !.state = call.item.state, !.amount = call.item.amount,
                             !.version = call.item.version,
                             !.history = Append(h, call.entry)]
        /\ \A p \in OrderIds : p # o => orders'[p] = orders[p]
    BY <1>1, <1>2, <2>1 DEF Commit, IndInv, TypeOK
  <2>3. old \in Order
    BY <1>2, <2>1 DEF IndInv, TypeOK
  <2>4. new.history = Append(h, call.entry) /\ new.version = call.item.version
    BY <2>2, <2>3 DEF Order
  <2>5. new.version = orders[o].version + 1
    <3>1. PICK body \in Requests :
            LET made == UpdatedOrder(i, Context(orders[o], body.event, body.metadata))
            IN /\ orders' = [orders EXCEPT ![o] = made]
               /\ made.version = orders[o].version + 1
      BY <1>1, CommitIsAccepted
    <3> QED
      BY <1>2, <2>1, <3>1 DEF IndInv, TypeOK
  <2> QED
    BY <1>1, <2>1, <2>2, <2>4, <2>5
<1>6. /\ told = Append(h, call.entry)
      /\ \A n \in 1 .. Len(h) : stamp[h[n].id] < stamp[i]
  <2>1. AnswersExactly(call)
    BY <1>2 DEF ExactInv
  <2> QED
    BY <1>1, <1>2, <2>1 DEF AnswersExactly
<1>7. /\ Len(later) = Len(h) + 1 /\ later[Len(h) + 1].id = i
      /\ \A n \in 1 .. Len(h) : later[n] = h[n]
  BY <1>2, <1>3, <1>5
<1>8. StampsStay
  BY <1>2 DEF StampsStay
<1>9. InOrder(o)'
  <2>1. ASSUME NEW m \in 1 .. Len(later), NEW n \in 1 .. Len(later), m < n
        PROVE  stamp[later[m].id] < stamp[later[n].id]
    <3>1. m \in 1 .. Len(h) /\ (n \in 1 .. Len(h) \/ n = Len(h) + 1)
      BY <1>3, <1>7, <2>1
    <3>2. \A a, b \in 1 .. Len(h) : a < b => stamp[h[a].id] < stamp[h[b].id]
      BY <1>1, <1>2 DEF ExactInv, InOrder
    <3> QED
      BY <1>6, <1>7, <2>1, <3>1, <3>2
  <2> QED
    BY <1>1, <2>1 DEF InOrder
<1>10. \A p \in OrderIds : p # o => InOrder(p)'
  BY <1>5, <1>8, InOrderStays DEF ExactInv
<1>11. ASSUME NEW c \in Pending
       PROVE  AnswersExactly(c)'
  <2>1. CallInPlace(c) /\ AnswersExactly(c) /\ IsRepeatOf(call, c)
    BY <1>2, PendingIsPlaced DEF ExactInv
  <2>2. CASE c.id # i
    BY <1>2, <1>4, <1>8, <2>1, <2>2, AnswersStay
  <2>3. CASE c.id = i
    <3>1. c.order = o /\ c.item = call.item
      BY <1>1, <2>1, <2>3 DEF IsRepeatOf
    <3>2. told = later /\ Len(later) = call.item.version /\ Len(later) \in Nat
      BY <1>3, <1>5, <1>6, <1>7
    <3>3. Len(told) <= Len(later) /\ \A n \in 1 .. Len(told) : told[n] = later[n]
      BY <3>2
    <3>4. c.id \in tokens'
      BY <1>2, <2>3
    <3> QED
      BY <1>1, <3>1, <3>2, <3>3, <3>4 DEF AnswersExactly
  <2> QED
    BY <2>2, <2>3
<1> QED
  BY <1>9, <1>10, <1>11

(***************************************************************************)
(* A transaction is exact: what it stores is what the call carries.        *)
(* (commit_transition.)                                                    *)
(***************************************************************************)
LEMMA ExecuteTransactionIsExact ==
  ASSUME IndInv, IndInv', ExactInv, NEW call \in network, ExecuteTransaction(call)
  PROVE  StepIsExact
<1>1. call.type = "transact" /\ network' \subseteq network /\ UNCHANGED stamp
  BY DEF ExecuteTransaction
<1>2. issued' = issued /\ \A u \in Handlers : Stays(u) \/ pc'[u] = "idle"
  BY ReplyLeaves DEF ExecuteTransaction
<1>3. CASE UNCHANGED table
  <2>1. UNCHANGED <<orders, tokens>>
    BY <1>3 DEF table
  <2> QED
    BY <1>1, <1>2, <2>1, LeavingIsExact
<1>4. CASE ~IsRepeated(call) /\ OrderIsUnmoved(call) /\ Commit(call)
  <2>1. Grown
    BY <1>1, <1>4, CommitRecords
  <2>2. /\ \A o \in OrderIds : InOrder(o)'
        /\ \A c \in Pending : AnswersExactly(c)'
    BY <1>1, <1>4, CommitIsExact
  <2>3. Pending' \subseteq Pending
    BY <1>1, <1>2, PendingShrinks
  <2>4. ClockFits'
    <3>1. Now' = Now
      BY <1>1 DEF Now
    <3>2. \A u \in Handlers : pc'[u] \in LoadSteps => (stamp[Id(u)] = 0)'
      BY <1>1, <1>2 DEF ExactInv, ClockFits, Stays, Id, LoadSteps
    <3> QED
      BY <1>1, <1>2, <3>1, <3>2 DEF ExactInv, ClockFits, LoadSteps
  <2> QED
    BY <1>2, <2>1, <2>2, <2>3, <2>4, RestIsExact
<1> QED
  BY <1>3, <1>4 DEF ExecuteTransaction

(***************************************************************************)
(* A cancelled transaction is exact.                                       *)
(***************************************************************************)
LEMMA CancelTransactionIsExact ==
  ASSUME IndInv, IndInv', ExactInv, NEW call \in network, CancelTransaction(call)
  PROVE  StepIsExact
<1>1. UNCHANGED <<orders, tokens, stamp>> /\ network' \subseteq network
  BY DEF CancelTransaction, table
<1>2. issued' = issued /\ \A u \in Handlers : Stays(u) \/ pc'[u] = "idle"
  BY ReplyLeaves DEF CancelTransaction
<1> QED
  BY <1>1, <1>2, LeavingIsExact

-----------------------------------------------------------------------------
(* The invariant, and what an applied event answers *)

(***************************************************************************)
(* The empty table is exact.                                               *)
(***************************************************************************)
LEMMA InitExactInv == Init => ExactInv
<1> SUFFICES ASSUME Init
             PROVE  ExactInv
  OBVIOUS
<1>1. Now = 1
  <2>1. {i \in RequestIds : stamp[i] # 0} = {}
    BY DEF Init
  <2>2. Cardinality({}) = 0
    BY FS_EmptySet
  <2> QED
    BY <2>1, <2>2 DEF Now
<1>2. Pending = {}
  BY DEF Init, Pending, Waits
<1> QED
  BY <1>1, <1>2
     DEF Init, ExactInv, ClockFits, InOrder, HandlerIsExact, ReadsExactly, Waits

(***************************************************************************)
(* Every step is exact where the clocks agree.                             *)
(***************************************************************************)
LEMMA NextIsExact ==
  ASSUME MaxSkew = 0, IndInv, IndInv', ExactInv, [Next]_vars
  PROVE  StepIsExact
<1>1. ASSUME NEW t \in Handlers, Proceed(t)
      PROVE  StepIsExact
  BY <1>1, GetItemIsExact, QueryEventsIsExact, AnswersAreExact, EvaluateEventIsExact,
     ResendIsExact DEF Proceed
<1>2. ASSUME NEW call \in network, Execute(call)
      PROVE  StepIsExact
  BY <1>2, ExecutePutIsExact, ExecuteTransactionIsExact, CancelTransactionIsExact
     DEF Execute
<1>3. CASE UNCHANGED vars
  <2>1. UNCHANGED <<orders, tokens, stamp, network, pc, request, loaded, sent, issued>>
    BY <1>3 DEF vars, table, handlers, clients
  <2>2. \A u \in Handlers : Stays(u)
    BY <2>1 DEF Stays
  <2> QED
    BY <2>1, <2>2, LeavingIsExact
<1> QED
  BY <1>1, <1>2, <1>3, ReceiveIsExact DEF Next, Exhausted

(***************************************************************************)
(* Reads, calls and histories fit together throughout, if no clock runs    *)
(* ahead: what ExactInv says of them.                                      *)
(***************************************************************************)
THEOREM ExactInvariance ==
  ASSUME MaxSkew = 0
  PROVE  Spec => []ExactInv
<1>1. IndInv /\ ExactInv /\ [Next]_vars => ExactInv'
  BY NextIndInv, NextIsExact DEF StepIsExact
<1> QED
  BY <1>1, InitExactInv, Invariance, PTL DEF Spec

(***************************************************************************)
(* The answer to an applied event is the history that was committed up to  *)
(* its version, although the load behind it was no snapshot and the call   *)
(* may have been sent again, if no clock runs ahead: the page size, the    *)
(* attempts and the number of handlers do not matter. (apply_event.)       *)
(***************************************************************************)
THEOREM AppliedAnswersAreExact ==
  ASSUME MaxSkew = 0
  PROVE  Spec => AppliedAnswerIsExact
<1>1. Spec => [](IndInv /\ ExactInv)
  BY Invariance, ExactInvariance, PTL
<1>2. ASSUME IndInv, ExactInv, [Next]_vars, NEW t \in Handlers,
             pc[t] = "transact", outcome'[Id(t)] = "applied"
      PROVE  SubSeq(orders'[Target(t)].history, 1, sent[t].item.version)
               = sent[t].item.history
  <2>1. IndInv' /\ StepIsExact
    BY <1>2, NextIndInv, NextIsExact
  <2>2. PICK c, i : c = sent[t] /\ i = Id(t)
    OBVIOUS
  <2>3. /\ c \in Pending /\ i \in RequestIds /\ c.id = i /\ c.type = "transact"
        /\ c.order = Target(t) /\ c.item \in Order /\ c.order \in OrderIds
    <3>1. Waits(t) /\ SentInPlace(t) /\ HandlerIsExact(t) /\ RequestInPlace(t)
      BY <1>2 DEF Waits, IndInv, ExactInv
    <3>2. c \in Pending
      BY <2>2, <3>1 DEF Pending
    <3> QED
      BY <1>2, <2>2, <3>1, <3>2, PendingIsPlaced DEF SentInPlace, HandlerIsExact
  <2>4. i \in tokens'
    <3>1. RecordInPlace(i)'
      BY <2>1, <2>3 DEF IndInv
    <3> QED
      BY <1>2, <2>2, <3>1 DEF RecordInPlace
  <2>5. AnswersExactly(c)'
    BY <2>1, <2>3 DEF StepIsExact
  <2>6. PICK told, later : told = c.item.history /\ later = orders'[c.order].history
    OBVIOUS
  <2>7. /\ Len(told) = c.item.version /\ Len(told) <= Len(later)
        /\ \A n \in 1 .. Len(told) : told[n] = later[n]
    BY <2>3, <2>4, <2>5, <2>6 DEF AnswersExactly
  <2>8. told \in Seq(Entry) /\ later \in Seq(Entry)
    <3>1. orders'[c.order] # None
      <4>1. CallInPlace(c)
        BY <1>2, <2>3, PendingIsPlaced
      <4>2. orders[c.order] # None
        BY <2>3, <4>1 DEF CallInPlace, TransactionInPlace
      <4> QED
        BY <2>1, <2>3, <4>2 DEF StepIsExact, Grown
    <3> QED
      BY <2>1, <2>3, <2>6, <3>1 DEF IndInv, TypeOK, Order
  <2>9. SubSeq(later, 1, Len(told)) = told
    BY <2>7, <2>8
  <2> QED
    BY <2>2, <2>3, <2>6, <2>7, <2>9
<1>3. IndInv /\ ExactInv /\ [Next]_vars =>
        [\A t \in Handlers :
           pc[t] = "transact" /\ outcome'[Id(t)] = "applied" =>
             SubSeq(orders'[Target(t)].history, 1, sent[t].item.version)
               = sent[t].item.history]_vars
  BY <1>2
<1> QED
  BY <1>1, <1>3, PTL DEF Spec, AppliedAnswerIsExact
=============================================================================
