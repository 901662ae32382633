--------------------------- MODULE InMemoryOrders ---------------------------
(***************************************************************************)
(* The backend with its in-memory repository: request handlers run in the  *)
(* threads of FastAPI's pool and share one InMemoryStore.  A step is what  *)
(* a thread does between two points where another may run: taking a lock,  *)
(* one access to a shared dictionary, or a computation on local copies.    *)
(* (app/services/order_service.py, app/adapters/in_memory_*.py)            *)
(*                                                                         *)
(* A stored order is replaced, never changed in place, so a copy made of a *)
(* reference that was read under the lock is the order as it was read.     *)
(* Leaving a `with` block and answering the client are one step.           *)
(***************************************************************************)
EXTENDS OrderService

CONSTANTS Threads,       \* of the pool that runs the handlers
          Routes,        \* the operations clients call
          MaxRequests    \* bounds the runs, not the proofs

RequestIds == 1 .. MaxRequests

\* Lock objects, named by the order and the request that allocated them.
Locks == OrderIds \X RequestIds

ASSUME ThreadsAssumption ==
  /\ MaxRequests \in Nat
  /\ None \notin Threads \cup Locks \cup Requests

VARIABLES
  orders,         \* InMemoryStore.orders
  tickets,        \* InMemoryStore.tickets
  orderLocks,     \* InMemoryStore._order_locks
  registryLock,   \* the thread that holds the registry lock, or None
  holder,         \* the thread that holds each order lock, or None
  pc,             \* where each thread is; "idle" between requests
  request,        \* the request it serves: operation, order, body, number
  lock,           \* the lock object get_order_lock returned
  loaded,         \* the order object in hand: built by create_order or loaded
  found,          \* the stored order read last
  issued,         \* number of requests received
  outcome,        \* how each request was answered
  known           \* the highest version of each order any answer has shown

store   == <<orders, tickets>>
locking == <<orderLocks, registryLock, holder>>
locals  == <<request, lock, loaded, found>>
clients == <<issued, outcome, known>>
vars    == <<store, locking, pc, locals, clients>>

Id(t)    == request[t].id
Target(t) == request[t].order
Body(t)  == request[t].body

\* The evaluation apply_event makes of the order it loaded.
Evaluation(t) == Context(loaded[t], Body(t).event, Body(t).metadata)

Init ==
  /\ orders = [o \in OrderIds |-> None]
  /\ tickets = {}
  /\ orderLocks = [o \in OrderIds |-> None]
  /\ registryLock = None
  /\ holder = [l \in Locks |-> None]
  /\ pc = [t \in Threads |-> "idle"]
  /\ request = [t \in Threads |-> None]
  /\ lock = [t \in Threads |-> None]
  /\ loaded = [t \in Threads |-> None]
  /\ found = [t \in Threads |-> None]
  /\ issued = 0
  /\ outcome = [i \in RequestIds |-> "none"]
  /\ known = [o \in OrderIds |-> -1]

Goto(t, step) == pc' = [pc EXCEPT ![t] = step]

\* Answer t's request; `told` gives the versions of the orders the answer shows.
Answer(t, status, told) ==
  /\ Goto(t, "idle")
  /\ outcome' = [outcome EXCEPT ![Id(t)] = status]
  /\ known' = [o \in OrderIds |-> IF o \in DOMAIN told /\ told[o] > known[o]
                                  THEN told[o] ELSE known[o]]
  /\ request' = [request EXCEPT ![t] = None]
  /\ lock' = [lock EXCEPT ![t] = None]
  /\ loaded' = [loaded EXCEPT ![t] = None]
  /\ found' = [found EXCEPT ![t] = None]
  /\ UNCHANGED issued

TellNothing == [o \in {} |-> 0]
Tell(o, version) == [p \in {o} |-> version]

\* 404 tells a client that the order does not exist.
VersionOf(order) == IF order = None THEN -1 ELSE order.version

-----------------------------------------------------------------------------
(* The routes: a thread of the pool takes up a request *)

Receive(t, operation, o, body, step) ==
  /\ pc[t] = "idle"
  /\ operation \in Routes
  /\ issued < MaxRequests
  /\ issued' = issued + 1
  /\ request' = [request EXCEPT ![t] =
                   [operation |-> operation, order |-> o, body |-> body,
                    id |-> issued + 1, floor |-> known]]
  /\ Goto(t, step)
  /\ UNCHANGED <<store, locking, lock, found, outcome, known>>

\* The id is a fresh uuid; create does not rely on that, nor does the model.
ReceiveCreate(t, o, amount, count) ==
  /\ Receive(t, "create", o, None, "getLock")
  /\ loaded' = [loaded EXCEPT ![t] = NewOrder(amount, count)]

\* GET /orders/{id} and GET /orders/{id}/available-events.
ReceiveGet(t, o) ==
  /\ Receive(t, "get", o, None, "getLock")
  /\ UNCHANGED loaded

ReceiveApply(t, o, body) ==
  /\ Receive(t, "apply", o, body, "getLock")
  /\ UNCHANGED loaded

ReceiveList(t) ==
  /\ Receive(t, "list", None, None, "enterList")
  /\ UNCHANGED loaded

-----------------------------------------------------------------------------
(* Taking the locks *)

\* `with registry_lock`: the sections of get_order_lock, list_summaries, create,
\* get_by_id and commit_transition.
RegistrySection(t) ==
  CASE pc[t] = "getLock"    -> "lookUp"
    [] pc[t] = "enterList"  -> "list"
    [] pc[t] = "enterWrite" -> "write"
    [] pc[t] = "enter"      -> IF request[t].operation = "create" THEN "insert" ELSE "read"

EnterRegistry(t) ==
  /\ pc[t] \in {"getLock", "enterList", "enter", "enterWrite"}
  /\ registryLock = None
  /\ registryLock' = t
  /\ Goto(t, RegistrySection(t))
  /\ UNCHANGED <<store, orderLocks, holder, locals, clients>>

LeaveRegistry == registryLock' = None

\* Mutant: the registry is left between looking a lock up and allocating it.
LookUpAndLeave(t) ==
  /\ pc[t] = "lookUp"
  /\ LeaveRegistry
  /\ Goto(t, IF orderLocks[Target(t)] = None THEN "allocate" ELSE "acquire")
  /\ lock' = [lock EXCEPT ![t] = orderLocks[Target(t)]]
  /\ UNCHANGED <<store, orderLocks, holder, request, loaded, found, clients>>

LookUpLock(t) ==
  /\ pc[t] = "lookUp"
  /\ IF orderLocks[Target(t)] = None
     THEN /\ Goto(t, "allocate")
          /\ UNCHANGED <<registryLock, lock>>
     ELSE /\ Goto(t, "acquire")
          /\ lock' = [lock EXCEPT ![t] = orderLocks[Target(t)]]
          /\ LeaveRegistry
  /\ UNCHANGED <<store, orderLocks, holder, request, loaded, found, clients>>

AllocateLock(t) ==
  /\ pc[t] = "allocate"
  /\ orderLocks' = [orderLocks EXCEPT ![Target(t)] = <<Target(t), Id(t)>>]
  /\ lock' = [lock EXCEPT ![t] = <<Target(t), Id(t)>>]
  /\ LeaveRegistry
  /\ Goto(t, "acquire")
  /\ UNCHANGED <<store, holder, request, loaded, found, clients>>

\* Mutant: the order lock excludes nobody.
TakeOrderLock(t) ==
  /\ pc[t] = "acquire"
  /\ holder' = [holder EXCEPT ![lock[t]] = t]
  /\ Goto(t, "enter")
  /\ UNCHANGED <<store, orderLocks, registryLock, locals, clients>>

AcquireOrderLock(t) ==
  /\ pc[t] = "acquire"
  /\ holder[lock[t]] = None
  /\ holder' = [holder EXCEPT ![lock[t]] = t]
  /\ Goto(t, "enter")
  /\ UNCHANGED <<store, orderLocks, registryLock, locals, clients>>

ReleaseOrderLock(t) == holder' = [holder EXCEPT ![lock[t]] = None]

-----------------------------------------------------------------------------
(* create *)

\* Mutant: an existing order is replaced.
UpsertOrder(t) ==
  /\ pc[t] = "insert"
  /\ LeaveRegistry
  /\ orders' = [orders EXCEPT ![Target(t)] = loaded[t]]
  /\ Goto(t, "release")
  /\ UNCHANGED <<tickets, orderLocks, holder, locals, clients>>

InsertOrder(t) ==
  /\ pc[t] = "insert"
  /\ LeaveRegistry
  /\ IF orders[Target(t)] = None
     THEN /\ orders' = [orders EXCEPT ![Target(t)] = loaded[t]]
          /\ Goto(t, "release")
          /\ UNCHANGED <<holder, locals, clients>>
     ELSE /\ ReleaseOrderLock(t)
          /\ Answer(t, "exists", TellNothing)
          /\ UNCHANGED orders
  /\ UNCHANGED <<tickets, orderLocks>>

FinishCreate(t) ==
  /\ pc[t] = "release"
  /\ request[t].operation = "create"
  /\ ReleaseOrderLock(t)
  /\ Answer(t, "created", Tell(Target(t), loaded[t].version))
  /\ UNCHANGED <<store, orderLocks, registryLock>>

-----------------------------------------------------------------------------
(* get_by_id, and the read of commit_transition *)

Committing(t) == request[t].operation = "apply" /\ loaded[t] # None

ReadOrder(t) ==
  /\ pc[t] = "read"
  /\ found' = [found EXCEPT ![t] = orders[Target(t)]]
  /\ LeaveRegistry
  /\ Goto(t, IF Committing(t) THEN "check" ELSE "release")
  /\ UNCHANGED <<store, orderLocks, holder, request, lock, loaded, clients>>

\* Mutant: the early return for a missing order keeps the order lock.
FinishGetFound(t) ==
  /\ pc[t] = "release"
  /\ \/ request[t].operation = "get"
     \/ request[t].operation = "apply" /\ loaded[t] = None /\ found[t] = None
  /\ IF found[t] = None THEN UNCHANGED holder ELSE ReleaseOrderLock(t)
  /\ Answer(t, IF found[t] = None THEN "notFound" ELSE "read",
            Tell(Target(t), VersionOf(found[t])))
  /\ UNCHANGED <<store, orderLocks, registryLock>>

FinishGet(t) ==
  /\ pc[t] = "release"
  /\ \/ request[t].operation = "get"
     \/ request[t].operation = "apply" /\ loaded[t] = None /\ found[t] = None
  /\ ReleaseOrderLock(t)
  /\ Answer(t, IF found[t] = None THEN "notFound" ELSE "read",
            Tell(Target(t), VersionOf(found[t])))
  /\ UNCHANGED <<store, orderLocks, registryLock>>

-----------------------------------------------------------------------------
(* list_summaries *)

ListOrders(t) ==
  /\ pc[t] = "list"
  /\ LeaveRegistry
  /\ Answer(t, "listed", [o \in OrderIds |-> VersionOf(orders[o])])
  /\ UNCHANGED <<store, orderLocks, holder>>

-----------------------------------------------------------------------------
(* apply_event *)

FinishLoad(t) ==
  /\ pc[t] = "release"
  /\ request[t].operation = "apply" /\ loaded[t] = None /\ found[t] # None
  /\ ReleaseOrderLock(t)
  /\ loaded' = [loaded EXCEPT ![t] = found[t]]
  /\ lock' = [lock EXCEPT ![t] = None]
  /\ found' = [found EXCEPT ![t] = None]
  /\ Goto(t, "evaluate")
  /\ UNCHANGED <<store, orderLocks, registryLock, request, clients>>

RefuseTransition(t) ==
  /\ pc[t] = "evaluate"
  /\ ~IsEnabled(loaded[t].state, Body(t).event)
  /\ Answer(t, "invalidTransition", TellNothing)
  /\ UNCHANGED <<store, locking>>

RefuseOverrides(t) ==
  /\ pc[t] = "evaluate"
  /\ IsEnabled(loaded[t].state, Body(t).event)
  /\ OverridesConflict(Evaluation(t))
  /\ Answer(t, "overrideConflict", TellNothing)
  /\ UNCHANGED <<store, locking>>

EvaluateEvent(t) ==
  /\ pc[t] = "evaluate"
  /\ Accepts(loaded[t], Body(t).event, Body(t).metadata)
  /\ Goto(t, "getLock")
  /\ UNCHANGED <<store, locking, locals, clients>>

-----------------------------------------------------------------------------
(* commit_transition *)

\* Mutant: only the state is compared.
IsStaleByState(t) == found[t] = None \/ found[t].state # loaded[t].state

IsStale(t) ==
  \/ found[t] = None
  \/ found[t].version # loaded[t].version
  \/ found[t].state # loaded[t].state

RejectStale(t) ==
  /\ pc[t] = "check"
  /\ IsStale(t)
  /\ ReleaseOrderLock(t)
  /\ Answer(t, "versionConflict", TellNothing)
  /\ UNCHANGED <<store, orderLocks, registryLock>>

PassCheck(t) ==
  /\ pc[t] = "check"
  /\ ~IsStale(t)
  /\ Goto(t, "enterWrite")
  /\ UNCHANGED <<store, locking, locals, clients>>

Committed(t)    == UpdatedOrder(Id(t), Evaluation(t))
NewTickets(t)   == SupportTickets(Id(t), Target(t), Evaluation(t))

\* Mutant: the ticket is never written.
WriteOrderOnly(t) ==
  /\ pc[t] = "write"
  /\ orders' = [orders EXCEPT ![Target(t)] = Committed(t)]
  /\ LeaveRegistry
  /\ Goto(t, "release")
  /\ UNCHANGED <<tickets, orderLocks, holder, locals, clients>>

WriteOrder(t) ==
  /\ pc[t] = "write"
  /\ orders' = [orders EXCEPT ![Target(t)] = Committed(t)]
  /\ IF NewTickets(t) = {}
     THEN LeaveRegistry /\ Goto(t, "release")
     ELSE UNCHANGED registryLock /\ Goto(t, "writeTicket")
  /\ UNCHANGED <<tickets, orderLocks, holder, locals, clients>>

WriteTicket(t) ==
  /\ pc[t] = "writeTicket"
  /\ tickets' = tickets \cup NewTickets(t)
  /\ LeaveRegistry
  /\ Goto(t, "release")
  /\ UNCHANGED <<orders, orderLocks, holder, locals, clients>>

FinishApply(t) ==
  /\ pc[t] = "release"
  /\ Committing(t)
  /\ ReleaseOrderLock(t)
  /\ Answer(t, "applied", Tell(Target(t), loaded[t].version + 1))
  /\ UNCHANGED <<store, orderLocks, registryLock>>

-----------------------------------------------------------------------------
ReceiveSome(t) ==
  \/ ReceiveList(t)
  \/ \E o \in OrderIds :
    \/ \E amount \in Amounts, count \in ProductCounts : ReceiveCreate(t, o, amount, count)
    \/ ReceiveGet(t, o)
    \/ \E body \in Requests : ReceiveApply(t, o, body)

Proceed(t) ==
  \/ EnterRegistry(t) \/ LookUpLock(t) \/ AllocateLock(t) \/ AcquireOrderLock(t)
  \/ InsertOrder(t) \/ FinishCreate(t)
  \/ ReadOrder(t) \/ FinishGet(t) \/ ListOrders(t)
  \/ FinishLoad(t) \/ RefuseTransition(t) \/ RefuseOverrides(t) \/ EvaluateEvent(t)
  \/ RejectStale(t) \/ PassCheck(t)
  \/ WriteOrder(t) \/ WriteTicket(t) \/ FinishApply(t)

\* Every request was answered and the bound admits no other.
Exhausted ==
  /\ issued = MaxRequests
  /\ \A t \in Threads : pc[t] = "idle"
  /\ UNCHANGED vars

Next ==
  \/ \E t \in Threads : ReceiveSome(t) \/ Proceed(t)
  \/ Exhausted

Spec == Init /\ [][Next]_vars

\* The interpreter schedules every thread that can run; clients may fall silent.
FairSpec == Spec /\ \A t \in Threads : WF_vars(Proceed(t))
-----------------------------------------------------------------------------
(* Properties *)

Operations == {"create", "get", "apply", "list"}

RegistrySteps == {"lookUp", "allocate", "insert", "read", "write", "writeTicket", "list"}

OrderLockSteps ==
  {"enter", "insert", "read", "check", "enterWrite", "write", "writeTicket", "release"}

Steps ==
  {"idle", "getLock", "acquire", "evaluate", "enterList"} \cup RegistrySteps \cup OrderLockSteps

Refusals ==
  {"exists", "notFound", "invalidTransition", "overrideConflict", "versionConflict"}

Outcomes == {"none", "created", "read", "listed", "applied"} \cup Refusals

RequestRecord ==
  [operation : Operations, order : OrderIds \cup {None}, body : Requests \cup {None},
   id : RequestIds, floor : [OrderIds -> Int]]

TypeOK ==
  /\ orders \in [OrderIds -> Order \cup {None}]
  /\ \A k \in tickets : k.id \in RequestIds /\ k.order \in OrderIds
  /\ orderLocks \in [OrderIds -> Locks \cup {None}]
  /\ registryLock \in Threads \cup {None}
  /\ holder \in [Locks -> Threads \cup {None}]
  /\ pc \in [Threads -> Steps]
  /\ request \in [Threads -> RequestRecord \cup {None}]
  /\ lock \in [Threads -> Locks \cup {None}]
  /\ loaded \in [Threads -> Order \cup {None}]
  /\ found \in [Threads -> Order \cup {None}]
  /\ issued \in 0 .. MaxRequests
  /\ outcome \in [RequestIds -> Outcomes]
  /\ known \in [OrderIds -> Int]

(***************************************************************************)
(* A transition is only ever written over the very order it was computed   *)
(* from: from the passed version check to the write, the stored order is   *)
(* the one apply_event loaded, whatever the other threads do.  (The two    *)
(* registry sections of commit_transition and the per-order lock.)         *)
(***************************************************************************)
CommitsOnWhatWasLoaded ==
  \A t \in Threads :
    pc[t] \in {"enterWrite", "write"} => orders[Target(t)] = loaded[t]

(***************************************************************************)
(* An applied event is in the history of its order, once, for good; an     *)
(* event that was refused is in no history; and no request is recorded     *)
(* twice.  (commit_transition, the errors of apply_event.)                 *)
(***************************************************************************)
Records(i) == RecordsIn(orders, i)

AnswersMatchStore ==
  \A i \in RequestIds :
    /\ Cardinality(Records(i)) <= 1
    /\ outcome[i] = "applied" => Records(i) # {}
    /\ outcome[i] \in Refusals => Records(i) = {}

(***************************************************************************)
(* The history explains the order: its amount, state and version are what  *)
(* the rules make of a new order event by event, whatever ran at the same  *)
(* time; and no event was recorded whose matched rules disagree on the     *)
(* final state.  (_resolve_final_state_override, apply_event,              *)
(* commit_transition.)                                                     *)
(***************************************************************************)
HistoryExplainsOrder ==
  \A o \in OrderIds : orders[o] # None => IsExplained(orders[o])

(***************************************************************************)
(* 409 version conflict is told only to a client whose order really moved  *)
(* between its load and its commit: a retry of that client starts from a   *)
(* newer version.  (commit_transition.)                                    *)
(***************************************************************************)
ConflictMeansMoved ==
  [][\A t \in Threads :
       RejectStale(t) => orders[Target(t)].version > loaded[t].version]_vars

(***************************************************************************)
(* No answer shows an order at a version below one that an earlier answer  *)
(* had shown before the request came in, and none says 404 of an order     *)
(* that was shown: reads, lists and transitions agree on one order of      *)
(* events.  (get_by_id, list_summaries, commit_transition.)                *)
(***************************************************************************)
ReadsNeverGoBack ==
  [][\A t \in Threads :
       LET notBelowFloor(o) == VersionOf(found[t]) >= request[t].floor[o]
       IN /\ FinishGet(t) => notBelowFloor(Target(t))
          /\ FinishLoad(t) => notBelowFloor(Target(t))
          /\ ListOrders(t) =>
               \A o \in OrderIds : VersionOf(orders[o]) >= request[t].floor[o]]_vars

(***************************************************************************)
(* Every request is answered: no thread waits for ever on the registry or  *)
(* on an order lock.  (The nesting of the locks in the repository.)        *)
(***************************************************************************)
EveryRequestIsAnswered ==
  \A t \in Threads : (pc[t] # "idle") ~> (pc[t] = "idle")

(***************************************************************************)
(* The repository implements the ledger: the write of the order is the     *)
(* step that advances it, and a ticket still to be written in the same     *)
(* registry section counts as written.  The property is Ledger!Spec,       *)
(* spelled so that TLC tells the many stuttering steps first.              *)
(***************************************************************************)
PendingTickets == UNION {NewTickets(t) : t \in {u \in Threads : pc[u] = "writeTicket"}}

Ledger == INSTANCE OrderRepository WITH tickets <- tickets \cup PendingTickets

ImplementsLedger ==
  Ledger!Init /\ [][UNCHANGED Ledger!vars \/ Ledger!Next]_vars
-----------------------------------------------------------------------------
(***************************************************************************)
(* The inductive invariant: which request, locks and copies a thread has   *)
(* at each step.                                                           *)
(***************************************************************************)
RequestInPlace(t) ==
  /\ pc[t] = "idle" => loaded[t] = None
  /\ pc[t] # "idle" =>
       /\ request[t] \in RequestRecord
       /\ request[t].operation = "list" <=> pc[t] \in {"enterList", "list"}
       /\ request[t].operation # "list" => request[t].order \in OrderIds
       /\ request[t].operation = "apply" => request[t].body \in Requests
       /\ request[t].operation = "create" => loaded[t] # None
  /\ pc[t] = "insert" => request[t].operation = "create"
  /\ pc[t] = "read" => request[t].operation \in {"get", "apply"}
  /\ pc[t] \in {"evaluate", "check", "enterWrite", "write", "writeTicket"} =>
       Committing(t)

LockInPlace(t) ==
  /\ pc[t] \in RegistrySteps => registryLock = t
  /\ pc[t] = "allocate" => orderLocks[Target(t)] = None
  /\ pc[t] \in OrderLockSteps \cup {"acquire"} =>
       lock[t] # None /\ lock[t] = orderLocks[Target(t)]
  /\ pc[t] \in OrderLockSteps => holder[lock[t]] = t

\* A snapshot is of the past, and of the present if the version has not moved.
IsSnapshot(order, o) ==
  /\ orders[o] # None
  /\ order.version <= orders[o].version
  /\ order.version = orders[o].version => order = orders[o]

SnapshotInPlace(t) ==
  /\ pc[t] \notin {"idle", "writeTicket", "release"} /\ Committing(t) =>
       /\ IsSnapshot(loaded[t], Target(t))
       /\ pc[t] # "evaluate" => IsEnabled(loaded[t].state, Body(t).event)
  /\ pc[t] = "check" => found[t] = orders[Target(t)]
  /\ pc[t] = "release" /\ request[t].operation # "create" /\ ~Committing(t) =>
       found[t] = orders[Target(t)]
  /\ pc[t] \in {"enterWrite", "write"} => loaded[t] = orders[Target(t)]

IndInv ==
  /\ TypeOK
  /\ \A t \in Threads : RequestInPlace(t) /\ LockInPlace(t) /\ SnapshotInPlace(t)

(***************************************************************************)
(* What implementing the ledger and telling the truth rest on besides:     *)
(* requests under way have numbers of their own and no answer yet, a       *)
(* thread about to write holds a new order or an accepted event, and a     *)
(* recorded event was answered so, or its thread is on the way to do it.   *)
(***************************************************************************)
NumberInPlace(t) ==
  pc[t] # "idle" =>
    /\ Id(t) <= issued
    /\ outcome[Id(t)] = "none"
    /\ \A u \in Threads : pc[u] # "idle" /\ Id(u) = Id(t) => u = t

CopyInPlace(t) ==
  /\ pc[t] # "idle" /\ request[t].operation = "create" =>
       \E amount \in Amounts, count \in ProductCounts : loaded[t] = NewOrder(amount, count)
  /\ pc[t] \notin {"idle", "evaluate", "writeTicket", "release"} /\ Committing(t) =>
       Accepts(loaded[t], Body(t).event, Body(t).metadata)

HasWritten(t) == pc[t] \in {"writeTicket", "release"} /\ Committing(t)

RecordInPlace(i) ==
  /\ i > issued => outcome[i] = "none"
  /\ Records(i) # {} <=>
       \/ outcome[i] = "applied"
       \/ \E t \in Threads : HasWritten(t) /\ Id(t) = i
  /\ \A r, s \in Records(i) : r = s

LedgerInv ==
  /\ IndInv
  /\ \A t \in Threads : NumberInPlace(t) /\ CopyInPlace(t)
  /\ \A i \in RequestIds : RecordInPlace(i)

(***************************************************************************)
(* What the monotone reads rest on: nobody was told more than is stored,   *)
(* and what a thread is about to tell of its write is stored.              *)
(***************************************************************************)
IsStored(o, version) == version <= VersionOf(orders[o])

ToldInPlace(t) ==
  /\ pc[t] # "idle" => \A o \in OrderIds : IsStored(o, request[t].floor[o])
  /\ pc[t] = "release" /\ request[t].operation = "create" =>
       IsStored(Target(t), loaded[t].version)
  /\ HasWritten(t) => IsStored(Target(t), loaded[t].version + 1)

ReadInv ==
  /\ IndInv
  /\ \A o \in OrderIds : IsStored(o, known[o])
  /\ \A t \in Threads : ToldInPlace(t)

\* Everything the answers and the refinement rest on.
AnswersInv == LedgerInv /\ ReadInv
=============================================================================
