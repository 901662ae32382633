------------------------ MODULE InMemoryOrdersProofs ------------------------
(***************************************************************************)
(* Proofs about InMemoryOrders, for every set of threads, orders, requests *)
(* and rules, and any number of requests: first that locks protect a       *)
(* commit, then what clients may rely on. The repository implements        *)
(* OrderRepository, answers tell what was recorded, and reads never go     *)
(* back.                                                                   *)
(*                                                                         *)
(* Most steps leave the stored orders and the requests under way alone:    *)
(* QuietStep carries the second invariant through them, AnswerStep through *)
(* those that answer, ReceiveStep through those that take up a request.    *)
(* Only the two that store an order remain.                                *)
(***************************************************************************)
EXTENDS InMemoryOrders, OrderServiceProofs, FiniteSetTheorems

-----------------------------------------------------------------------------
(* The inductive invariant *)

(***************************************************************************)
(* The invariant holds of the empty store. (InMemoryStore.__init__.)       *)
(***************************************************************************)
LEMMA InitIndInv == Init => IndInv
BY ThreadsAssumption, ServiceAssumption
   DEF Init, IndInv, TypeOK, RequestInPlace, LockInPlace, SnapshotInPlace, Steps,
       RegistrySteps, OrderLockSteps, Outcomes, Committing

(***************************************************************************)
(* Two threads that hold the lock of one order are one: get_order_lock     *)
(* hands out one lock per order. (in_memory_store.py get_order_lock.)      *)
(***************************************************************************)
LEMMA OneHolder ==
  ASSUME IndInv, NEW t \in Threads, NEW u \in Threads,
         pc[t] \in OrderLockSteps, pc[u] \in OrderLockSteps, Target(t) = Target(u)
  PROVE  t = u
BY DEF IndInv, LockInPlace

(***************************************************************************)
(* Whoever holds a lock still does after another thread let go of its own. *)
(***************************************************************************)
LEMMA OthersKeepLocks ==
  ASSUME IndInv, NEW t \in Threads, NEW u \in Threads, u # t,
         pc[t] \in OrderLockSteps, pc[u] \in OrderLockSteps, ReleaseOrderLock(t)
  PROVE  holder'[lock[u]] = u
BY DEF IndInv, LockInPlace, TypeOK, ReleaseOrderLock

(***************************************************************************)
(* What a thread has in place, it keeps while it does not run, as long as  *)
(* its order and its locks stay as they are.                               *)
(***************************************************************************)
LEMMA Frame ==
  ASSUME NEW u \in Threads,
         pc'[u] = pc[u], request'[u] = request[u], lock'[u] = lock[u],
         loaded'[u] = loaded[u], found'[u] = found[u]
  PROVE  /\ RequestInPlace(u) => RequestInPlace(u)'
         /\ (orders' = orders /\ SnapshotInPlace(u)) => SnapshotInPlace(u)'
         /\ /\ LockInPlace(u)
            /\ pc[u] \in RegistrySteps => registryLock' = registryLock
            /\ orderLocks' = orderLocks
            /\ pc[u] \in OrderLockSteps => holder'[lock[u]] = holder[lock[u]]
            => LockInPlace(u)'
BY DEF RequestInPlace, LockInPlace, SnapshotInPlace, Committing, IsSnapshot, Target, Body

(***************************************************************************)
(* A thread that answers keeps the invariant if it gives back what it      *)
(* holds and leaves the store alone.                                       *)
(***************************************************************************)
LEMMA AnswerIndInv ==
  ASSUME IndInv, NEW t \in Threads, pc[t] # "idle",
         NEW status \in Outcomes, NEW told, \A o \in DOMAIN told : told[o] \in Int,
         Answer(t, status, told), UNCHANGED <<orders, tickets, orderLocks>>,
         \/ UNCHANGED registryLock
         \/ pc[t] \in RegistrySteps /\ LeaveRegistry,
         \/ UNCHANGED holder
         \/ pc[t] \in OrderLockSteps /\ ReleaseOrderLock(t)
  PROVE  IndInv'
<1> USE ThreadsAssumption
<1>1. Id(t) \in RequestIds
  BY DEF IndInv, TypeOK, RequestInPlace, RequestRecord, Id
<1>2. known' \in [OrderIds -> Int]
  BY DEF IndInv, TypeOK, Answer
<1>3. TypeOK'
  <2>1. holder' \in [Locks -> Threads \cup {None}]
    BY DEF IndInv, TypeOK, ReleaseOrderLock
  <2> QED
    BY <1>1, <1>2, <2>1 DEF IndInv, TypeOK, Answer, Goto, LeaveRegistry, Steps
<1>4. ASSUME NEW u \in Threads
      PROVE  RequestInPlace(u)' /\ LockInPlace(u)' /\ SnapshotInPlace(u)'
  <2>1. CASE u = t
    BY <2>1 DEF IndInv, TypeOK, Answer, Goto, RequestInPlace, LockInPlace,
           SnapshotInPlace, RegistrySteps, OrderLockSteps
  <2>2. CASE u # t
    <3>1. /\ pc'[u] = pc[u] /\ request'[u] = request[u] /\ lock'[u] = lock[u]
          /\ loaded'[u] = loaded[u] /\ found'[u] = found[u]
      BY <2>2 DEF IndInv, TypeOK, Answer, Goto
    <3>2. pc[u] \in RegistrySteps => registryLock' = registryLock
      BY <2>2 DEF IndInv, LockInPlace
    <3>3. pc[u] \in OrderLockSteps => holder'[lock[u]] = holder[lock[u]]
      BY <2>2, OthersKeepLocks DEF IndInv, LockInPlace
    <3> QED
      BY <3>1, <3>2, <3>3, Frame DEF IndInv
  <2> QED
    BY <2>1, <2>2
<1> QED
  BY <1>3, <1>4 DEF IndInv

(***************************************************************************)
(* FinishCreate keeps the invariant: create_order returns.                 *)
(***************************************************************************)
LEMMA FinishCreateIndInv ==
  ASSUME IndInv, NEW t \in Threads, FinishCreate(t)
  PROVE  IndInv'
BY AnswerIndInv, ThreadsAssumption
   DEF FinishCreate, IndInv, TypeOK, RequestInPlace, Outcomes, Refusals, store,
       locking, OrderLockSteps, RegistrySteps, Tell, Order

(***************************************************************************)
(* RefuseTransition keeps the invariant: get_next_state raises.            *)
(***************************************************************************)
LEMMA RefuseTransitionIndInv ==
  ASSUME IndInv, NEW t \in Threads, RefuseTransition(t)
  PROVE  IndInv'
BY AnswerIndInv, ThreadsAssumption
   DEF RefuseTransition, IndInv, TypeOK, RequestInPlace, Outcomes, Refusals,
       store, locking, OrderLockSteps, RegistrySteps, TellNothing

(***************************************************************************)
(* RefuseOverrides keeps the invariant: the rule engine raises.            *)
(***************************************************************************)
LEMMA RefuseOverridesIndInv ==
  ASSUME IndInv, NEW t \in Threads, RefuseOverrides(t)
  PROVE  IndInv'
BY AnswerIndInv, ThreadsAssumption
   DEF RefuseOverrides, IndInv, TypeOK, RequestInPlace, Outcomes, Refusals,
       store, locking, OrderLockSteps, RegistrySteps, TellNothing

(***************************************************************************)
(* RejectStale keeps the invariant: commit_transition raises               *)
(* OrderVersionConflictError.                                              *)
(***************************************************************************)
LEMMA RejectStaleIndInv ==
  ASSUME IndInv, NEW t \in Threads, RejectStale(t)
  PROVE  IndInv'
BY AnswerIndInv, ThreadsAssumption
   DEF RejectStale, IndInv, TypeOK, RequestInPlace, Outcomes, Refusals, store,
       locking, OrderLockSteps, RegistrySteps, TellNothing

(***************************************************************************)
(* FinishApply keeps the invariant: apply_event returns.                   *)
(***************************************************************************)
LEMMA FinishApplyIndInv ==
  ASSUME IndInv, NEW t \in Threads, FinishApply(t)
  PROVE  IndInv'
BY AnswerIndInv, ThreadsAssumption
   DEF FinishApply, IndInv, TypeOK, RequestInPlace, Outcomes, Refusals, store,
       locking, OrderLockSteps, RegistrySteps, Tell, Order, Committing

(***************************************************************************)
(* ReceiveCreate keeps the invariant: POST /orders.                        *)
(***************************************************************************)
LEMMA ReceiveCreateIndInv ==
  ASSUME IndInv, NEW t \in Threads, NEW o \in OrderIds, NEW amount \in Amounts, NEW count \in ProductCounts,
         ReceiveCreate(t, o, amount, count)
  PROVE  IndInv'
<1> USE ThreadsAssumption
   DEF IndInv, TypeOK, ReceiveCreate, Receive, Goto, store, locking, locals,
       clients
<1>1. TypeOK'
  BY NewOrderIsOrder, ServiceAssumption
     DEF RequestInPlace, RequestRecord, Operations, Steps, RegistrySteps,
         OrderLockSteps, Target, Id, Locks, RequestIds
<1>2. ASSUME NEW u \in Threads, u # t
      PROVE  RequestInPlace(u)' /\ LockInPlace(u)' /\ SnapshotInPlace(u)'
  BY <1>2, Frame DEF LockInPlace, RegistrySteps, Target
<1>3. RequestInPlace(t)'
  BY NewOrderIsOrder, ServiceAssumption
     DEF RequestInPlace, Committing, RequestRecord, RequestIds, Operations,
         RegistrySteps, OrderLockSteps
<1>4. LockInPlace(t)'
  BY
     DEF RequestInPlace, LockInPlace, RegistrySteps, OrderLockSteps, Target, Id,
         Locks, RequestRecord
<1>5. SnapshotInPlace(t)'
  BY
     DEF RequestInPlace, LockInPlace, SnapshotInPlace, Committing, IsSnapshot,
         Target, Body, OrderLockSteps
<1> QED
  BY <1>1, <1>2, <1>3, <1>4, <1>5

(***************************************************************************)
(* ReceiveGet keeps the invariant: GET /orders/{id}.                       *)
(***************************************************************************)
LEMMA ReceiveGetIndInv ==
  ASSUME IndInv, NEW t \in Threads, NEW o \in OrderIds,
         ReceiveGet(t, o)
  PROVE  IndInv'
<1> USE ThreadsAssumption
   DEF IndInv, TypeOK, ReceiveGet, Receive, Goto, store, locking, locals,
       clients
<1>1. TypeOK'
  BY
     DEF RequestInPlace, RequestRecord, Operations, Steps, RegistrySteps,
         OrderLockSteps, Target, Id, Locks, RequestIds
<1>2. ASSUME NEW u \in Threads, u # t
      PROVE  RequestInPlace(u)' /\ LockInPlace(u)' /\ SnapshotInPlace(u)'
  BY <1>2, Frame DEF LockInPlace, RegistrySteps, Target
<1>3. RequestInPlace(t)'
  BY
     DEF RequestInPlace, Committing, RequestRecord, RequestIds, Operations,
         RegistrySteps, OrderLockSteps
<1>4. LockInPlace(t)'
  BY
     DEF RequestInPlace, LockInPlace, RegistrySteps, OrderLockSteps, Target, Id,
         Locks, RequestRecord
<1>5. SnapshotInPlace(t)'
  BY
     DEF RequestInPlace, LockInPlace, SnapshotInPlace, Committing, IsSnapshot,
         Target, Body, OrderLockSteps
<1> QED
  BY <1>1, <1>2, <1>3, <1>4, <1>5

(***************************************************************************)
(* ReceiveApply keeps the invariant: POST /orders/{id}/events.             *)
(***************************************************************************)
LEMMA ReceiveApplyIndInv ==
  ASSUME IndInv, NEW t \in Threads, NEW o \in OrderIds, NEW body \in Requests,
         ReceiveApply(t, o, body)
  PROVE  IndInv'
<1> USE ThreadsAssumption
   DEF IndInv, TypeOK, ReceiveApply, Receive, Goto, store, locking, locals,
       clients
<1>1. TypeOK'
  BY
     DEF RequestInPlace, RequestRecord, Operations, Steps, RegistrySteps,
         OrderLockSteps, Target, Id, Locks, RequestIds
<1>2. ASSUME NEW u \in Threads, u # t
      PROVE  RequestInPlace(u)' /\ LockInPlace(u)' /\ SnapshotInPlace(u)'
  BY <1>2, Frame DEF LockInPlace, RegistrySteps, Target
<1>3. RequestInPlace(t)'
  BY
     DEF RequestInPlace, Committing, RequestRecord, RequestIds, Operations,
         RegistrySteps, OrderLockSteps
<1>4. LockInPlace(t)'
  BY
     DEF RequestInPlace, LockInPlace, RegistrySteps, OrderLockSteps, Target, Id,
         Locks, RequestRecord
<1>5. SnapshotInPlace(t)'
  BY
     DEF RequestInPlace, LockInPlace, SnapshotInPlace, Committing, IsSnapshot,
         Target, Body, OrderLockSteps
<1> QED
  BY <1>1, <1>2, <1>3, <1>4, <1>5

(***************************************************************************)
(* ReceiveList keeps the invariant: GET /orders.                           *)
(***************************************************************************)
LEMMA ReceiveListIndInv ==
  ASSUME IndInv, NEW t \in Threads,
         ReceiveList(t)
  PROVE  IndInv'
<1> USE ThreadsAssumption
   DEF IndInv, TypeOK, ReceiveList, Receive, Goto, store, locking, locals,
       clients
<1>1. TypeOK'
  BY
     DEF RequestInPlace, RequestRecord, Operations, Steps, RegistrySteps,
         OrderLockSteps, Target, Id, Locks, RequestIds
<1>2. ASSUME NEW u \in Threads, u # t
      PROVE  RequestInPlace(u)' /\ LockInPlace(u)' /\ SnapshotInPlace(u)'
  BY <1>2, Frame DEF LockInPlace, RegistrySteps, Target
<1>3. RequestInPlace(t)'
  BY
     DEF RequestInPlace, Committing, RequestRecord, RequestIds, Operations,
         RegistrySteps, OrderLockSteps
<1>4. LockInPlace(t)'
  BY
     DEF RequestInPlace, LockInPlace, RegistrySteps, OrderLockSteps, Target, Id,
         Locks, RequestRecord
<1>5. SnapshotInPlace(t)'
  BY
     DEF RequestInPlace, LockInPlace, SnapshotInPlace, Committing, IsSnapshot,
         Target, Body, OrderLockSteps
<1> QED
  BY <1>1, <1>2, <1>3, <1>4, <1>5

(***************************************************************************)
(* EnterRegistry keeps the invariant: taking the registry lock.            *)
(***************************************************************************)
LEMMA EnterRegistryIndInv ==
  ASSUME IndInv, NEW t \in Threads,
         EnterRegistry(t)
  PROVE  IndInv'
<1> USE ThreadsAssumption
   DEF IndInv, TypeOK, EnterRegistry, RegistrySection, Goto, store, locking,
       locals, clients
<1>1. TypeOK'
  BY
     DEF RequestInPlace, RequestRecord, Operations, Steps, RegistrySteps,
         OrderLockSteps, Target, Id, Locks, RequestIds
<1>2. ASSUME NEW u \in Threads, u # t
      PROVE  RequestInPlace(u)' /\ LockInPlace(u)' /\ SnapshotInPlace(u)'
  BY <1>2, Frame DEF LockInPlace, RegistrySteps, Target
<1>3. RequestInPlace(t)'
  BY
     DEF RequestInPlace, Committing, RequestRecord, RequestIds, Operations,
         RegistrySteps, OrderLockSteps
<1>4. LockInPlace(t)'
  BY
     DEF RequestInPlace, LockInPlace, RegistrySteps, OrderLockSteps, Target, Id,
         Locks, RequestRecord
<1>5. SnapshotInPlace(t)'
  BY
     DEF RequestInPlace, LockInPlace, SnapshotInPlace, Committing, IsSnapshot,
         Target, Body, OrderLockSteps
<1> QED
  BY <1>1, <1>2, <1>3, <1>4, <1>5

(***************************************************************************)
(* AcquireOrderLock keeps the invariant: taking the order lock.            *)
(***************************************************************************)
LEMMA AcquireOrderLockIndInv ==
  ASSUME IndInv, NEW t \in Threads,
         AcquireOrderLock(t)
  PROVE  IndInv'
<1> USE ThreadsAssumption
   DEF IndInv, TypeOK, AcquireOrderLock, Goto, store, locking, locals, clients
<1>1. TypeOK'
  BY
     DEF RequestInPlace, RequestRecord, Operations, Steps, RegistrySteps,
         OrderLockSteps, Target, Id, Locks, RequestIds
<1>2. ASSUME NEW u \in Threads, u # t
      PROVE  RequestInPlace(u)' /\ LockInPlace(u)' /\ SnapshotInPlace(u)'
  BY <1>2, Frame DEF LockInPlace, RegistrySteps, Target
<1>3. RequestInPlace(t)'
  <2>1. UNCHANGED <<request, loaded>> /\ pc[t] = "acquire" /\ pc'[t] = "enter"
    OBVIOUS
  <2>2. RequestInPlace(t)
    OBVIOUS
  <2> QED
    BY <2>1, <2>2 DEF RequestInPlace
<1>4. LockInPlace(t)'
  BY
     DEF RequestInPlace, LockInPlace, RegistrySteps, OrderLockSteps, Target, Id,
         Locks, RequestRecord
<1>5. SnapshotInPlace(t)'
  BY
     DEF RequestInPlace, LockInPlace, SnapshotInPlace, Committing, IsSnapshot,
         Target, Body, OrderLockSteps
<1> QED
  BY <1>1, <1>2, <1>3, <1>4, <1>5

(***************************************************************************)
(* ReadOrder keeps the invariant: reading the stored order.                *)
(***************************************************************************)
LEMMA ReadOrderIndInv ==
  ASSUME IndInv, NEW t \in Threads,
         ReadOrder(t)
  PROVE  IndInv'
<1> USE ThreadsAssumption
   DEF IndInv, TypeOK, ReadOrder, LeaveRegistry, Goto, store, locking, locals,
       clients
<1>1. TypeOK'
  BY
     DEF RequestInPlace, RequestRecord, Operations, Steps, RegistrySteps,
         OrderLockSteps, Target, Id, Locks, RequestIds
<1>2. ASSUME NEW u \in Threads, u # t
      PROVE  RequestInPlace(u)' /\ LockInPlace(u)' /\ SnapshotInPlace(u)'
  BY <1>2, Frame DEF LockInPlace, RegistrySteps, Target
<1>3. RequestInPlace(t)'
  BY
     DEF RequestInPlace, Committing, RequestRecord, RequestIds, Operations,
         RegistrySteps, OrderLockSteps
<1>4. LockInPlace(t)'
  BY
     DEF RequestInPlace, LockInPlace, RegistrySteps, OrderLockSteps, Target, Id,
         Locks, RequestRecord
<1>5. SnapshotInPlace(t)'
  BY
     DEF RequestInPlace, LockInPlace, SnapshotInPlace, Committing, IsSnapshot,
         Target, Body, OrderLockSteps
<1> QED
  BY <1>1, <1>2, <1>3, <1>4, <1>5

(***************************************************************************)
(* EvaluateEvent keeps the invariant: apply_event computed the             *)
(* transition.                                                             *)
(***************************************************************************)
LEMMA EvaluateEventIndInv ==
  ASSUME IndInv, NEW t \in Threads,
         EvaluateEvent(t)
  PROVE  IndInv'
<1> USE ThreadsAssumption
   DEF IndInv, TypeOK, EvaluateEvent, Accepts, Goto, store, locking, locals,
       clients
<1>1. TypeOK'
  BY
     DEF RequestInPlace, RequestRecord, Operations, Steps, RegistrySteps,
         OrderLockSteps, Target, Id, Locks, RequestIds
<1>2. ASSUME NEW u \in Threads, u # t
      PROVE  RequestInPlace(u)' /\ LockInPlace(u)' /\ SnapshotInPlace(u)'
  BY <1>2, Frame DEF LockInPlace, RegistrySteps, Target
<1>3. RequestInPlace(t)'
  BY
     DEF RequestInPlace, Committing, RequestRecord, RequestIds, Operations,
         RegistrySteps, OrderLockSteps
<1>4. LockInPlace(t)'
  BY
     DEF RequestInPlace, LockInPlace, RegistrySteps, OrderLockSteps, Target, Id,
         Locks, RequestRecord
<1>5. SnapshotInPlace(t)'
  BY
     DEF RequestInPlace, LockInPlace, SnapshotInPlace, Committing, IsSnapshot,
         Target, Body, OrderLockSteps
<1> QED
  BY <1>1, <1>2, <1>3, <1>4, <1>5

(***************************************************************************)
(* PassCheck keeps the invariant: the version check passes: with the       *)
(* version, the order is the one that was loaded.                          *)
(***************************************************************************)
LEMMA PassCheckIndInv ==
  ASSUME IndInv, NEW t \in Threads,
         PassCheck(t)
  PROVE  IndInv'
<1> USE ThreadsAssumption
   DEF IndInv, TypeOK, PassCheck, IsStale, Goto, store, locking, locals, clients
<1>1. TypeOK'
  BY
     DEF RequestInPlace, RequestRecord, Operations, Steps, RegistrySteps,
         OrderLockSteps, Target, Id, Locks, RequestIds
<1>2. ASSUME NEW u \in Threads, u # t
      PROVE  RequestInPlace(u)' /\ LockInPlace(u)' /\ SnapshotInPlace(u)'
  BY <1>2, Frame DEF LockInPlace, RegistrySteps, Target
<1>3. RequestInPlace(t)'
  BY
     DEF RequestInPlace, Committing, RequestRecord, RequestIds, Operations,
         RegistrySteps, OrderLockSteps
<1>4. LockInPlace(t)'
  BY
     DEF RequestInPlace, LockInPlace, RegistrySteps, OrderLockSteps, Target, Id,
         Locks, RequestRecord
<1>5. SnapshotInPlace(t)'
  BY
     DEF RequestInPlace, LockInPlace, SnapshotInPlace, Committing, IsSnapshot,
         Target, Body, OrderLockSteps
<1> QED
  BY <1>1, <1>2, <1>3, <1>4, <1>5


(***************************************************************************)
(* FinishGet keeps the invariant: get_order returns, or raises             *)
(* OrderNotFoundError.                                                     *)
(***************************************************************************)
LEMMA FinishGetIndInv ==
  ASSUME IndInv, NEW t \in Threads, FinishGet(t)
  PROVE  IndInv'
<1> DEFINE status == IF found[t] = None THEN "notFound" ELSE "read"
           told   == Tell(Target(t), VersionOf(found[t]))
<1>1. pc[t] \in OrderLockSteps /\ pc[t] # "idle" /\ status \in Outcomes
  BY DEF FinishGet, OrderLockSteps, Outcomes, Refusals
<1>2. \A o \in DOMAIN told : told[o] \in Int
  BY DEF IndInv, TypeOK, Tell, VersionOf, Order
<1>3. /\ Answer(t, status, told) /\ ReleaseOrderLock(t)
      /\ UNCHANGED <<orders, tickets, orderLocks, registryLock>>
  BY DEF FinishGet, store
<1> HIDE DEF status, told
<1> QED
  BY <1>1, <1>2, <1>3, AnswerIndInv

(***************************************************************************)
(* LookUpLock keeps the invariant: get_order_lock finds the lock or goes   *)
(* on to allocate it.                                                      *)
(***************************************************************************)
LEMMA LookUpLockIndInv ==
  ASSUME IndInv, NEW t \in Threads, LookUpLock(t)
  PROVE  IndInv'
<1> USE DEF IndInv, TypeOK, LookUpLock, LeaveRegistry, Goto, store, clients
<1>1. Target(t) \in OrderIds
  BY DEF RequestInPlace, Target
<1>2. CASE orderLocks[Target(t)] = None
  <2> USE <1>2
  <2>1. TypeOK'
    BY DEF Steps, RegistrySteps
  <2>2. ASSUME NEW u \in Threads, u # t
        PROVE  RequestInPlace(u)' /\ LockInPlace(u)' /\ SnapshotInPlace(u)'
    BY <2>2, Frame
  <2>3. RequestInPlace(t)' /\ LockInPlace(t)' /\ SnapshotInPlace(t)'
    BY DEF RequestInPlace, LockInPlace, SnapshotInPlace, RegistrySteps, OrderLockSteps,
           Committing, IsSnapshot, Target, Body
  <2> QED
    BY <2>1, <2>2, <2>3
<1>3. CASE orderLocks[Target(t)] # None
  <2> USE <1>3
  <2>1. TypeOK'
    BY <1>1 DEF Steps
  <2>2. ASSUME NEW u \in Threads, u # t
        PROVE  RequestInPlace(u)' /\ LockInPlace(u)' /\ SnapshotInPlace(u)'
    BY <2>2, Frame DEF LockInPlace, RegistrySteps
  <2>3. RequestInPlace(t)' /\ LockInPlace(t)' /\ SnapshotInPlace(t)'
    BY <1>1 DEF RequestInPlace, LockInPlace, SnapshotInPlace, RegistrySteps, OrderLockSteps,
           Committing, IsSnapshot, Target, Body
  <2> QED
    BY <2>1, <2>2, <2>3
<1> QED
  BY <1>2, <1>3

(***************************************************************************)
(* ListOrders keeps the invariant: list_summaries returns.                 *)
(***************************************************************************)
LEMMA ListOrdersIndInv ==
  ASSUME IndInv, NEW t \in Threads, ListOrders(t)
  PROVE  IndInv'
<1>1. \A o \in OrderIds : VersionOf(orders[o]) \in Int
  BY DEF IndInv, TypeOK, VersionOf, Order
<1>2. pc[t] \in RegistrySteps /\ pc[t] # "idle" /\ "listed" \in Outcomes
  BY DEF ListOrders, RegistrySteps, Outcomes
<1> DEFINE told == [o \in OrderIds |-> VersionOf(orders[o])]
<1>3. \A o \in DOMAIN told : told[o] \in Int
  BY <1>1
<1>4. Answer(t, "listed", told) /\ LeaveRegistry /\ UNCHANGED <<orders, tickets, orderLocks, holder>>
  BY DEF ListOrders, store
<1> HIDE DEF told
<1> QED
  BY <1>2, <1>3, <1>4, AnswerIndInv

(***************************************************************************)
(* AllocateLock keeps the invariant: get_order_lock allocates the lock:    *)
(* no other thread is at that order, for none has a lock of it.            *)
(***************************************************************************)
LEMMA AllocateLockIndInv ==
  ASSUME IndInv, NEW t \in Threads, AllocateLock(t)
  PROVE  IndInv'
<1> USE ThreadsAssumption
   DEF IndInv, TypeOK, AllocateLock, LeaveRegistry, Goto, store, locking,
       locals, clients
<1>1. Target(t) \in OrderIds /\ Id(t) \in RequestIds
  BY DEF RequestInPlace, RequestRecord, Target, Id
<1>2. <<Target(t), Id(t)>> \in Locks
  BY <1>1 DEF Locks
<1>3. TypeOK'
  BY <1>1, <1>2 DEF Steps
<1>4. ASSUME NEW u \in Threads, u # t
      PROVE  RequestInPlace(u)' /\ LockInPlace(u)' /\ SnapshotInPlace(u)'
  <2>1. RequestInPlace(u)' /\ SnapshotInPlace(u)'
    BY <1>4, Frame
  <2>2. pc[u] \in RegistrySteps => FALSE
    BY <1>4 DEF LockInPlace, RegistrySteps
  <2>3. orderLocks[Target(t)] = None
    BY DEF LockInPlace
  <2>4. LockInPlace(u)'
    BY <1>1, <1>4, <2>2, <2>3 DEF LockInPlace, Target, RegistrySteps, OrderLockSteps
  <2> QED
    BY <2>1, <2>4
<1>5. RequestInPlace(t)' /\ SnapshotInPlace(t)'
  BY DEF RequestInPlace, SnapshotInPlace, IsSnapshot, Target, Body, Committing
<1>6. LockInPlace(t)'
  BY <1>1, <1>2 DEF LockInPlace, RegistrySteps, OrderLockSteps, Target
<1> QED
  BY <1>3, <1>4, <1>5, <1>6

(***************************************************************************)
(* FinishLoad keeps the invariant: get_by_id returns to apply_event.       *)
(***************************************************************************)
LEMMA FinishLoadIndInv ==
  ASSUME IndInv, NEW t \in Threads, FinishLoad(t)
  PROVE  IndInv'
<1> USE ThreadsAssumption DEF IndInv, TypeOK, FinishLoad, Goto, store
<1>1. TypeOK'
  BY DEF ReleaseOrderLock, clients, Steps
<1>2. ASSUME NEW u \in Threads, u # t
      PROVE  RequestInPlace(u)' /\ LockInPlace(u)' /\ SnapshotInPlace(u)'
  <2>1. pc[u] \in OrderLockSteps => holder'[lock[u]] = holder[lock[u]]
    BY <1>2, OthersKeepLocks DEF LockInPlace, OrderLockSteps
  <2> QED
    BY <1>2, <2>1, Frame
<1>3. RequestInPlace(t)' /\ LockInPlace(t)'
  BY DEF RequestInPlace, LockInPlace, RegistrySteps, OrderLockSteps, Committing
<1>4. SnapshotInPlace(t)'
  <2>1. found[t] = orders[Target(t)] /\ found[t] \in Order /\ found[t] # None
    BY DEF SnapshotInPlace, Committing
  <2>2. found[t].version \in Nat
    BY <2>1 DEF Order
  <2>3. /\ pc'[t] = "evaluate" /\ loaded'[t] = found[t] /\ request' = request
        /\ orders' = orders
    OBVIOUS
  <2> HIDE DEF FinishLoad, TypeOK, IndInv
  <2> QED
    BY <2>1, <2>2, <2>3 DEF SnapshotInPlace, IsSnapshot, Target
<1> QED
  BY <1>1, <1>2, <1>3, <1>4

(***************************************************************************)
(* WriteTicket keeps the invariant: storing the ticket.                    *)
(***************************************************************************)
LEMMA WriteTicketIndInv ==
  ASSUME IndInv, NEW t \in Threads, WriteTicket(t)
  PROVE  IndInv'
<1> USE ThreadsAssumption
   DEF IndInv, TypeOK, WriteTicket, LeaveRegistry, Goto, locals, clients
<1>1. \A k \in NewTickets(t) : k.id \in RequestIds /\ k.order \in OrderIds
  BY DEF NewTickets, SupportTickets, RequestInPlace, RequestRecord, Id, Target, Committing
<1>2. TypeOK'
  BY <1>1 DEF Steps, OrderLockSteps
<1>3. ASSUME NEW u \in Threads, u # t
      PROVE  RequestInPlace(u)' /\ LockInPlace(u)' /\ SnapshotInPlace(u)'
  BY <1>3, Frame DEF LockInPlace, RegistrySteps
<1>4. RequestInPlace(t)' /\ LockInPlace(t)' /\ SnapshotInPlace(t)'
  BY DEF RequestInPlace, LockInPlace, SnapshotInPlace, RegistrySteps, OrderLockSteps,
         Committing, Target
<1> QED
  BY <1>2, <1>3, <1>4

(***************************************************************************)
(* InsertOrder keeps the invariant: create stores the order, or finds      *)
(* one.                                                                    *)
(***************************************************************************)
LEMMA InsertOrderIndInv ==
  ASSUME IndInv, NEW t \in Threads, InsertOrder(t)
  PROVE  IndInv'
<1>1. CASE orders[Target(t)] # None
  <2>1. pc[t] \in RegistrySteps /\ pc[t] \in OrderLockSteps /\ pc[t] # "idle"
    BY DEF InsertOrder, RegistrySteps, OrderLockSteps
  <2>2. "exists" \in Outcomes /\ \A o \in DOMAIN TellNothing : TellNothing[o] \in Int
    BY DEF Outcomes, Refusals, TellNothing
  <2>3. /\ Answer(t, "exists", TellNothing) /\ LeaveRegistry /\ ReleaseOrderLock(t)
        /\ UNCHANGED <<orders, tickets, orderLocks>>
    BY <1>1 DEF InsertOrder
  <2> QED
    BY <2>1, <2>2, <2>3, AnswerIndInv
<1>2. CASE orders[Target(t)] = None
  <2> USE <1>2, ThreadsAssumption
     DEF IndInv, TypeOK, InsertOrder, LeaveRegistry, Goto, locals, clients
  <2>1. Target(t) \in OrderIds /\ request[t].operation = "create"
    BY DEF RequestInPlace, Target
  <2>2. loaded[t] \in Order
    BY <2>1 DEF RequestInPlace
  <2>3. TypeOK'
    BY <2>1, <2>2 DEF Steps, OrderLockSteps
  <2>4. ASSUME NEW u \in Threads, u # t
        PROVE  RequestInPlace(u)' /\ LockInPlace(u)' /\ SnapshotInPlace(u)'
    <3>1. pc[u] \in OrderLockSteps => Target(u) # Target(t)
      BY <2>4, OneHolder DEF OrderLockSteps
    <3>2. RequestInPlace(u)' /\ LockInPlace(u)'
      BY <2>4, Frame DEF LockInPlace, RegistrySteps
    <3>3. /\ pc'[u] = pc[u] /\ request'[u] = request[u] /\ loaded'[u] = loaded[u]
          /\ found'[u] = found[u]
          /\ \A o \in OrderIds : o # Target(t) => orders'[o] = orders[o]
      BY <2>4, <2>1
    <3>4. pc[u] \notin {"idle", "writeTicket", "release"} /\ Committing(u) => Target(u) # Target(t)
      BY DEF SnapshotInPlace, IsSnapshot
    <3>5. pc[u] # "idle" /\ request[u].operation # "list" => Target(u) \in OrderIds
      BY DEF RequestInPlace, Target
    <3>6. pc[u] \in OrderLockSteps \/ Committing(u) => pc[u] = "idle" \/ request[u].operation # "list"
      BY DEF RequestInPlace, OrderLockSteps, Committing
    <3>7. SnapshotInPlace(u)
      OBVIOUS
    <3> HIDE DEF IndInv, TypeOK, InsertOrder
    <3> QED
      BY <3>1, <3>2, <3>3, <3>4, <3>5, <3>6, <3>7
         DEF SnapshotInPlace, IsSnapshot, Committing, Target, Body, OrderLockSteps
  <2>5. RequestInPlace(t)' /\ LockInPlace(t)' /\ SnapshotInPlace(t)'
    BY <2>1 DEF RequestInPlace, LockInPlace, SnapshotInPlace, RegistrySteps, OrderLockSteps,
           Committing, Target
  <2> QED
    BY <2>3, <2>4, <2>5
<1> QED
  BY <1>1, <1>2

(***************************************************************************)
(* WriteOrder keeps the invariant: commit_transition stores the order: no  *)
(* other thread is between its check and its write of it, and the          *)
(* snapshots others have of it are now of the past.                        *)
(***************************************************************************)
LEMMA WriteOrderIndInv ==
  ASSUME IndInv, NEW t \in Threads, WriteOrder(t)
  PROVE  IndInv'
<1> DEFINE o == Target(t)
<1>1. /\ o \in OrderIds /\ Id(t) \in Nat /\ Body(t) \in Requests /\ loaded[t] \in Order
      /\ request[t].operation = "apply"
      /\ pc[t] = "write"
  BY ThreadsAssumption
     DEF IndInv, TypeOK, RequestInPlace, RequestRecord, RequestIds, Target, Id,
         Body, Committing, WriteOrder
<1>2. loaded[t] = orders[o] /\ IsEnabled(loaded[t].state, Body(t).event)
  BY <1>1 DEF IndInv, RequestInPlace, SnapshotInPlace
<1>3. Committed(t) \in Order /\ Committed(t).version = orders[o].version + 1
  BY <1>1, <1>2, UpdatedOrderIsOrder DEF Committed, Evaluation
<1>4. orders' = [orders EXCEPT ![o] = Committed(t)]
  BY DEF WriteOrder
<1>5. /\ UNCHANGED <<tickets, orderLocks, holder, request, lock, loaded, found, issued, outcome, known>>
      /\ \/ registryLock' = None /\ pc' = [pc EXCEPT ![t] = "release"]
         \/ registryLock' = registryLock /\ pc' = [pc EXCEPT ![t] = "writeTicket"]
  BY DEF WriteOrder, LeaveRegistry, Goto, locals, clients
<1> HIDE DEF o
<1>6. TypeOK'
  BY <1>1, <1>3, <1>4, <1>5 DEF IndInv, TypeOK, Steps, RegistrySteps, OrderLockSteps
<1>7. ASSUME NEW u \in Threads, u # t
      PROVE  RequestInPlace(u)' /\ LockInPlace(u)' /\ SnapshotInPlace(u)'
  <2>1. /\ pc'[u] = pc[u] /\ request'[u] = request[u] /\ lock'[u] = lock[u]
        /\ loaded'[u] = loaded[u] /\ found'[u] = found[u]
    BY <1>5, <1>7 DEF IndInv, TypeOK
  <2>2. pc[u] \notin RegistrySteps
    BY <1>1, <1>7 DEF IndInv, LockInPlace, RegistrySteps
  <2>3. RequestInPlace(u)' /\ LockInPlace(u)'
    BY <1>5, <2>1, <2>2, Frame DEF IndInv
  <2>4. pc[u] \in OrderLockSteps => Target(u) # o
    BY <1>1, <1>7, OneHolder DEF OrderLockSteps, o
  <2>5. ASSUME Target(u) # o
        PROVE  orders'[Target(u)] = orders[Target(u)]
    BY <1>4, <2>5 DEF IndInv, TypeOK
  <2>6. ASSUME Target(u) = o, loaded[u] \in Order, IsSnapshot(loaded[u], o)
        PROVE  /\ orders'[o] # None
               /\ loaded[u].version < orders'[o].version
    <3>1. orders'[o] = Committed(t)
      BY <1>1, <1>4 DEF IndInv, TypeOK
    <3>2. /\ loaded[u].version \in Nat /\ orders[o].version \in Nat
          /\ Committed(t) # None
      BY <1>1, <1>2, <1>3, <2>6, ServiceAssumption DEF Order
    <3> QED
      BY <1>3, <2>6, <3>1, <3>2 DEF IsSnapshot
  <2>7. SnapshotInPlace(u) /\ (Committing(u) => loaded[u] \in Order)
    BY DEF IndInv, TypeOK, Committing
  <2>8. (pc[u] \notin {"idle", "writeTicket", "release"} /\ Committing(u)) =>
          /\ IsSnapshot(loaded[u], Target(u))'
          /\ pc[u] # "evaluate" => IsEnabled(loaded[u].state, Body(u).event)
    <3> SUFFICES ASSUME pc[u] \notin {"idle", "writeTicket", "release"}, Committing(u)
                 PROVE  /\ IsSnapshot(loaded[u], Target(u))'
                        /\ pc[u] # "evaluate" => IsEnabled(loaded[u].state, Body(u).event)
      OBVIOUS
    <3>1. /\ IsSnapshot(loaded[u], Target(u)) /\ loaded[u] \in Order
          /\ pc[u] # "evaluate" => IsEnabled(loaded[u].state, Body(u).event)
      BY <2>7 DEF SnapshotInPlace
    <3>2. CASE Target(u) = o
      <4>1. loaded[u].version < orders'[o].version /\ orders'[o] # None
        BY <2>6, <3>1, <3>2
      <4>2. orders'[o] \in Order
        BY <1>1, <1>3, <1>4 DEF IndInv, TypeOK
      <4>3. loaded[u].version \in Nat /\ orders'[o].version \in Nat
        BY <3>1, <4>2 DEF Order
      <4> QED
        BY <2>1, <3>1, <3>2, <4>1, <4>3 DEF IsSnapshot, Target
    <3>3. CASE Target(u) # o
      BY <2>1, <2>5, <3>1, <3>3 DEF IsSnapshot, Target
    <3> QED
      BY <3>1, <3>2, <3>3
  <2>9. SnapshotInPlace(u)'
    BY <2>1, <2>4, <2>5, <2>7, <2>8
       DEF SnapshotInPlace, Committing, Target, Body, OrderLockSteps
  <2> QED
    BY <2>3, <2>9
<1>8. RequestInPlace(t)' /\ LockInPlace(t)' /\ SnapshotInPlace(t)'
  BY <1>1, <1>5
     DEF IndInv, TypeOK, RequestInPlace, LockInPlace, SnapshotInPlace,
         RegistrySteps,
         OrderLockSteps, Committing, Target
<1> QED
  BY <1>6, <1>7, <1>8 DEF IndInv

(***************************************************************************)
(* Every step of the program keeps the invariant.                          *)
(***************************************************************************)
LEMMA NextIndInv == IndInv /\ [Next]_vars => IndInv'
<1> SUFFICES ASSUME IndInv, [Next]_vars
             PROVE  IndInv'
  OBVIOUS
<1>1. ASSUME NEW t \in Threads, ReceiveSome(t)
      PROVE  IndInv'
  BY <1>1, ReceiveCreateIndInv, ReceiveGetIndInv, ReceiveApplyIndInv, ReceiveListIndInv
     DEF ReceiveSome
<1>2. ASSUME NEW t \in Threads, Proceed(t)
      PROVE  IndInv'
  BY <1>2, FinishCreateIndInv, FinishGetIndInv, ListOrdersIndInv,
     FinishLoadIndInv, RefuseTransitionIndInv, RefuseOverridesIndInv,
     EvaluateEventIndInv, RejectStaleIndInv, PassCheckIndInv,
     WriteOrderIndInv, WriteTicketIndInv, FinishApplyIndInv,
     EnterRegistryIndInv, LookUpLockIndInv, AllocateLockIndInv,
     AcquireOrderLockIndInv, InsertOrderIndInv, ReadOrderIndInv
     DEF Proceed
<1>3. CASE UNCHANGED vars
  BY <1>3
     DEF vars, store, locking, locals, clients, IndInv, TypeOK, RequestInPlace, LockInPlace,
         SnapshotInPlace, IsSnapshot, Committing, Target, Body
<1> QED
  BY <1>1, <1>2, <1>3 DEF Next, Exhausted

(***************************************************************************)
(* The inductive invariant holds throughout.                               *)
(***************************************************************************)
THEOREM Invariance == Spec => []IndInv
BY InitIndInv, NextIndInv, PTL DEF Spec

(***************************************************************************)
(* Type correctness: the store, the locks and the threads' copies keep     *)
(* their types, with any rules and any number of threads.                  *)
(***************************************************************************)
THEOREM TypeCorrect == Spec => []TypeOK
<1>1. IndInv => TypeOK
  BY DEF IndInv
<1> QED
  BY <1>1, Invariance, PTL

(***************************************************************************)
(* No lost update: from the version check to the write, the stored order   *)
(* is the one the transition was computed from. (commit_transition.)       *)
(***************************************************************************)
THEOREM NoLostUpdate == Spec => []CommitsOnWhatWasLoaded
<1>1. IndInv => CommitsOnWhatWasLoaded
  BY DEF IndInv, SnapshotInPlace, CommitsOnWhatWasLoaded
<1> QED
  BY <1>1, Invariance, PTL

(***************************************************************************)
(* A version conflict is only reported of an order that moved on since it  *)
(* was loaded: with an equal version the snapshot is the stored order, and *)
(* orders are never removed. (commit_transition.)                          *)
(***************************************************************************)
THEOREM ConflictsAreReal == Spec => ConflictMeansMoved
<1>1. ASSUME IndInv, NEW t \in Threads, RejectStale(t)
      PROVE  orders[Target(t)].version > loaded[t].version
  <2>1. /\ found[t] = orders[Target(t)] /\ IsSnapshot(loaded[t], Target(t))
        /\ Target(t) \in OrderIds /\ loaded[t] \in Order
    BY <1>1
       DEF IndInv, TypeOK, RequestInPlace, SnapshotInPlace, Committing, Target,
           RejectStale
  <2>2. loaded[t].version \in Nat /\ orders[Target(t)].version \in Nat
    BY <1>1, <2>1 DEF IndInv, TypeOK, IsSnapshot, Order
  <2>3. loaded[t].version # orders[Target(t)].version
    BY <1>1, <2>1 DEF RejectStale, IsStale, IsSnapshot
  <2> QED
    BY <2>1, <2>2, <2>3 DEF IsSnapshot
<1>2. IndInv /\ [Next]_vars =>
        [\A t \in Threads :
           RejectStale(t) => orders[Target(t)].version > loaded[t].version]_vars
  BY <1>1
<1> QED
  BY <1>2, Invariance, PTL DEF Spec, ConflictMeansMoved

-----------------------------------------------------------------------------
(* Answers, reads and the ledger *)

(***************************************************************************)
(* Nothing is recorded in an empty store. (InMemoryStore.__init__.)        *)
(***************************************************************************)
LEMMA InitAnswersInv == Init => AnswersInv
<1> SUFFICES ASSUME Init
             PROVE  AnswersInv
  OBVIOUS
<1>1. IndInv
  BY InitIndInv
<1>2. \A i \in RequestIds : Records(i) = {}
  BY DEF Init, Records, RecordsIn
<1>3. \A t \in Threads : pc[t] = "idle"
  BY DEF Init
<1>4. \A i \in RequestIds : RecordInPlace(i)
  BY <1>2, <1>3 DEF Init, RecordInPlace, HasWritten
<1>5. \A t \in Threads : NumberInPlace(t) /\ CopyInPlace(t) /\ ToldInPlace(t)
  BY <1>3 DEF NumberInPlace, CopyInPlace, ToldInPlace, HasWritten
<1>6. \A o \in OrderIds : IsStored(o, known[o])
  BY DEF Init, IsStored, VersionOf
<1> QED
  BY <1>1, <1>4, <1>5, <1>6 DEF AnswersInv, LedgerInv, ReadInv

-----------------------------------------------------------------------------
(* Steps that store no order *)

(***************************************************************************)
(* The records are those of the stored orders.                             *)
(***************************************************************************)
LEMMA RecordsStay ==
  ASSUME orders' = orders, NEW i
  PROVE  Records(i)' = Records(i)
BY DEF Records, RecordsIn

(***************************************************************************)
(* What a thread has in place it keeps while another one moves, if the     *)
(* stored orders stay as they are. (Local copies of a handler.)            *)
(***************************************************************************)
LEMMA OthersStay ==
  ASSUME NEW u \in Threads,
         pc'[u] = pc[u], request'[u] = request[u], loaded'[u] = loaded[u]
  PROVE  /\ CopyInPlace(u) => CopyInPlace(u)'
         /\ HasWritten(u)' <=> HasWritten(u)
         /\ Id(u)' = Id(u)
         /\ orders' = orders /\ ToldInPlace(u) => ToldInPlace(u)'
BY DEF CopyInPlace, HasWritten, Id, ToldInPlace, IsStored, Committing, Target, Body

(***************************************************************************)
(* A thread that goes on with its request, without storing an order.       *)
(***************************************************************************)
LEMMA QuietStep ==
  ASSUME AnswersInv, IndInv', NEW t \in Threads,
         UNCHANGED <<orders, request, issued, outcome, known>>,
         \A u \in Threads : u # t => pc'[u] = pc[u] /\ loaded'[u] = loaded[u],
         pc[t] # "idle", pc'[t] # "idle",
         HasWritten(t)' <=> HasWritten(t),
         CopyInPlace(t)', ToldInPlace(t)'
  PROVE  AnswersInv'
<1> USE DEF AnswersInv, LedgerInv, ReadInv
<1>1. ASSUME NEW u \in Threads
      PROVE  /\ CopyInPlace(u)' /\ ToldInPlace(u)'
             /\ HasWritten(u)' <=> HasWritten(u)
             /\ Id(u)' = Id(u)
  <2>1. CASE u = t
    BY <2>1 DEF Id
  <2>2. CASE u # t
    BY <2>2, OthersStay
  <2> QED
    BY <2>1, <2>2
<1>2. ASSUME NEW u \in Threads
      PROVE  NumberInPlace(u)'
  BY <1>1 DEF NumberInPlace
<1>3. ASSUME NEW i \in RequestIds
      PROVE  RecordInPlace(i)'
  <2>1. Records(i)' = Records(i)
    BY RecordsStay
  <2> QED
    BY <1>1, <2>1 DEF RecordInPlace
<1>4. ASSUME NEW o \in OrderIds
      PROVE  IsStored(o, known[o])'
  BY DEF IsStored
<1> QED
  BY <1>1, <1>2, <1>3, <1>4

(***************************************************************************)
(* A thread that answers: what it says of its request is what the store    *)
(* has of it, and the versions it tells are stored.                        *)
(***************************************************************************)
LEMMA AnswerStep ==
  ASSUME AnswersInv, IndInv', NEW t \in Threads, NEW status, NEW told,
         pc[t] # "idle", Answer(t, status, told), orders' = orders,
         status # "none", status = "applied" <=> HasWritten(t),
         \A o \in OrderIds \cap DOMAIN told : IsStored(o, told[o])
  PROVE  AnswersInv'
<1> USE DEF AnswersInv, LedgerInv, ReadInv
<1>1. /\ pc'[t] = "idle"
      /\ \A u \in Threads : u # t => /\ pc'[u] = pc[u] /\ request'[u] = request[u]
                                     /\ loaded'[u] = loaded[u]
      /\ issued' = issued
      /\ Id(t) \in RequestIds
      /\ outcome' = [outcome EXCEPT ![Id(t)] = status]
      /\ outcome \in [RequestIds -> Outcomes]
  BY DEF Answer, Goto, IndInv, TypeOK, RequestInPlace, RequestRecord, Id
<1>2. ASSUME NEW u \in Threads
      PROVE  /\ CopyInPlace(u)' /\ ToldInPlace(u)'
             /\ u # t => (HasWritten(u)' <=> HasWritten(u)) /\ Id(u)' = Id(u)
             /\ u = t => ~HasWritten(u)'
  <2>1. CASE u = t
    BY <1>1, <2>1 DEF CopyInPlace, ToldInPlace, HasWritten
  <2>2. CASE u # t
    BY <1>1, <2>2, OthersStay
  <2> QED
    BY <2>1, <2>2
<1>3. ASSUME NEW u \in Threads
      PROVE  NumberInPlace(u)'
  BY <1>1, <1>2 DEF NumberInPlace
<1>4. ASSUME NEW i \in RequestIds
      PROVE  RecordInPlace(i)'
  <2>1. Records(i)' = Records(i)
    BY RecordsStay
  <2>2. \A u \in Threads : HasWritten(u) => pc[u] # "idle"
    BY DEF HasWritten
  <2>3. RecordInPlace(i) /\ NumberInPlace(t)
    OBVIOUS
  <2>4. CASE i = Id(t)
    <3>1. outcome'[i] = status /\ i <= issued /\ outcome[i] = "none"
      BY <1>1, <2>3, <2>4 DEF NumberInPlace
    <3>2. \A u \in Threads : HasWritten(u) /\ Id(u) = i => u = t
      BY <2>2, <2>3, <2>4 DEF NumberInPlace
    <3>3. ~\E u \in Threads : HasWritten(u)' /\ Id(u)' = i
      BY <1>2, <3>2
    <3>4. Records(i) # {} <=> HasWritten(t)
      BY <2>3, <2>4, <3>1, <3>2 DEF RecordInPlace
    <3> QED
      BY <1>1, <2>1, <2>3, <3>1, <3>3, <3>4 DEF RecordInPlace, IndInv, TypeOK, RequestIds
  <2>5. CASE i # Id(t)
    <3>1. outcome'[i] = outcome[i]
      BY <1>1, <2>5
    <3>2. \A u \in Threads : HasWritten(u)' /\ Id(u)' = i <=> HasWritten(u) /\ Id(u) = i
      BY <1>2, <2>5
    <3> QED
      BY <1>1, <2>1, <2>3, <3>1, <3>2 DEF RecordInPlace
  <2> QED
    BY <2>4, <2>5
<1>5. ASSUME NEW o \in OrderIds
      PROVE  IsStored(o, known[o])'
  BY DEF Answer, IsStored
<1> QED
  BY <1>2, <1>3, <1>4, <1>5

(***************************************************************************)
(* A thread that takes up a request gives it a number nobody had.          *)
(***************************************************************************)
LEMMA ReceiveStep ==
  ASSUME AnswersInv, IndInv', NEW t \in Threads, NEW operation, NEW o, NEW body,
         NEW step \in {"getLock", "enterList"}, Receive(t, operation, o, body, step),
         \A u \in Threads : u # t => loaded'[u] = loaded[u],
         operation = "create" =>
           \E amount \in Amounts, count \in ProductCounts :
             loaded'[t] = NewOrder(amount, count),
         operation # "create" => loaded' = loaded
  PROVE  AnswersInv'
<1> USE DEF AnswersInv, LedgerInv, ReadInv
<1>1. /\ pc[t] = "idle" /\ pc'[t] = step
      /\ \A u \in Threads : u # t => /\ pc'[u] = pc[u] /\ request'[u] = request[u]
                                     /\ loaded'[u] = loaded[u]
      /\ issued' = issued + 1 /\ issued \in Nat /\ issued < MaxRequests
      /\ orders' = orders /\ outcome' = outcome /\ known' = known
      /\ request'[t] = [operation |-> operation, order |-> o, body |-> body,
                        id |-> issued + 1, floor |-> known]
  BY DEF Receive, Goto, store, IndInv, TypeOK
<1>2. Id(t)' = issued + 1 /\ request'[t].operation = operation /\ request'[t].floor = known
  BY <1>1 DEF Id
<1>3. loaded[t] = None
  BY <1>1 DEF IndInv, RequestInPlace
<1>4. ~HasWritten(t) /\ ~HasWritten(t)'
  BY <1>1 DEF HasWritten
<1>5. CopyInPlace(t)'
  BY <1>1, <1>2, <1>3 DEF CopyInPlace, Committing
<1>6. ToldInPlace(t)'
  BY <1>1, <1>2, <1>4 DEF ToldInPlace, IsStored
<1>7. ASSUME NEW u \in Threads
      PROVE  /\ CopyInPlace(u)' /\ ToldInPlace(u)'
             /\ HasWritten(u)' <=> HasWritten(u)
             /\ u # t => Id(u)' = Id(u)
  BY <1>1, <1>4, <1>5, <1>6, OthersStay
<1>8. issued + 1 \in RequestIds /\ outcome[issued + 1] = "none"
  BY <1>1, ThreadsAssumption DEF RecordInPlace, RequestIds
<1>9. ASSUME NEW u \in Threads
      PROVE  NumberInPlace(u)'
  <2>1. \A v \in Threads : v # t /\ pc[v] # "idle" => Id(v) <= issued /\ Id(v) \in Int
    BY ThreadsAssumption
       DEF NumberInPlace, IndInv, RequestInPlace, RequestRecord, RequestIds, Id
  <2> QED
    BY <1>1, <1>2, <1>7, <1>8, <2>1 DEF NumberInPlace
<1>10. ASSUME NEW i \in RequestIds
       PROVE  RecordInPlace(i)'
  <2>1. Records(i)' = Records(i)
    BY <1>1, RecordsStay
  <2>2. \A u \in Threads : HasWritten(u)' /\ Id(u)' = i <=> HasWritten(u) /\ Id(u) = i
    BY <1>4, <1>7
  <2>3. i > issued' => i > issued
    BY <1>1 DEF RequestIds
  <2> QED
    BY <1>1, <2>1, <2>2, <2>3 DEF RecordInPlace
<1>11. ASSUME NEW p \in OrderIds
       PROVE  IsStored(p, known[p])'
  BY <1>1 DEF IsStored
<1> QED
  BY <1>7, <1>9, <1>10, <1>11

(***************************************************************************)
(* Taking up a request, of any route. (routers/orders.py.)                 *)
(***************************************************************************)
LEMMA ReceiveSomeKeeps ==
  ASSUME AnswersInv, IndInv', NEW t \in Threads, ReceiveSome(t)
  PROVE  AnswersInv'
<1> USE DEF AnswersInv, LedgerInv, IndInv, TypeOK
<1>1. CASE ReceiveList(t)
  BY <1>1, ReceiveStep DEF ReceiveList
<1>2. ASSUME NEW o \in OrderIds, NEW amount \in Amounts, NEW count \in ProductCounts,
             ReceiveCreate(t, o, amount, count)
      PROVE  AnswersInv'
  <2>1. loaded'[t] = NewOrder(amount, count) /\ \A u \in Threads : u # t => loaded'[u] = loaded[u]
    BY <1>2 DEF ReceiveCreate
  <2> QED
    BY <1>2, <2>1, ReceiveStep DEF ReceiveCreate
<1>3. ASSUME NEW o \in OrderIds, ReceiveGet(t, o)
      PROVE  AnswersInv'
  BY <1>3, ReceiveStep DEF ReceiveGet
<1>4. ASSUME NEW o \in OrderIds, NEW body \in Requests, ReceiveApply(t, o, body)
      PROVE  AnswersInv'
  BY <1>4, ReceiveStep DEF ReceiveApply
<1> QED
  BY <1>1, <1>2, <1>3, <1>4 DEF ReceiveSome

(***************************************************************************)
(* The steps that take locks, read, compare and evaluate, and the write of *)
(* the ticket. (in_memory_order_repository.py, order_service.py.)          *)
(***************************************************************************)
LEMMA QuietStepsKeep ==
  ASSUME AnswersInv, IndInv', NEW t \in Threads,
         \/ EnterRegistry(t) \/ LookUpLock(t) \/ AllocateLock(t) \/ AcquireOrderLock(t)
         \/ ReadOrder(t) \/ PassCheck(t) \/ EvaluateEvent(t) \/ WriteTicket(t)
         \/ FinishLoad(t)
  PROVE  AnswersInv'
<1> USE DEF AnswersInv, LedgerInv, ReadInv, IndInv, TypeOK
<1>1. /\ UNCHANGED <<orders, request, issued, outcome, known>>
      /\ \A u \in Threads : u # t => pc'[u] = pc[u] /\ loaded'[u] = loaded[u]
      /\ pc[t] # "idle"
  BY DEF EnterRegistry, LookUpLock, AllocateLock, AcquireOrderLock, ReadOrder, PassCheck,
         EvaluateEvent, WriteTicket, FinishLoad, Goto, store, locking, locals, clients
<1>2. /\ CopyInPlace(t) /\ ToldInPlace(t) /\ RequestInPlace(t)
  OBVIOUS
<1>3. CASE EnterRegistry(t)
  <2>1. loaded' = loaded /\ pc'[t] \in {"lookUp", "list", "write", "insert", "read"}
        /\ pc[t] \in {"getLock", "enterList", "enter", "enterWrite"}
    BY <1>3 DEF EnterRegistry, RegistrySection, Goto, locals
  <2>2. pc'[t] # "idle" /\ ~HasWritten(t) /\ ~HasWritten(t)' /\ CopyInPlace(t)' /\ ToldInPlace(t)'
    BY <1>1, <1>2, <2>1
       DEF HasWritten, CopyInPlace, ToldInPlace, IsStored, Committing, Body
  <2> QED
    BY <1>1, <2>2, QuietStep
<1>4. CASE LookUpLock(t) \/ AllocateLock(t) \/ AcquireOrderLock(t) \/ PassCheck(t)
  <2>1. /\ loaded' = loaded
        /\ pc[t] \in {"lookUp", "allocate", "acquire", "check"}
        /\ pc'[t] \in {"allocate", "acquire", "enter", "enterWrite"}
    BY <1>4 DEF LookUpLock, AllocateLock, AcquireOrderLock, PassCheck, Goto, locals
  <2>2. pc'[t] # "idle" /\ ~HasWritten(t) /\ ~HasWritten(t)' /\ CopyInPlace(t)' /\ ToldInPlace(t)'
    BY <1>1, <1>2, <2>1
       DEF HasWritten, CopyInPlace, ToldInPlace, IsStored, Committing, Body
  <2> QED
    BY <1>1, <2>2, QuietStep
<1>5. CASE ReadOrder(t)
  <2>1. /\ loaded' = loaded /\ pc[t] = "read" /\ request[t].operation # "create"
        /\ pc'[t] = IF Committing(t) THEN "check" ELSE "release"
    BY <1>2, <1>5 DEF ReadOrder, RequestInPlace, Goto
  <2>2. pc'[t] # "idle" /\ ~HasWritten(t) /\ ~HasWritten(t)' /\ CopyInPlace(t)' /\ ToldInPlace(t)'
    BY <1>1, <1>2, <2>1
       DEF HasWritten, CopyInPlace, ToldInPlace, IsStored, Committing, Body
  <2> QED
    BY <1>1, <2>2, QuietStep
<1>6. CASE EvaluateEvent(t)
  <2>1. /\ loaded' = loaded /\ pc[t] = "evaluate" /\ pc'[t] = "getLock"
        /\ Accepts(loaded[t], Body(t).event, Body(t).metadata)
    BY <1>6 DEF EvaluateEvent, Goto, locals
  <2>2. pc'[t] # "idle" /\ ~HasWritten(t) /\ ~HasWritten(t)' /\ CopyInPlace(t)' /\ ToldInPlace(t)'
    BY <1>1, <1>2, <2>1
       DEF HasWritten, CopyInPlace, ToldInPlace, IsStored, Committing, Body
  <2> QED
    BY <1>1, <2>2, QuietStep
<1>7. CASE WriteTicket(t)
  <2>1. /\ loaded' = loaded /\ pc[t] = "writeTicket" /\ pc'[t] = "release"
        /\ request[t].operation = "apply" /\ Committing(t)
    BY <1>2, <1>7 DEF WriteTicket, RequestInPlace, Committing, Goto, locals
  <2>2. pc'[t] # "idle" /\ HasWritten(t) /\ HasWritten(t)' /\ CopyInPlace(t)' /\ ToldInPlace(t)'
    BY <1>1, <1>2, <2>1
       DEF HasWritten, CopyInPlace, ToldInPlace, IsStored, Committing, Body, Target
  <2> QED
    BY <1>1, <2>2, QuietStep
<1>8. CASE FinishLoad(t)
  <2>1. /\ pc[t] = "release" /\ pc'[t] = "evaluate"
        /\ request[t].operation = "apply" /\ ~Committing(t)
    BY <1>8 DEF FinishLoad, Committing, Goto
  <2>2. pc'[t] # "idle" /\ ~HasWritten(t) /\ ~HasWritten(t)' /\ CopyInPlace(t)' /\ ToldInPlace(t)'
    BY <1>1, <1>2, <2>1
       DEF HasWritten, CopyInPlace, ToldInPlace, IsStored, Committing, Body
  <2> QED
    BY <1>1, <2>2, QuietStep
<1> QED
  BY <1>3, <1>4, <1>5, <1>6, <1>7, <1>8

(***************************************************************************)
(* The answers: only the thread that wrote its transition says "applied",  *)
(* and what is shown was just read, or just written.                       *)
(* (order_service.py, exception_handlers.py.)                              *)
(***************************************************************************)
LEMMA AnswersKeep ==
  ASSUME AnswersInv, IndInv', NEW t \in Threads,
         \/ FinishCreate(t) \/ FinishGet(t) \/ ListOrders(t) \/ FinishApply(t)
         \/ RefuseTransition(t) \/ RefuseOverrides(t) \/ RejectStale(t)
         \/ InsertOrder(t) /\ orders[Target(t)] # None
  PROVE  AnswersInv'
<1> USE DEF AnswersInv, LedgerInv, ReadInv, IndInv
<1>1. /\ RequestInPlace(t) /\ SnapshotInPlace(t) /\ ToldInPlace(t)
  OBVIOUS
<1>2. CASE FinishCreate(t)
  <2>1. /\ pc[t] = "release" /\ request[t].operation = "create" /\ orders' = orders
        /\ Answer(t, "created", Tell(Target(t), loaded[t].version))
    BY <1>2 DEF FinishCreate, store
  <2>2. ~HasWritten(t) /\ IsStored(Target(t), loaded[t].version)
    BY <1>1, <2>1 DEF HasWritten, Committing, ToldInPlace
  <2> QED
    BY <2>1, <2>2, AnswerStep DEF Tell
<1>3. CASE FinishGet(t)
  <2> DEFINE status == IF found[t] = None THEN "notFound" ELSE "read"
  <2>1. /\ pc[t] = "release" /\ request[t].operation # "create" /\ ~Committing(t)
        /\ orders' = orders
        /\ Answer(t, status, Tell(Target(t), VersionOf(found[t])))
    BY <1>3 DEF FinishGet, store, Committing
  <2>2. ~HasWritten(t) /\ found[t] = orders[Target(t)]
    BY <1>1, <2>1 DEF HasWritten, SnapshotInPlace
  <2>3. status # "none" /\ status # "applied"
    OBVIOUS
  <2>4. IsStored(Target(t), VersionOf(found[t]))
    <3>1. Target(t) \in OrderIds
      BY <1>1, <2>1 DEF RequestInPlace, Target
    <3>2. VersionOf(orders[Target(t)]) \in Int
      BY <3>1 DEF TypeOK, VersionOf, Order
    <3> QED
      BY <2>2, <3>2 DEF IsStored
  <2> HIDE DEF status
  <2> QED
    BY <2>1, <2>2, <2>3, <2>4, AnswerStep DEF Tell
<1>4. CASE ListOrders(t)
  <2> DEFINE told == [o \in OrderIds |-> VersionOf(orders[o])]
  <2>1. pc[t] = "list" /\ orders' = orders /\ Answer(t, "listed", told)
    BY <1>4 DEF ListOrders, store
  <2>2. ~HasWritten(t)
    BY <2>1 DEF HasWritten
  <2>3. ASSUME NEW o \in OrderIds
        PROVE  IsStored(o, told[o])
    BY DEF IsStored, VersionOf, TypeOK, Order
  <2> HIDE DEF told
  <2> QED
    BY <2>1, <2>2, <2>3, AnswerStep
<1>5. CASE FinishApply(t)
  <2>1. /\ pc[t] = "release" /\ Committing(t) /\ orders' = orders
        /\ Answer(t, "applied", Tell(Target(t), loaded[t].version + 1))
    BY <1>5 DEF FinishApply, store
  <2>2. HasWritten(t) /\ IsStored(Target(t), loaded[t].version + 1)
    BY <1>1, <2>1 DEF HasWritten, ToldInPlace
  <2> QED
    BY <2>1, <2>2, AnswerStep DEF Tell
<1>6. ASSUME NEW status \in Refusals, pc[t] \in {"evaluate", "check", "insert"},
             Answer(t, status, TellNothing), orders' = orders
      PROVE  AnswersInv'
  <2>1. ~HasWritten(t) /\ status # "none" /\ status # "applied"
    BY <1>6 DEF HasWritten, Refusals
  <2>2. DOMAIN TellNothing = {}
    BY DEF TellNothing
  <2> QED
    BY <1>6, <2>1, <2>2, AnswerStep
<1>7. CASE RefuseTransition(t) \/ RefuseOverrides(t) \/ RejectStale(t)
  BY <1>6, <1>7 DEF RefuseTransition, RefuseOverrides, RejectStale, Refusals, store
<1>8. CASE InsertOrder(t) /\ orders[Target(t)] # None
  BY <1>6, <1>8 DEF InsertOrder, Refusals
<1> QED
  BY <1>2, <1>3, <1>4, <1>5, <1>7, <1>8

-----------------------------------------------------------------------------
(* Steps that store an order *)

(***************************************************************************)
(* Versions only grow, so what was told stays told: the other threads keep *)
(* what they are about to tell. (commit_transition.)                       *)
(***************************************************************************)
LEMMA ToldStays ==
  ASSUME NEW u \in Threads, IndInv, IndInv', ToldInPlace(u), RequestInPlace(u),
         pc'[u] = pc[u], request'[u] = request[u], loaded'[u] = loaded[u],
         \A o \in OrderIds : VersionOf(orders[o]) <= VersionOf(orders'[o])
  PROVE  ToldInPlace(u)'
<1>1. \A o \in OrderIds : VersionOf(orders[o]) \in Int /\ VersionOf(orders'[o]) \in Int
  BY DEF IndInv, TypeOK, VersionOf, Order
<1>2. \A o \in OrderIds, version \in Int : IsStored(o, version) => IsStored(o, version)'
  BY <1>1 DEF IsStored
<1>3. pc[u] # "idle" => \A o \in OrderIds : request[u].floor[o] \in Int
  BY DEF RequestInPlace, RequestRecord
<1>4. pc[u] # "idle" /\ (request[u].operation = "create" \/ Committing(u)) =>
        Target(u) \in OrderIds /\ loaded[u].version \in Int
  BY DEF RequestInPlace, Committing, Target, IndInv, TypeOK, Order
<1>5. HasWritten(u)' <=> HasWritten(u)
  BY DEF HasWritten, Committing
<1>6. HasWritten(u) => pc[u] # "idle" /\ Committing(u)
  BY DEF HasWritten
<1>7. Target(u)' = Target(u)
  BY DEF Target
<1> QED
  BY <1>2, <1>3, <1>4, <1>5, <1>6, <1>7 DEF ToldInPlace

(***************************************************************************)
(* create stores an order that has no history.                             *)
(***************************************************************************)
LEMMA InsertStep ==
  ASSUME AnswersInv, IndInv', NEW t \in Threads, InsertOrder(t),
         orders[Target(t)] = None
  PROVE  AnswersInv'
<1> USE DEF AnswersInv, LedgerInv, ReadInv
<1> DEFINE p == Target(t)
<1>1. /\ pc[t] = "insert" /\ pc'[t] = "release"
      /\ \A u \in Threads : u # t => pc'[u] = pc[u]
      /\ orders' = [orders EXCEPT ![p] = loaded[t]]
      /\ UNCHANGED <<request, loaded, issued, outcome, known>>
      /\ request[t].operation = "create" /\ p \in OrderIds
  BY DEF InsertOrder, Goto, locals, clients, IndInv, TypeOK, RequestInPlace, Target
<1>2. loaded[t].history = <<>> /\ loaded[t].version = 0 /\ loaded[t] # None
  <2>1. \E amount \in Amounts, count \in ProductCounts : loaded[t] = NewOrder(amount, count)
    BY <1>1 DEF CopyInPlace
  <2>2. loaded[t] # None
    BY <1>1 DEF IndInv, RequestInPlace
  <2> QED
    BY <2>1, <2>2 DEF NewOrder
<1>3. /\ orders'[p] = loaded[t]
      /\ \A o \in OrderIds : o # p => orders'[o] = orders[o]
  BY <1>1 DEF IndInv, TypeOK
<1>4. \A o \in OrderIds : VersionOf(orders[o]) <= VersionOf(orders'[o])
  BY <1>2, <1>3 DEF VersionOf, IndInv, TypeOK, Order
<1>5. ASSUME NEW u \in Threads
      PROVE  /\ CopyInPlace(u)' /\ ToldInPlace(u)'
             /\ HasWritten(u)' <=> HasWritten(u)
             /\ Id(u)' = Id(u)
  <2>1. CASE u = t
    <3>1. CopyInPlace(u)' /\ ~HasWritten(u) /\ ~HasWritten(u)' /\ Id(u)' = Id(u)
      BY <1>1, <2>1 DEF CopyInPlace, HasWritten, Id, Committing
    <3>2. RequestInPlace(u) /\ ToldInPlace(u)
      BY DEF IndInv
    <3>3. \A o \in OrderIds : IsStored(o, request[u].floor[o])'
      BY <1>1, <1>4, <2>1, <3>2
         DEF ToldInPlace, IsStored, VersionOf, IndInv, TypeOK, Order, RequestInPlace,
             RequestRecord
    <3>4. IsStored(Target(u), loaded[u].version)'
      BY <1>1, <1>2, <1>3, <2>1 DEF IsStored, VersionOf, Target
    <3> QED
      BY <3>1, <3>3, <3>4, <1>1 DEF ToldInPlace
  <2>2. CASE u # t
    BY <1>1, <1>4, <2>2, OthersStay, ToldStays DEF IndInv
  <2> QED
    BY <2>1, <2>2
<1>6. ASSUME NEW u \in Threads
      PROVE  NumberInPlace(u)'
  <2>1. \A v \in Threads : pc'[v] # "idle" <=> pc[v] # "idle"
    BY <1>1
  <2> QED
    BY <1>1, <1>5, <2>1 DEF NumberInPlace
<1>7. ASSUME NEW i \in RequestIds
      PROVE  RecordInPlace(i)'
  <2>1. Records(i)' = Records(i)
    BY <1>1, <1>2, <1>3 DEF Records, RecordsIn
  <2> QED
    BY <1>1, <1>5, <2>1 DEF RecordInPlace
<1>8. ASSUME NEW o \in OrderIds
      PROVE  IsStored(o, known[o])'
  BY <1>1, <1>4 DEF IsStored, VersionOf, IndInv, TypeOK, Order
<1> QED
  BY <1>5, <1>6, <1>7, <1>8

(***************************************************************************)
(* commit_transition stores the order it computed, with an entry that no   *)
(* history had, one version above the one it replaces.                     *)
(***************************************************************************)
LEMMA WriteFacts ==
  ASSUME AnswersInv, NEW t \in Threads, WriteOrder(t)
  PROVE  /\ Target(t) \in OrderIds /\ Id(t) \in RequestIds /\ Body(t) \in Requests
         /\ Committing(t) /\ pc[t] = "write"
         /\ orders[Target(t)] = loaded[t] /\ loaded[t] \in Order
         /\ Accepts(loaded[t], Body(t).event, Body(t).metadata)
         /\ Committed(t) \in Order
         /\ Committed(t).version = loaded[t].version + 1
         /\ Committed(t).history = Append(loaded[t].history, EventEntry(Id(t), Evaluation(t)))
         /\ Records(Id(t)) = {}
<1> USE DEF AnswersInv, LedgerInv, IndInv
<1>1. pc[t] = "write"
  BY DEF WriteOrder
<1>2. /\ Committing(t) /\ request[t] \in RequestRecord
      /\ Target(t) \in OrderIds /\ Body(t) \in Requests /\ Id(t) \in RequestIds
  BY <1>1 DEF RequestInPlace, Committing, RequestRecord, Target, Body, Id
<1>3. loaded[t] = orders[Target(t)] /\ loaded[t] \in Order
  BY <1>1, <1>2 DEF SnapshotInPlace, TypeOK, Committing
<1>4. Accepts(loaded[t], Body(t).event, Body(t).metadata)
  BY <1>1, <1>2 DEF CopyInPlace
<1>5. Id(t) \in Nat
  BY <1>2, ThreadsAssumption DEF RequestIds
<1>6. Committed(t) \in Order /\ Committed(t).version = loaded[t].version + 1
  BY <1>2, <1>3, <1>4, <1>5, UpdatedOrderIsOrder DEF Committed, Evaluation, Accepts
<1>7. Committed(t).history = Append(loaded[t].history, EventEntry(Id(t), Evaluation(t)))
  BY DEF Committed, UpdatedOrder, Evaluation, Context
<1>8. Records(Id(t)) = {}
  <2>1. outcome[Id(t)] # "applied"
    BY <1>1 DEF NumberInPlace
  <2>2. ~\E u \in Threads : HasWritten(u) /\ Id(u) = Id(t)
    BY <1>1 DEF NumberInPlace, HasWritten
  <2> QED
    BY <1>2, <2>1, <2>2 DEF RecordInPlace
<1> QED
  BY <1>1, <1>2, <1>3, <1>4, <1>6, <1>7, <1>8

(***************************************************************************)
(* So the transition is recorded once, by the thread that will say so.     *)
(***************************************************************************)
LEMMA WriteStep ==
  ASSUME AnswersInv, IndInv', NEW t \in Threads, WriteOrder(t)
  PROVE  AnswersInv'
<1> USE DEF AnswersInv, LedgerInv, ReadInv
<1> DEFINE p == Target(t)
           entry == EventEntry(Id(t), Evaluation(t))
<1>1. /\ pc'[t] \in {"writeTicket", "release"}
      /\ \A u \in Threads : u # t => pc'[u] = pc[u]
      /\ orders' = [orders EXCEPT ![p] = Committed(t)]
      /\ UNCHANGED <<request, loaded, issued, outcome, known>>
  BY DEF WriteOrder, Goto, locals, clients, IndInv, TypeOK
<1>2. /\ p \in OrderIds /\ Id(t) \in RequestIds /\ Committing(t) /\ pc[t] = "write"
      /\ orders[p] = loaded[t] /\ loaded[t] \in Order /\ Committed(t) \in Order
      /\ Committed(t).version = loaded[t].version + 1
      /\ Committed(t).history = Append(loaded[t].history, entry)
      /\ Records(Id(t)) = {}
  BY WriteFacts
<1>3. entry.id = Id(t)
  BY DEF EventEntry
<1> HIDE DEF p, entry
<1>4. /\ orders'[p] = Committed(t)
      /\ \A o \in OrderIds : o # p => orders'[o] = orders[o]
  BY <1>1, <1>2 DEF IndInv, TypeOK
<1>5. /\ VersionOf(orders'[p]) = loaded[t].version + 1
      /\ \A o \in OrderIds : VersionOf(orders[o]) <= VersionOf(orders'[o])
      /\ \A o \in OrderIds : VersionOf(orders[o]) \in Int /\ VersionOf(orders'[o]) \in Int
      /\ loaded[t].version \in Nat
  <2>1. \A order \in Order : order.version \in Nat /\ order # None
    BY ServiceAssumption DEF Order
  <2>2. VersionOf(orders'[p]) = loaded[t].version + 1 /\ VersionOf(orders[p]) = loaded[t].version
        /\ loaded[t].version \in Nat
    BY <1>2, <1>4, <2>1 DEF VersionOf
  <2>3. \A o \in OrderIds : orders[o] \in Order \cup {None}
    BY DEF IndInv, TypeOK
  <2>4. \A o \in OrderIds : VersionOf(orders[o]) \in Int
    BY <2>1, <2>3 DEF VersionOf
  <2>5. \A o \in OrderIds : o # p => VersionOf(orders'[o]) = VersionOf(orders[o])
    BY <1>4
  <2> HIDE DEF VersionOf
  <2> QED
    BY <2>2, <2>4, <2>5
<1>6. HasWritten(t)' /\ ~HasWritten(t)
  BY <1>1, <1>2 DEF HasWritten, Committing
<1>7. ASSUME NEW u \in Threads
      PROVE  /\ CopyInPlace(u)' /\ ToldInPlace(u)'
             /\ u # t => (HasWritten(u)' <=> HasWritten(u))
             /\ Id(u)' = Id(u)
  <2>1. CASE u = t
    <3>1. CopyInPlace(u)' /\ Id(u)' = Id(u)
      BY <1>1, <1>2, <2>1 DEF CopyInPlace, Id, Committing
    <3>2. RequestInPlace(u) /\ ToldInPlace(u)
      BY DEF IndInv
    <3>3. \A o \in OrderIds : IsStored(o, request[u].floor[o])'
      BY <1>1, <1>2, <1>5, <2>1, <3>2
         DEF ToldInPlace, IsStored, RequestInPlace, RequestRecord
    <3>4. IsStored(Target(u), loaded[u].version + 1)'
      BY <1>1, <1>5, <2>1 DEF IsStored, Target, p
    <3> QED
      BY <3>1, <3>3, <3>4, <1>1, <1>2, <2>1 DEF ToldInPlace, Committing
  <2>2. CASE u # t
    BY <1>1, <1>5, <2>2, OthersStay, ToldStays DEF IndInv
  <2> QED
    BY <2>1, <2>2
<1>8. ASSUME NEW u \in Threads
      PROVE  NumberInPlace(u)'
  <2>1. \A v \in Threads : pc'[v] # "idle" <=> pc[v] # "idle"
    BY <1>1, <1>2
  <2> QED
    BY <1>1, <1>7, <2>1 DEF NumberInPlace
<1>9. ASSUME NEW i \in RequestIds
      PROVE  RecordInPlace(i)'
  <2>1. Records(i)' = IF i = Id(t)
                      THEN Records(i) \cup {<<p, Len(Committed(t).history)>>}
                      ELSE Records(i)
    <3>1. PICK before, after, o, e :
            before = orders /\ after = orders' /\ o = p /\ e = entry
      OBVIOUS
    <3>2. AppendsIn(before, after, o, e)
      BY <1>1, <1>2, <3>1 DEF AppendsIn, IndInv, TypeOK
    <3>3. RecordsIn(after, i) = IF e.id = i
                                THEN RecordsIn(before, i) \cup {<<o, Len(after[o].history)>>}
                                ELSE RecordsIn(before, i)
      BY <3>2, RecordsGrow
    <3>4. Records(i) = RecordsIn(before, i) /\ Records(i)' = RecordsIn(after, i)
      BY <3>1 DEF Records, RecordsIn
    <3> QED
      BY <1>3, <1>4, <3>1, <3>3, <3>4
  <2>2. RecordInPlace(i) /\ NumberInPlace(t)
    OBVIOUS
  <2>3. CASE i = Id(t)
    <3>1. Records(i)' # {} /\ \A r, s \in Records(i)' : r = s
      BY <1>2, <2>1, <2>3
    <3>2. \E u \in Threads : HasWritten(u)' /\ Id(u)' = i
      BY <1>6, <1>7, <2>3
    <3> QED
      BY <1>1, <2>2, <3>1, <3>2 DEF RecordInPlace
  <2>4. CASE i # Id(t)
    <3>1. Records(i)' = Records(i)
      BY <2>1, <2>4
    <3>2. \A u \in Threads : HasWritten(u)' /\ Id(u)' = i <=> HasWritten(u) /\ Id(u) = i
      BY <1>7, <2>4
    <3> QED
      BY <1>1, <2>2, <3>1, <3>2 DEF RecordInPlace
  <2> QED
    BY <2>3, <2>4
<1>10. ASSUME NEW o \in OrderIds
       PROVE  IsStored(o, known[o])'
  BY <1>1, <1>5 DEF IsStored, IndInv, TypeOK
<1> QED
  BY <1>7, <1>8, <1>9, <1>10

(***************************************************************************)
(* Every step of the program keeps what answers and the ledger rest on.    *)
(***************************************************************************)
LEMMA NextAnswersInv == AnswersInv /\ [Next]_vars => AnswersInv'
<1> SUFFICES ASSUME AnswersInv, [Next]_vars
             PROVE  AnswersInv'
  OBVIOUS
<1>1. IndInv'
  BY NextIndInv DEF AnswersInv, LedgerInv
<1>2. ASSUME NEW t \in Threads, ReceiveSome(t)
      PROVE  AnswersInv'
  BY <1>1, <1>2, ReceiveSomeKeeps
<1>3. ASSUME NEW t \in Threads, Proceed(t)
      PROVE  AnswersInv'
  BY <1>1, <1>3, QuietStepsKeep, AnswersKeep, InsertStep, WriteStep DEF Proceed
<1>4. CASE UNCHANGED vars
  <2>1. /\ UNCHANGED <<orders, request, issued, outcome, known, pc, loaded>>
    BY <1>4 DEF vars, store, locals, clients
  <2>2. ASSUME NEW t \in Threads
        PROVE  /\ CopyInPlace(t)' /\ ToldInPlace(t)'
               /\ HasWritten(t)' <=> HasWritten(t)
               /\ Id(t)' = Id(t)
    BY <2>1, OthersStay DEF AnswersInv, LedgerInv, ReadInv
  <2>3. ASSUME NEW t \in Threads
        PROVE  NumberInPlace(t)'
    BY <2>1, <2>2 DEF NumberInPlace, AnswersInv, LedgerInv
  <2>4. ASSUME NEW i \in RequestIds
        PROVE  RecordInPlace(i)'
    BY <2>1, <2>2, RecordsStay DEF RecordInPlace, AnswersInv, LedgerInv
  <2>5. \A o \in OrderIds : IsStored(o, known[o])'
    BY <2>1 DEF IsStored, AnswersInv, ReadInv
  <2> QED
    BY <1>1, <2>2, <2>3, <2>4, <2>5 DEF AnswersInv, LedgerInv, ReadInv
<1> QED
  BY <1>2, <1>3, <1>4 DEF Next, Exhausted

(***************************************************************************)
(* The invariant of the answers holds throughout.                          *)
(***************************************************************************)
THEOREM AnswersInvariance == Spec => []AnswersInv
BY InitAnswersInv, NextAnswersInv, PTL DEF Spec

-----------------------------------------------------------------------------
(* What clients may rely on *)

(***************************************************************************)
(* An applied event is recorded once and for good, a refused one never,    *)
(* with any number of threads and requests. (commit_transition, the errors *)
(* of apply_event.)                                                        *)
(***************************************************************************)
THEOREM AnswersAreTrue == Spec => []AnswersMatchStore
<1>1. AnswersInv => AnswersMatchStore
  <2> SUFFICES ASSUME AnswersInv, NEW i \in RequestIds
               PROVE  /\ Cardinality(Records(i)) <= 1
                      /\ outcome[i] = "applied" => Records(i) # {}
                      /\ outcome[i] \in Refusals => Records(i) = {}
    BY DEF AnswersMatchStore
  <2>1. RecordInPlace(i) /\ \A t \in Threads : NumberInPlace(t)
    BY DEF AnswersInv, LedgerInv
  <2>2. Cardinality(Records(i)) <= 1
    <3>1. CASE Records(i) = {}
      BY <3>1, FS_EmptySet
    <3>2. CASE Records(i) # {}
      <4>1. PICK r : Records(i) = {r}
        BY <2>1, <3>2 DEF RecordInPlace
      <4> QED
        BY <4>1, FS_Singleton
    <3> QED
      BY <3>1, <3>2
  <2>3. ASSUME outcome[i] \in Refusals
        PROVE  Records(i) = {}
    <3>1. outcome[i] # "applied" /\ outcome[i] # "none"
      BY <2>3 DEF Refusals
    <3>2. \A t \in Threads : HasWritten(t) => outcome[Id(t)] = "none"
      BY <2>1 DEF HasWritten, NumberInPlace
    <3> QED
      BY <2>1, <3>1, <3>2 DEF RecordInPlace
  <2> QED
    BY <2>1, <2>2, <2>3 DEF RecordInPlace
<1> QED
  BY <1>1, AnswersInvariance, PTL

(***************************************************************************)
(* No answer goes back behind what any client had been shown when the      *)
(* request came in. (get_by_id, list_summaries, commit_transition.)        *)
(***************************************************************************)
THEOREM ReadsAreMonotone == Spec => ReadsNeverGoBack
<1> DEFINE notBelowFloor(t, o) == VersionOf(found[t]) >= request[t].floor[o]
<1>1. ASSUME AnswersInv, NEW t \in Threads
      PROVE  /\ FinishGet(t) \/ FinishLoad(t) => notBelowFloor(t, Target(t))
             /\ ListOrders(t) =>
                  \A o \in OrderIds : VersionOf(orders[o]) >= request[t].floor[o]
  <2>1. /\ RequestInPlace(t) /\ SnapshotInPlace(t) /\ ToldInPlace(t) /\ TypeOK
    BY <1>1 DEF AnswersInv, LedgerInv, ReadInv, IndInv
  <2>2. \A o \in OrderIds : VersionOf(orders[o]) \in Int
    BY <2>1 DEF TypeOK, VersionOf, Order
  <2>3. ASSUME pc[t] # "idle", NEW o \in OrderIds
        PROVE  VersionOf(orders[o]) >= request[t].floor[o]
    <3>1. request[t].floor[o] \in Int /\ IsStored(o, request[t].floor[o])
      BY <2>1, <2>3 DEF ToldInPlace, RequestInPlace, RequestRecord
    <3> QED
      BY <2>2, <3>1 DEF IsStored
  <2>4. ASSUME FinishGet(t) \/ FinishLoad(t)
        PROVE  /\ pc[t] = "release" /\ Target(t) \in OrderIds
               /\ found[t] = orders[Target(t)]
    BY <2>1, <2>4
       DEF FinishGet, FinishLoad, RequestInPlace, SnapshotInPlace, Committing, Target
  <2>5. ListOrders(t) => pc[t] = "list"
    BY DEF ListOrders
  <2> QED
    BY <2>3, <2>4, <2>5
<1>2. AnswersInv /\ [Next]_vars =>
        [\A t \in Threads :
           LET notBelow(o) == VersionOf(found[t]) >= request[t].floor[o]
           IN /\ FinishGet(t) => notBelow(Target(t))
              /\ FinishLoad(t) => notBelow(Target(t))
              /\ ListOrders(t) =>
                   \A o \in OrderIds : VersionOf(orders[o]) >= request[t].floor[o]]_vars
  BY <1>1
<1> QED
  BY <1>2, AnswersInvariance, PTL DEF Spec, ReadsNeverGoBack

-----------------------------------------------------------------------------
(* The refinement *)

(***************************************************************************)
(* The tickets still to be written are those of the threads between the    *)
(* write of their order and that of their ticket. (commit_transition.)     *)
(***************************************************************************)
LEMMA PendingStay ==
  ASSUME \A u \in Threads : pc'[u] = "writeTicket" <=> pc[u] = "writeTicket",
         \A u \in Threads : pc[u] = "writeTicket" =>
           request'[u] = request[u] /\ loaded'[u] = loaded[u]
  PROVE  PendingTickets' = PendingTickets
<1>1. \A u \in Threads : pc[u] = "writeTicket" => NewTickets(u)' = NewTickets(u)
  BY DEF NewTickets, Id, Target, Evaluation, Body
<1> QED
  BY <1>1 DEF PendingTickets

(***************************************************************************)
(* The empty store is the empty ledger. (InMemoryStore.__init__.)          *)
(***************************************************************************)
LEMMA InitIsLedger == Init => Ledger!Init
BY DEF Init, Ledger!Init, PendingTickets

(***************************************************************************)
(* create opens the order. (InMemoryOrderRepository.create.)               *)
(***************************************************************************)
LEMMA InsertOpens ==
  ASSUME AnswersInv, NEW t \in Threads, InsertOrder(t), orders[Target(t)] = None
  PROVE  Ledger!Next
<1>1. /\ pc[t] = "insert" /\ pc' = [pc EXCEPT ![t] = "release"]
      /\ orders' = [orders EXCEPT ![Target(t)] = loaded[t]]
      /\ UNCHANGED <<tickets, request, loaded>>
      /\ request[t].operation = "create" /\ Target(t) \in OrderIds
  BY DEF InsertOrder, Goto, locals, AnswersInv, LedgerInv, IndInv, RequestInPlace, Target
<1>2. PICK amount \in Amounts, count \in ProductCounts : loaded[t] = NewOrder(amount, count)
  BY <1>1 DEF AnswersInv, LedgerInv, CopyInPlace
<1>3. PendingTickets' = PendingTickets
  BY <1>1, PendingStay DEF AnswersInv, LedgerInv, IndInv, TypeOK
<1>4. Ledger!Open(Target(t), amount, count)
  BY <1>1, <1>2, <1>3 DEF Ledger!Open
<1> QED
  BY <1>1, <1>4 DEF Ledger!Next

(***************************************************************************)
(* The write of the order advances it: the event is new to the ledger and  *)
(* accepted by the order as it is stored, and its ticket is on the way.    *)
(* (InMemoryOrderRepository.commit_transition.)                            *)
(***************************************************************************)
LEMMA WriteAdvances ==
  ASSUME AnswersInv, NEW t \in Threads, WriteOrder(t)
  PROVE  Ledger!Next
<1> DEFINE o == Target(t)
           event == Body(t).event
           metadata == Body(t).metadata
<1>1. /\ pc' = [pc EXCEPT ![t] = IF NewTickets(t) = {} THEN "release" ELSE "writeTicket"]
      /\ orders' = [orders EXCEPT ![o] = Committed(t)]
      /\ UNCHANGED <<tickets, request, loaded>>
  BY DEF WriteOrder, Goto, locals
<1>2. /\ o \in OrderIds /\ Id(t) \in RequestIds /\ Body(t) \in Requests
      /\ pc[t] = "write" /\ orders[o] = loaded[t] /\ orders[o] # None
      /\ Accepts(loaded[t], event, metadata) /\ Records(Id(t)) = {}
  BY WriteFacts, ServiceAssumption
<1>3. Id(t) \notin Ledger!RecordedIds
  <2>1. ASSUME NEW p \in OrderIds, orders[p] # None, NEW n \in DOMAIN orders[p].history,
               Id(t) = orders[p].history[n].id
        PROVE  <<p, n>> \in Records(Id(t))
    BY <2>1 DEF Records, RecordsIn
  <2> QED
    BY <1>2, <2>1 DEF Ledger!RecordedIds
<1>4. PendingTickets' = PendingTickets \cup NewTickets(t)
  <2>1. ASSUME NEW u \in Threads
        PROVE  /\ NewTickets(u)' = NewTickets(u)
               /\ u # t => (pc'[u] = "writeTicket" <=> pc[u] = "writeTicket")
               /\ u = t => (pc'[u] = "writeTicket" <=> NewTickets(t) # {})
    BY <1>1 DEF NewTickets, Id, Target, Evaluation, Body, AnswersInv, LedgerInv, IndInv,
                TypeOK
  <2> QED
    BY <1>2, <2>1 DEF PendingTickets
<1>5. orders' = [orders EXCEPT ![o] = UpdatedOrder(Id(t), Context(orders[o], event, metadata))]
  BY <1>1, <1>2 DEF Committed, Evaluation
<1>6. (tickets \cup PendingTickets)'
        = (tickets \cup PendingTickets)
            \cup SupportTickets(Id(t), o, Context(orders[o], event, metadata))
  BY <1>1, <1>2, <1>4 DEF NewTickets, Evaluation
<1>7. Ledger!Advance(o, Id(t), event, metadata)
  BY <1>2, <1>3, <1>5, <1>6 DEF Ledger!Advance
<1> QED
  BY <1>2, <1>7 DEF Ledger!Next

(***************************************************************************)
(* The write of a ticket changes nothing the ledger had not counted.       *)
(* (InMemoryOrderRepository.commit_transition.)                            *)
(***************************************************************************)
LEMMA TicketStutters ==
  ASSUME IndInv, NEW t \in Threads, WriteTicket(t)
  PROVE  UNCHANGED Ledger!vars
<1>1. /\ pc[t] = "writeTicket" /\ pc' = [pc EXCEPT ![t] = "release"]
      /\ tickets' = tickets \cup NewTickets(t)
      /\ UNCHANGED <<orders, request, loaded>>
  BY DEF WriteTicket, Goto, locals
<1>2. ASSUME NEW u \in Threads
      PROVE  /\ NewTickets(u)' = NewTickets(u)
             /\ u # t => (pc'[u] = "writeTicket" <=> pc[u] = "writeTicket")
             /\ pc'[t] # "writeTicket"
  BY <1>1 DEF NewTickets, Id, Target, Evaluation, Body, IndInv, TypeOK
<1>3. (tickets \cup PendingTickets)' = tickets \cup PendingTickets
  BY <1>1, <1>2 DEF PendingTickets
<1> QED
  BY <1>1, <1>3 DEF Ledger!vars

(***************************************************************************)
(* All other steps store nothing.                                          *)
(***************************************************************************)
LEMMA OthersStutter ==
  ASSUME AnswersInv, NEW t \in Threads,
         \/ ReceiveSome(t)
         \/ EnterRegistry(t) \/ LookUpLock(t) \/ AllocateLock(t) \/ AcquireOrderLock(t)
         \/ FinishCreate(t) \/ ReadOrder(t) \/ FinishGet(t) \/ ListOrders(t)
         \/ FinishLoad(t) \/ RefuseTransition(t) \/ RefuseOverrides(t)
         \/ EvaluateEvent(t) \/ RejectStale(t) \/ PassCheck(t) \/ FinishApply(t)
         \/ InsertOrder(t) /\ orders[Target(t)] # None
  PROVE  UNCHANGED Ledger!vars
<1> USE DEF AnswersInv, LedgerInv, IndInv, TypeOK
<1>1. /\ UNCHANGED <<orders, tickets>>
      /\ pc[t] # "writeTicket" /\ pc'[t] # "writeTicket"
      /\ \A u \in Threads : u # t => /\ pc'[u] = pc[u] /\ request'[u] = request[u]
                                     /\ loaded'[u] = loaded[u]
  <2>1. CASE ReceiveSome(t)
    BY <2>1
       DEF ReceiveSome, ReceiveList, ReceiveCreate, ReceiveGet, ReceiveApply, Receive,
           Goto, store
  <2>2. CASE EnterRegistry(t) \/ LookUpLock(t) \/ AllocateLock(t) \/ AcquireOrderLock(t)
    BY <2>2
       DEF EnterRegistry, RegistrySection, LookUpLock, AllocateLock, AcquireOrderLock,
           Goto, store, locals
  <2>3. CASE ReadOrder(t) \/ FinishLoad(t) \/ EvaluateEvent(t) \/ PassCheck(t)
    BY <2>3 DEF ReadOrder, FinishLoad, EvaluateEvent, PassCheck, Goto, store, locals
  <2>4. CASE \/ FinishCreate(t) \/ FinishGet(t) \/ ListOrders(t) \/ FinishApply(t)
             \/ RefuseTransition(t) \/ RefuseOverrides(t) \/ RejectStale(t)
             \/ InsertOrder(t) /\ orders[Target(t)] # None
    BY <2>4
       DEF FinishCreate, FinishGet, ListOrders, FinishApply, RefuseTransition,
           RefuseOverrides, RejectStale, InsertOrder, Answer, Goto, store
  <2> QED
    BY <2>1, <2>2, <2>3, <2>4
<1>2. PendingTickets' = PendingTickets
  BY <1>1, PendingStay
<1> QED
  BY <1>1, <1>2 DEF Ledger!vars

(***************************************************************************)
(* The in-memory repository implements OrderRepository, for any threads,   *)
(* orders, requests and rules: orders advance one accepted event at a      *)
(* time, judged against the order as it is stored, together with its       *)
(* ticket. (InMemoryOrderRepository.)                                      *)
(***************************************************************************)
THEOREM InMemoryImplementsLedger == Spec => ImplementsLedger
<1>1. AnswersInv /\ [Next]_vars => [UNCHANGED Ledger!vars \/ Ledger!Next]_vars
  <2> SUFFICES ASSUME AnswersInv, [Next]_vars
               PROVE  UNCHANGED Ledger!vars \/ Ledger!Next \/ UNCHANGED vars
    OBVIOUS
  <2>1. ASSUME NEW t \in Threads, ReceiveSome(t) \/ Proceed(t)
        PROVE  UNCHANGED Ledger!vars \/ Ledger!Next
    BY <2>1, InsertOpens, WriteAdvances, TicketStutters, OthersStutter
       DEF Proceed, AnswersInv, LedgerInv
  <2> QED
    BY <2>1 DEF Next, Exhausted
<1> QED
  BY <1>1, InitIsLedger, AnswersInvariance, PTL DEF Spec, ImplementsLedger

(***************************************************************************)
(* Every order is what its history makes of a new one, event by event, and *)
(* no recorded event is one whose rules disagree on the final state, for   *)
(* any threads, orders, requests and rules: a promise of the ledger, which *)
(* the repository keeps since it implements it.  (apply_event,             *)
(* _resolve_final_state_override, commit_transition.)                      *)
(***************************************************************************)
THEOREM HistoriesExplain == Spec => []HistoryExplainsOrder
<1> DEFINE Known == orders \in [OrderIds -> Order \cup {None}]
<1>1. Ledger!Init => HistoryExplainsOrder
  BY DEF Ledger!Init, HistoryExplainsOrder
<1>2. /\ Known /\ HistoryExplainsOrder
      /\ [UNCHANGED Ledger!vars \/ Ledger!Next]_vars
      => HistoryExplainsOrder'
  <2> SUFFICES ASSUME Known, HistoryExplainsOrder,
                      [UNCHANGED Ledger!vars \/ Ledger!Next]_vars,
                      NEW p \in OrderIds, orders'[p] # None
               PROVE  IsExplained(orders'[p])
    BY DEF HistoryExplainsOrder
  <2>1. CASE UNCHANGED Ledger!vars \/ UNCHANGED vars
    BY <2>1 DEF Ledger!vars, vars, store, HistoryExplainsOrder
  <2>2. ASSUME NEW o \in OrderIds, NEW amount \in Amounts, NEW count \in ProductCounts,
               Ledger!Open(o, amount, count)
        PROVE  IsExplained(orders'[p])
    <3>1. orders' = [orders EXCEPT ![o] = NewOrder(amount, count)]
      BY <2>2 DEF Ledger!Open
    <3>2. CASE p = o
      BY <3>1, <3>2, NewIsExplained
    <3>3. CASE p # o
      BY <3>1, <3>3 DEF HistoryExplainsOrder
    <3> QED
      BY <3>2, <3>3
  <2>3. ASSUME NEW o \in OrderIds, NEW r \in Requests, NEW id \in RequestIds,
               Ledger!Advance(o, id, r.event, r.metadata)
        PROVE  IsExplained(orders'[p])
    <3>1. /\ orders[o] # None /\ Accepts(orders[o], r.event, r.metadata)
          /\ orders' = [orders EXCEPT ![o] =
                          UpdatedOrder(id, Context(orders[o], r.event, r.metadata))]
      BY <2>3 DEF Ledger!Advance
    <3>2. orders[o] \in Order /\ IsExplained(orders[o]) /\ id \in Nat
      BY <3>1 DEF HistoryExplainsOrder, RequestIds
    <3>3. CASE p = o
      <4>1. IsExplained(UpdatedOrder(id, Context(orders[o], r.event, r.metadata)))
        BY <3>1, <3>2, UpdateIsExplained
      <4> QED
        BY <3>1, <3>3, <4>1
    <3>4. CASE p # o
      BY <3>1, <3>4 DEF HistoryExplainsOrder
    <3> QED
      BY <3>3, <3>4
  <2> QED
    BY <2>1, <2>2, <2>3 DEF Ledger!Next
<1>3. IndInv => Known
  BY DEF IndInv, TypeOK
<1> QED
  BY <1>1, <1>2, <1>3, Invariance, InMemoryImplementsLedger, PTL DEF ImplementsLedger
=============================================================================
