CONSTANTS
  Threads = {t1, t2}
  OrderIds = {o1, o2}
  Routes = {"create", "apply", "list"}
  MaxRequests = 3
  Amounts = {2000}
  ProductCounts = {1}
  Requests <- MixedRequests
  Rules <- MixedRules
  MaxAmount = 30000
  None = None
SPECIFICATION FairSpec
INVARIANTS
  TypeOK
  HistoryExplainsOrder
PROPERTIES
  ImplementsLedger
  EveryRequestIsAnswered
