CONSTANTS
  Threads = {t1, t2}
  OrderIds = {o1}
  Routes = {"create", "get", "apply", "list"}
  MaxRequests = 5
  Amounts = {2000}
  ProductCounts = {1}
  Requests <- LoopRequests
  Rules <- DefaultRules
  MaxAmount = 30000
  None = None
SPECIFICATION Spec
SYMMETRY Interchangeable
INVARIANTS
  AnswersInv
  CommitsOnWhatWasLoaded
  AnswersMatchStore
PROPERTIES
  ConflictMeansMoved
  ReadsNeverGoBack
