CONSTANTS
  Handlers = {h1, h2}
  OrderIds = {o1}
  Routes = {"create", "get", "apply"}
  MaxRequests = 4
  MaxAttempts = 1
  PageSize = 1
  MaxSkew = 0
  Amounts = {2000}
  ProductCounts = {1}
  Requests <- MixedRequests
  Rules <- StayingRules
  MaxAmount = 2060
  None = None
SPECIFICATION Spec
SYMMETRY Interchangeable
INVARIANTS
  HistoryCoversVersion
  ExactInv
PROPERTIES
  AppliedAnswerIsExact
