CONSTANTS
  Handlers = {h1, h2}
  OrderIds = {o1}
  Routes = {"create", "apply"}
  MaxRequests = 3
  MaxAttempts = 2
  PageSize = 1
  MaxSkew = 1
  Amounts = {2000}
  ProductCounts = {1}
  Requests <- StayingRequests
  Rules <- StayingRules
  MaxAmount = 30000
  None = None
SPECIFICATION Spec
SYMMETRY Interchangeable
INVARIANTS
  IndInv
  AnswersMatchTable
PROPERTIES
  ImplementsLedger
