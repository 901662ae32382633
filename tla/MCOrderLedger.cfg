CONSTANTS
  OrderIds = {o1}
  Amounts = {1000, 2000, 2900}
  ProductCounts = {1}
  Requests <- AllRequests
  RequestIds = {1, 2, 3, 4, 5, 6, 7, 8, 9, 10}
  Rules <- DefaultRules
  MaxAmount = 30000
  None = None
SPECIFICATION Spec
CONSTRAINT IdsInOrder
INVARIANTS
  TypeOK
  HistoryIsChain
  PaidBeforeProcessing
  AmountReplaysHistory
  TicketIffPaymentFailed
  RepeatedEventIsRefused
  DrawsWhatIsOffered
  LinesAreSharedInColumnsOnly
  ViewsAgree
CHECK_DEADLOCK FALSE
