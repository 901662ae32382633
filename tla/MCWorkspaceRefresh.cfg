CONSTANTS
  Orders = {o1}
  Canonical <- AsListed
  Stored = {}
  Probed = {"health"}
  NoOrder = NoOrder
  Gestures <- Dashboard
  MaxGestures = 3
SPECIFICATION OverviewSpec
INVARIANTS
  OverviewSpinnersHaveCalls
PROPERTIES
  NoFalseEmptiness
  DraftSurvives
