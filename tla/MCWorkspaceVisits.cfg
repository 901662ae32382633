CONSTANTS
  Orders = {o1, o2}
  Canonical <- AsListed
  Stored = {o1}
  NoOrder = NoOrder
  Gestures <- Visits
  MaxGestures = 4
  StoredState = "PendingPayment"
  ForeignEvents = {"paymentSuccessful", "orderCancelledByUser"}
SPECIFICATION FormSpec
INVARIANTS
  TypeOK
  ShowsSelected
  EverySpinnerHasItsCall
  EndIsReal
  DraftStaysWithOrder
  EndsOnlyByChoice
PROPERTIES
  KeepsPlace
  SelectedNeverGoesBack
