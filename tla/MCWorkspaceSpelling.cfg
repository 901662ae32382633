CONSTANTS
  Orders = {"a1"}
  Canonical <- InCapitals
  Stored = {"a1"}
  NoOrder = NoOrder
  Gestures <- Visits
  MaxGestures = 3
SPECIFICATION Spec
PROPERTIES
  AppliedIsShown
