CONSTANTS
  Orders = {o1}
  Canonical <- AsListed
  Stored = {o1}
  NoOrder = NoOrder
  Gestures <- Refreshing
  MaxGestures = 3
SPECIFICATION Spec
PROPERTIES
  SelectedNeverGoesBack
