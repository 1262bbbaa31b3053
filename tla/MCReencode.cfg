SPECIFICATION TypedSpec
CONSTANTS
  Types <- MCTypes
  Fold <- MCFold
  NameOrder <- MCOrder
  Roots = {}
  Trips <- PointerTrips
  SeenBits = 3
  MaxDepth = 4
  MinSliceCap = 2
  DisallowUnknown = FALSE
  MaxDecodes = 3
  MaxShares = 2
INVARIANT Reencodable
CHECK_DEADLOCK FALSE
