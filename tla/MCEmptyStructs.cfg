SPECIFICATION TypedSpec
CONSTANTS
  Types <- MCTypes
  Fold <- MCFold
  NameOrder <- MCOrder
  Roots = {}
  Trips <- EmptyTrips
  SeenBits = 3
  MaxDepth = 4
  MinSliceCap = 2
  DisallowUnknown = FALSE
  MaxDecodes = 3
  MaxShares = 2
INVARIANT EncodesAsStandard
CHECK_DEADLOCK FALSE
