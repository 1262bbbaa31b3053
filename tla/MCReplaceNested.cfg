SPECIFICATION TypedSpec
CONSTANTS
  Types <- MCTypes
  Fold <- MCFold
  NameOrder <- MCOrder
  Roots <- NestRoots
  Trips = {}
  SeenBits = 3
  MaxDepth = 4
  MinSliceCap = 2
  DisallowUnknown = FALSE
  MaxDecodes = 3
  MaxShares = 2
INVARIANT DecodesAsStandard
CHECK_DEADLOCK FALSE
