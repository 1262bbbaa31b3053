SPECIFICATION TypedSpec
CONSTANTS
  Types <- MCTypes
  Fold <- MCFold
  NameOrder <- MCOrder
  Roots <- MCRoots
  Trips <- MCTrips
  SeenBits = 3
  MaxDepth = 4
  MinSliceCap = 2
  DisallowUnknown = FALSE
  MaxDecodes = 3
  MaxShares = 2
INVARIANTS
  DecodesAsStandard
  ResultUnshared
  StorageReused
  CyclesRefused
  EncodesAsStandard
  RoundTrips
CHECK_DEADLOCK FALSE
