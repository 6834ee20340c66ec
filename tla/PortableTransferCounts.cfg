SPECIFICATION Spec
CONSTANTS
  Kinds <- MCKinds
  Counts <- LateCounts
  Guests <- EdgeGuests
  MaxFaults = 0
INVARIANT ValidCountPasses
CHECK_DEADLOCK FALSE
