SPECIFICATION FairSpec
CONSTANTS
  Kinds <- MCKinds
  Counts <- RunCounts
  Guests <- RunGuests
  MaxFaults = 2
INVARIANTS TransferInv GateSound  FittingGuestPasses
PROPERTY GateEnds
CHECK_DEADLOCK FALSE
