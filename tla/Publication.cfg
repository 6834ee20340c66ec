SPECIFICATION Spec
CHECK_DEADLOCK FALSE
CONSTANTS
  Channel = {dev, prod}
  Dev = dev
  Version = {v1, v2}
  LargeCore = {v2}
  Garbage = Garbage
  MaxEdits = 2
  MaxCommit = 2
INVARIANTS
  PublicationInv
  CohortVerified
  MovingMainIsHarmless
