SPECIFICATION FairSpec
CHECK_DEADLOCK FALSE
CONSTANTS
  Runtime = {node, bun}
  Platform = {linux}
  MaxFaults = 2
  Counts = {1, 6, 7, 8, 9, 10, 11, 19, 20, 21, 30, 31, 32}
  Top = 2
  Ceiling = 1
INVARIANTS
  AdmitInv
  HonestPasses
  PerformanceTried
  TimingExact
PROPERTIES
  Concludes
