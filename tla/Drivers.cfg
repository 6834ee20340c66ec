SPECIFICATION DriverFairSpec
CHECK_DEADLOCK FALSE
CONSTANTS
  Program = {"run", "self-test", "benchmark", "promotion", "cdn", "explicit", "quality"}
  Bound = 3
  Needs = {1, 3, 4, 9}
  Codes = {0, 43, 299}
  Rounds = 2
  MaxFaults = 2
INVARIANTS
  Honest
  FittingGuestPasses
  RunnerFaithful
  SessionsDestroyed
PROPERTIES
  Ends
