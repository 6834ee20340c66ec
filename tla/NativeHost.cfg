SPECIFICATION FairSpec
CONSTANTS
  Pointer = {p1, p2, p3}
  Handle = {h1, h2}
  None = None
  MaxCalls = 2
  Warmups = 3
  Iterations = 2
  Plans <- MCPlans
INVARIANTS
  NativeInv
  GuestSessionDestroyed
  FittingGuestSucceeds
PROPERTY Ends
CHECK_DEADLOCK FALSE
