SPECIFICATION Spec
CONSTANTS
  p1 = p1
  p2 = p2
  p3 = p3
  p4 = p4
  h1 = h1
  h2 = h2
  None = None
  Pointer <- MCPointer
  HighPointer <- MCHighPointer
  Handle <- MCHandle
SYMMETRY Symmetry
INVARIANTS
  TypeOK
  HeldBuffersLive
  BuffersReclaimed
  ExportsDiscarded
  SessionsAccounted
PROPERTY ImplementsService
