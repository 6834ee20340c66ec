SPECIFICATION Spec
CONSTANTS
  Channel = {dev, main}
  Run = {r1, r2}
  Version = {v1, v2}
  Torn = Torn
  Absent = Absent
  MaxEdits = 3
SYMMETRY Symmetry
INVARIANTS
  SyncInv
  RefusedRunReplacesNothing
PROPERTIES
  ImplementsStore
