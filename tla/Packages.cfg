SPECIFICATION Spec
CHECK_DEADLOCK FALSE
CONSTANTS
  Platform = {linux, windows}
  Run = {r1, r2}
  Tag = {dev, dev7}
  DevTag = dev
  Version = {v1, v2}
  None = None
  MaxCommit = 3
SYMMETRY Symmetry
INVARIANTS
  PackagesInv
  PublishedWhole
  
