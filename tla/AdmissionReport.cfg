SPECIFICATION Spec
CHECK_DEADLOCK FALSE
CONSTANTS
  Runtime = {node}
  Platform = {linux}
  MaxFaults = 1
  Counts = {7, 20}
  Top = 2
  Ceiling = 1
INVARIANTS
  ReportWritten
