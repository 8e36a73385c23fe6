SPECIFICATION Spec
CONSTANTS
  Procs = {p1, p2}
  NoOne = NoOne
  Ids = {i1}
  Releases = {1, 4, 6}
  MaxStarts = 3
SYMMETRY ProcSymmetry
CHECK_DEADLOCK FALSE
INVARIANTS
  VersionNeverAhead
  LegacyKept
  ReadyMeansMigrated
PROPERTIES
  NewStays
