\* Three calls on one article; a fault, a crash and an edit.
SPECIFICATION Spec
CONSTANTS
  Titles = {"t1", "t2"}
  Bodies = {"b1", "b2"}
  Calls = {c1, c2, c3}
  Kinds = {"offline", "rectify", "republish"}
  Faults = {"read", "update", "write", "log"}
  MaxFaults = 1
  MaxCrashes = 1
  MaxEdits = 1
SYMMETRY CallSymmetry
\* Once every call has ended nothing is left to do.
CHECK_DEADLOCK FALSE
INVARIANTS
  TypeOK
  NoTornEdit
PROPERTIES
  FreshSaveKeepsTrail
