\* Redelivered messages, crashes, failing statements, edits and a delete.
SPECIFICATION Spec
CONSTANTS
  Tasks = {1}
  BadRules = {}
  Articles = {1, 2, 3, 4}
  Scan <- MCScan
  Workers = {w1, w2}
  Deleters = {d1}
  BatchSize = 2
  LimitCap = 2
  MaxRetry = 1
  Faults = {"start", "reload", "list", "persist", "finish"}
  MaxFaults = 1
  MaxCrashes = 1
  MaxEdits = 2
  MaxEnqueues = 2
SYMMETRY WorkerSymmetry
\* A task that was deleted or finished, or whose worker died, stays as it is.
CHECK_DEADLOCK FALSE
INVARIANTS
  TypeOK
  SingleExecution
  SuccessIsComplete
  ScannedOnce
  CountsAgree
PROPERTIES
  VerdictStands
