\* No crash and no lost bookkeeping statement; one task with bad rules.
SPECIFICATION FairSpec
CONSTANTS
  Tasks = {1, 2}
  BadRules = {2}
  Articles = {1, 3, 4}
  Scan <- MCScan
  Workers = {w1, w2}
  Deleters = {}
  BatchSize = 1
  LimitCap = 2
  MaxRetry = 1
  Faults = {"list", "persist"}
  MaxFaults = 1
  MaxCrashes = 0
  MaxEdits = 1
  MaxEnqueues = 2
\* Once both tasks are finished nothing is left to do.
CHECK_DEADLOCK FALSE
PROPERTIES
  Finishes
