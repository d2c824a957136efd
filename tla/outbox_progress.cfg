\* The relay job keeps up with its 15s period; relays may crash.
SPECIFICATION FairSpec
CONSTANTS
  Tasks = {1, 2}
  Poison = {}
  Relays = {r1, r2}
  Cleaners = {}
  LeaseDuration = 1
  MaxAttempts = 2
  DispatchedRetention = 9
  DeadLetterRetention = 9
  RelayLimit = 1
  CleanupLimit = 1
  Pace = "round"
  MaxTime = 5
  LastCreate = 0
  MaxCrashes = 1
  MaxScripts = 0
\* Once every message is settled and time is up nothing is left to do.
CHECK_DEADLOCK FALSE
INVARIANTS
  RetryBudget
PROPERTIES
  Settles
