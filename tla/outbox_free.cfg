\* Arbitrarily slow relays, crashes, cleanup and operator updates.
SPECIFICATION Spec
CONSTANTS
  Tasks = {1}
  Poison = {}
  Relays = {r1, r2}
  Cleaners = {c1}
  LeaseDuration = 1
  MaxAttempts = 2
  DispatchedRetention = 1
  DeadLetterRetention = 1
  RelayLimit = 1
  CleanupLimit = 1
  Pace = "free"
  MaxTime = 4
  LastCreate = 0
  MaxCrashes = 1
  MaxScripts = 1
SYMMETRY RelaySymmetry
\* Once every message is settled and time is up nothing is left to do.
CHECK_DEADLOCK FALSE
INVARIANTS
  TypeOK
  DispatchedReachedQueue
  NoSilentLoss
