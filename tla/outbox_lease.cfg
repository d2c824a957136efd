\* No relay outlives its lease; a poison message, crashes and cleanup.
SPECIFICATION Spec
CONSTANTS
  Tasks = {1, 2}
  Poison = {2}
  Relays = {r1, r2}
  Cleaners = {c1}
  LeaseDuration = 1
  MaxAttempts = 2
  DispatchedRetention = 1
  DeadLetterRetention = 1
  RelayLimit = 2
  CleanupLimit = 2
  Pace = "lease"
  MaxTime = 3
  LastCreate = 0
  MaxCrashes = 1
  MaxScripts = 0
SYMMETRY RelaySymmetry
\* Once every message is settled and time is up nothing is left to do.
CHECK_DEADLOCK FALSE
INVARIANTS
  ExclusiveClaim
PROPERTIES
  CleanupSparesLive
  ImplementsLifecycle
