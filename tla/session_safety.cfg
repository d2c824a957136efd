\* Two requests at once of one browser; codes, answers and a restart interleaved.
SPECIFICATION Spec
CONSTANTS
  Browsers = {b1}
  Requests = {r1, r2}
  Codes = {c1, c2}
  LegacyTokens <- MCTokens
  CodeTTL = 1
  SessionTTL = 2
  MaxTime = 2
  MaxSends = 4
  MaxIssues = 2
  MaxRestarts = 1
SYMMETRY Symmetry
\* Once every request is answered and time is up nothing is left to do.
CHECK_DEADLOCK FALSE
INVARIANTS
  TypeOK
  HonouredOnceInTime
  IssuedStaysGood
  AccessTracesToGrant
PROPERTIES
  LiveCookieKept
