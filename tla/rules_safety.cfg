\* Requests of two organisations on one keyword; a fault and a crash.
SPECIFICATION FairSpec
CONSTANTS
  Requests = {r1, r2}
  Orgs = {"o1", "o2"}
  CatIds = {1, 2, 3}
  KwIds = {1, 2}
  Contents = {"x", "y"}
  Inputs <- MCInputs
  CatSeed <- MCCatSeed
  KwSeed <- MCKwSeed
  PageSize = 1
  MaxSends = 3
  MaxFaults = 1
  MaxCrashes = 1
\* Once every request is answered nothing is left to do.
CHECK_DEADLOCK FALSE
INVARIANTS
  TypeOK
  RuleWhole
  RuleReadWhole
  CategoryWasReal
  AnswerTrue
PROPERTIES
  OwnOrgOnly
  RequestsEnd
