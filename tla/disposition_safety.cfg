\* Ignore and offline batches on common rows, the articles in opposite order;
\* a fault at any statement, a crash, and the transaction that deletes a task.
SPECIFICATION Spec
CONSTANTS
  MaxId = 3
  Results = {1, 2, 3}
  Articles = {11, 12}
  ArticleOf <- MCArticleOf
  Opening = {"online", "other"}
  TaskOf <- MCTaskOf
  Requests = {q1, q2}
  Kinds = {"ignored", "offlined"}
  Batches = {{1, 2}, {2, 3}}
  Scopes = {0}
  Faults = {"read", "article", "state", "update", "log", "commit", "summary", "delete"}
  MaxFaults = 1
  MaxCrashes = 1
  MaxEdits = 0
  MaxDeletes = 1
SYMMETRY RequestSymmetry
\* Once every request has ended nothing is left to do.
CHECK_DEADLOCK FALSE
INVARIANTS
  TypeOK
  SummaryTrue
  ChangesAreLogged
  OfflinedIsOffline
