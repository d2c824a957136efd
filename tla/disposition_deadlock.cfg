\* Two requests that offline the same two articles in opposite order.
SPECIFICATION Spec
CONSTANTS
  MaxId = 3
  Results = {1, 2, 3}
  Articles = {11, 12}
  ArticleOf <- MCArticleOf
  Opening = {"online"}
  TaskOf <- MCTaskOf
  Requests = {q1, q2}
  Kinds = {"offlined"}
  Batches = {{1, 2}, {2, 3}}
  Scopes = {0}
  Faults = {}
  MaxFaults = 0
  MaxCrashes = 0
  MaxEdits = 0
  MaxDeletes = 0
\* Once every request has ended nothing is left to do.
CHECK_DEADLOCK FALSE
INVARIANTS
  EverySummaryTrue
