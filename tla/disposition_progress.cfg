\* Offline batches and the delete of a task that wait for each other's rows; an
\* edit; nothing fails.
SPECIFICATION FairSpec
CONSTANTS
  MaxId = 3
  Results = {1, 2, 3}
  Articles = {11, 12}
  ArticleOf <- MCArticleOf
  Opening = {"online"}
  TaskOf <- MCTaskOf
  Requests = {q1, q2}
  Kinds = {"offlined"}
  Batches = {{1, 2}, {2, 3}}
  Scopes = {1}
  Faults = {}
  MaxFaults = 0
  MaxCrashes = 0
  MaxEdits = 1
  MaxDeletes = 1
\* Once every request has ended nothing is left to do.
CHECK_DEADLOCK FALSE
PROPERTIES
  ActionsFinish
