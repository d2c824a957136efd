# TLA+ models of article_sentinel

`article_sentinel` inspects the articles of a CMS: an admin defines keyword
rules and starts an *inspection task*; the task travels through a
transactional outbox and an asynq queue to a worker, which scans the articles
page by page and writes results; the admin then ignores, processes or offlines
what was found.  This directory models the parts of it where processes, SQL
statements and failures interleave.

All models take one SQL statement (or one transaction) as one step, and keep
whatever a process remembers between two statements in a variable.  That is
where the hard cases of this code are: most updates are conditional on nothing
but the id, and rely on something read earlier.

## 1. Inventory

| Component (source) | State | Operations | Interacts with | Hard behaviour | What makes it correct |
|---|---|---|---|---|---|
| task service (`articleinspect/tasks`) | task rows, task keywords, outbox row | create (one transaction), create-and-enqueue, delete | outbox, worker (task status) | delete checks, then deletes | a task is never lost between creation and queue; delete leaves nothing behind |
| outbox relay (`articleinspect/outbox/relay.go`) | outbox rows: status, attempts, next attempt, lease, retention | dispatch one, dispatch a batch, claim, mark, retry, dead-letter | asynq, scheduler, HTTP server | several relays at once, leases that expire, crashes, ambiguous enqueue errors | dispatched only after hand-over; nothing lost silently; the lease is a lock; retries are bounded; every message settles |
| outbox cleanup (`outbox/cleanup.go`) | – | select expired, delete | relay, operator | select and delete are two statements | only settled, expired rows go |
| recovery script (`scripts/articleinspect_outbox_requeue.sql`) | – | requeue by id, by task, clear lease | relay, cleanup | runs at any time | the guarantees above survive it, as far as they can |
| worker (`articleinspect/worker`) | executor locals, task row, result rows | start, reload, list page, scan, persist, finish | queue, articles, task service | redelivery, failing statements, edits between pages | one execution; verdict final, complete, and in agreement with the rows |
| candidate articles (`articles/repository_candidates.go`) | article table | keyset page | worker | table changes between pages | no article twice, none skipped |
| asynq adapter (`internal/queue/asynq`) | Redis queue (external) | enqueue, deliver, retry, archive | relay, worker | at-least-once, id conflicts | – |
| scheduler (`internal/scheduler`) | cron | relay job, cleanup job, heartbeat | relay, cleanup | overlapping runs | every due message is looked at each period |
| batch actions (`articleinspect/actions`) | action rows, result dispositions | ignore, process, offline a batch | article lifecycle, audit | loop of fallible statements in one transaction | counts and audit log agree with what was done |
| article lifecycle (`articleinspect/lifecycle`) | article state and text, change logs | offline, rectify, republish | batch actions, audit | read, then write by id | no edit lost without a trace |
| audit log (`articleinspect/audit`) | operation and field-change logs | append | all writers | errors ignored by some callers | every change is logged |
| keyword rules (`articleinspect/rules`) | categories, keywords, scopes | CRUD, snapshot | task service | transactions that meet on a keyword, reads without one | rules stay whole, a read is never older than its row, organisations stay apart |
| scanner (`articleinspect/scan`) | – | scan an article | worker | byte positions under case folding | finds what a naive search finds |
| admin sessions (`api/handlers/auth.go`, `identity`, `middleware/session.go`) | exchange codes, tokens | login, exchange, session, logout | legacy admin | races, expiry, timeouts, lost answers | a code works once, and in time; access goes back to a fresh grant |
| page tabs (`web/admin/src/components/PageTabs`) | open tabs, active key | open, close, reorder, restore | router | stored state of an older version | there is always an active tab |
| queries, post module, HTTP layer, bootstrap, config, logging, migrations, release scripts, front end | – | reads, wiring, I/O | – | – | – |

`PROJECT.json` lists every component with its status, and every hazard with
the line where it bites and the properties that would catch it.

## 2. Plan

Order: the path of a task first, since losing or repeating tasks is the worst
that can happen; then what operators do with the results; then the rest.

1. `TaskOutbox`, `OutboxLifecycle` (abstract), `TaskOutboxProofs` - done.
2. `TaskExecution`, `TaskExecutionProofs` - done.
3. `Dispositions`, `DispositionsProofs` (batch actions, with transactions and row
   locks) - done.
4. `ArticleLifecycle`, `ArticleLifecycleProofs` (single-article calls) - done.
5. `AdminSession`, `AdminSessionProofs`: exchange codes, session tokens and
   cookies - done.
6. `KeywordRules`, `KeywordRulesProofs`: categories, keywords and the
   rules a task takes - done.
7. `Scanner`, `ScannerProofs`: the matching algorithm against a reference
   definition - done.
8. `Pipeline`: outbox, queue and worker composed, as an implementation of an
   abstract task contract (accepted, executed at most once, verdict).
9. `PageTabs`: the tab reducer of the admin front end.
10. `Release`: activation and rollback of releases.

## 3. Modules

### 3.1 TaskOutbox

State: `row` is the table `xt_article_inspect_task_outbox`, one row per task
(status, `attempt_count`, `next_attempt_at`, `claim_until`, `retained_until`);
`task` whether the task exists; `queue` the ids asynq holds; `relay` the
control point and locals of each run of `DispatchMessage`/`DispatchPending`;
`pick` the ids cleanup has selected; `clock` time in units of 15 seconds.  The
other variables are history, used by properties and bounds only.

| Action | Code |
|---|---|
| `CreateAndEnqueue` | `tasks/service.go` CreateWithOutbox, CreateAndEnqueue |
| `DeleteTask` | `deleteTaskGraph`, as far as the outbox row goes |
| `SelectPending`, `Recheck` | the SELECT of `DispatchPending` and its read-back after each item |
| `ReadMessage`, `TakeNow` | the read in `DispatchMessage`, `now`, `isDispatchableMessage` |
| `ClaimMessage` | `claimMessage`: conditional UPDATE |
| `Dispatch` | the dispatcher: may fail before or after the task reached Redis; an id conflict is success |
| `Close` | `markDispatched`, `scheduleRetry` or `moveToDeadLetter`, UPDATE by id from the copy that was read |
| `Crash` | the process dies, the request is cancelled, or a statement fails |
| `CleanupSelect`, `CleanupDelete` | the two statements of cleanup |
| `RequeueById`, `RequeueByTask`, `ClearLease` | the operator's script |
| `Consume` | asynq finished the task and frees its id (external) |
| `Tick` | time passes, as `Pace` allows |

Not in the model: the wording of errors and logs, `claimed_by` (written, never
read by the code), the report counters of `DispatchPending`, a relay without
dispatcher (`CanDispatch`; it returns before it touches a row).

`Pace` makes the assumption about speed explicit.  `"free"`: a relay may take
any time between two statements.  `"lease"`: from its `now` to its closing
update a relay takes at most `LeaseDuration`.  `"round"`: a relay job finishes
what is due within its period.

`OutboxLifecycle` is the abstract specification: the documented state machine
`pending -> claimed -> dispatched/dead_letter`, with retry, hand-over, delete
and purge, and no relays, leases or time.

### 3.2 TaskExecution

State: `task` the task rows (status and the four counters), `results` the
articles with a result row per task, `eligible` the articles that match the
filter now, `exec` the executor's locals per worker, `deleting` the task a
delete request has found deletable; `waiting`, `active`, `archived`, `tries`
asynq's message.  `seen`, `steady`, `starts`, `created` are history.

| Action | Code |
|---|---|
| `Create`, `Enqueue` | `prepareTaskCreate`/`persistPreparedTaskGraph`; the relay's enqueue under a fixed id |
| `Take` | asynq hands a message to a handler goroutine |
| `StartTask` | `startTask`: UPDATE ... WHERE status = 'pending' |
| `ReloadTask` | `startTask`: read back; `DecodeTaskRules` |
| `ListCandidateArticles` | one page: ids above the cursor, ascending, limit |
| `ScanArticle` | `ScanArticle`, and `persistArticleResult` (one transaction) when there are hits |
| `FinishTask` | `finishTask`: UPDATE by id; the handler returns |
| `DeleteCheck`, `deleteTaskGraph` | the two halves of `Delete` |
| `LeaseLost`, `Crash` | asynq redelivers; the worker process dies, or the scanner panics and asynq recovers it |
| `Edit` | an article starts or stops matching the filter |

`Scan` gives the number of hits per article, or an error: the scanner is a
function of the article.  Result rows are a set because `uk_org_task_article`
is unique.  Loading the bodies is a second SELECT in the same call; an error of
either is an error of the call, and the text it reads is abstracted by `Scan`.
A failing statement may have been applied or not (`Fault`).

### 3.3 Dispositions

State: `article`, `result`, `action`, `logs` are the committed tables; `req`
the loop variables of each batch request; `tx` its transaction (the view of
its first SELECT, what it has written, the rows it has locked); `del` how far
the transaction that deletes a task is, and the results it has locked.
`effects`, `counted` and `lost` are history: the results an action changed for
good, those it counted as a success, and the requests whose transaction a
deadlock has rolled back.

| Action | Code |
|---|---|
| `CreateAction` | `repo.CreateAction`, committed before the transaction |
| `ReadResult` | the SELECT of an item, with the skip and fail paths |
| `ReadArticle`, `OfflineArticle` | the SELECT and the UPDATE of `lifecycle.OfflineArticle` on the batch's transaction |
| `WriteOperationLog` | `CreateOperationLog`; `LogFailure` is the difference between the two callers: offline ignores the error, the others return it |
| `UpdateResult` | UPDATE of the result row by id |
| `DeadlockVictim` | InnoDB rolls one member of a cycle back; the loop counts a failed item |
| `CommitAction`, `UpdateActionSummary` | COMMIT; the closing UPDATE of the action row |
| `DeleteTask`, `DeleteResult`, `DeleteLogs`, `CommitDelete` | `deleteTaskGraph`: the check and the tables no batch touches; the DELETE of the results, row by row; that of the logs; those of the actions and of the task, and COMMIT |
| `AbortDelete` | a statement of the delete fails, its process dies, or it is a deadlock's victim |
| `Crash`, `Edit` | the process dies; an editor |

InnoDB, as the code uses it with its default settings: the first SELECT of a
transaction fixes what its later SELECTs see (plus its own writes); an UPDATE
acts on the current row and locks it to the end of the transaction; the victim
of a deadlock loses the whole transaction, and the statements it sends
afterwards, which the code still does, commit one by one (`Outside`).  Either
member of a cycle, batch or delete, may be the victim.  A lock wait that times
out is a fault of the waiting statement.

Of the delete's DELETEs two meet the batches.  That of the results goes by
`uk_org_task_article`, the first index that begins with organisation and task;
in one task its order is that of the result ids, since the worker lists
candidates by ascending article id.  So it locks in ascending order, waits for a
row that a batch has written, and keeps what it has.  That of the logs waits for
logs that are not committed (also those of items a batch has skipped, whose
results it has not locked), and then keeps new ones out until COMMIT.  A log
that is inserted while the DELETE waits comes behind the one it waits for
(`idx_org_task_create`), so that the INSERT does not wait.  Not modelled: the gap
before the first log of a task, which the DELETE locks too and where the last
log of the task before it would go.  Only a batch whose INSERT waits there while
another batch, or an earlier log of its own, keeps the delete waiting can be a
victim at that statement.  For ignore and process batches that is a failed
INSERT, which the model has; for offline batches the error is dropped, and
`OfflinedIsOffline` is stated without deletes for that reason.  Rectify calls,
which insert field change logs, are in `ArticleLifecycle` and not next to
the delete.

### 3.4 ArticleLifecycle

State: `state`, `title`, `body` of one article (the two text fields live in
two tables and stand for the six), `changes` the field change logs, `call` the
control point and locals of each HTTP call.  `first` and `submitted` are
history.

| Action | Code |
|---|---|
| `Request` | the three routes |
| `ReadArticle`, `ReadInfo` | the reads before any transaction; `AfterRead` holds the early returns |
| `UpdateState` | the UPDATE by id of offline and republish |
| `WriteOperationLog` | the log, whose error is ignored |
| `UpdateArticle`, `UpdateInfo` | the rectify transaction: its first UPDATE takes the row lock; the second UPDATE, the logs and COMMIT |
| `Crash`, `Edit` | the process dies; an editor changes the state |

Not in the model: reasons, operators, request snapshots, `DiffSummary`.

### 3.5 KeywordRules

State: `cats`, `kws`, `scopes` are the committed tables; `req` the control
point, locks, unsaved writes and results of each request.  A keyword's `ver`
counts its writes as a whole and its scope rows carry the `ver` of the write
that inserted them, so that a property can say which belong together.
`catOrg` and `usedKws` remember whom an id was given to (ids are never used
twice).

| Action | Code |
|---|---|
| `Handle` | a handler of `keyword_routes.go` or `category_routes.go`: parameters, session, body |
| `ensureKeywordCategoryExists`, `InsertKeyword`, `CreateScopes`, `Commit` | the transaction of `Create` |
| `ensureKeywordCategoryExists`, `UpdateKeyword`, `DeleteScopes`, `CreateScopes`, `Commit` | the transaction of `Update` |
| `DeleteScopes`, `DeleteKeyword`, `Commit` | the transaction of `Delete` |
| `PatchEnabled` | one UPDATE |
| `getKeyword`, `CountKeywords`, `ListKeywords`, `ListByIDs`, `listScopes` | the SELECTs, each on its own; `ListByIDs` and `listScopes` are what `prepareTaskCreate` copies into a task |
| `CreateCategory`, `UpdateCategory`, `DeleteCategory`, `GetCategory`, `CountCategories`, `ListCategories` | the category statements |
| `Fail`, `LoseCommit`, `GiveUp`, `Crash` | a statement fails; the connection is lost after COMMIT; InnoDB ends a lock wait; the process dies |

Locks (InnoDB, external): an UPDATE, DELETE or INSERT locks its keyword row or
scope rows until the transaction ends, a DELETE that finds no scope rows locks
the gap against inserts but not against other such DELETEs, plain SELECTs lock
nothing.  `GiveUp` ends a wait whether it is a deadlock or merely long: the
request is answered with 500 either way.

What a row says besides organisation, category and `enabled` is one value,
`content`; a status of 200 stands for 201 too.  Normalisation of a request
(`normalizeCreateKeywordInput`, `normalizeKeywordScopes`) decides whether the
request is `bad`.  Two facts of the libraries are modelled where they show:
RowsAffected counts changed rows (`SaysSame`), and a `false` that is created
becomes `true` (`Created`).

### 3.6 AdminSession

State: `now` the clock in seconds; `store` the entries of
`authExchangeCodeStore`; `cookie` and `known` what each browser holds; `req`
the control point and locals of each request.  `issues` and `grants` are
history: the codes handed out, the legacy tokens accepted.

| Action | Code |
|---|---|
| `Send` | a browser sends a request, with the cookie it holds |
| `SessionContext` | the middleware: parse the cookie, clear it when it is bad |
| `LoginCode`, `Consume` | `/auth/login?code=`: read the clock; then, under the mutex, clean up, look up, delete |
| `LoginJWT`, `Exchange`, `BeginIssue`, `IssueCode` | `/auth/login?jwt=`; `/auth/exchange`: verify and sign; `Issue` reads the clock anew; then, under the mutex, clean up and store |
| `Session`, `Logout` | the other two routes |
| `Timeout` | `http.TimeoutHandler` answers first; the handler goes on, its headers are dropped |
| `Deliver`, `Lose` | the browser gets the answer, or does not |
| `Restart`, `Tick` | the store is in memory; time passes |

A token is its claims and whether it is signed as it should be; signatures are
not modelled.  Claims keep their JSON kinds, and `coerceUint64` cuts numbers
as the code does (values are in halves).

### 3.7 Scanner

State: `article` and `rules` are the input, `ri`, `si`, `from` the loop
variables, `hits` the result, `pc` the loop, a panic or the end.  Each pass of
a loop is an action, so that termination and positions can be stated.  A text
is its bytes together with what the standard library makes of it (lower case,
trimmed, folded); `MCScanner` builds these from characters, among them one
whose lower case is shorter (the Kelvin sign) and one whose lower case is
longer.  What a regular expression matches is any set of disjoint spans.


## 4. Runs

| Run | Checks | Bounds, and why they are enough |
|---|---|---|
| `outbox_free` | `TypeOK`, `DispatchedReachedQueue`, `NoSilentLoss` with relays of any speed | two relays (a stale one and its successor), one message, clock to 4: lease, backoff and retention all expire; one crash, one operator update |
| `outbox_lease` | `ExclusiveClaim`, `CleanupSparesLive`, `ImplementsLifecycle` when no relay outlives its lease | two messages (one poison), a batch of two, clock to 3 |
| `outbox_progress` | `RetryBudget`, `Settles` under fairness | two messages, two relays, batch of one, a crash; clock 5 is past the last backoff |
| `execution_safety` | `TypeOK`, `SingleExecution`, `VerdictStands`, `SuccessIsComplete`, `ScannedOnce`, `CountsAgree` | four articles (two hits, none, one hit, scan error) in pages of two, two workers, one fault at any statement, one crash, two edits, a delete, two enqueues |
| `execution_progress` | `Finishes` under fairness | pages of one, one task with rules that do not decode, one fault while listing or persisting, one edit |
| `disposition_safety` | `TypeOK`, `SummaryTrue`, `ChangesAreLogged`, `OfflinedIsOffline` | two requests, three results of two tasks on two articles; one of the two batches mixes the tasks and takes the articles in the other order, so that batches overlap in results, in articles, or deadlock with each other or with the delete of a task; one fault at any statement, a crash.  Ignore stands for process too: the code is the same function |
| `disposition_progress` | `ActionsFinish` under fairness | the same rows, offline batches whose actions name task 1, and the delete of a task; nothing fails, an editor changes an article |
| `disposition_deadlock` | refutes `EverySummaryTrue` | offline batches only, nothing fails |
| `lifecycle_safety` | `TypeOK`, `NoTornEdit`, `FreshSaveKeepsTrail` | three calls of any kind on an article in any state, two values per field, one fault, one crash, one edit |
| `session_safety` | `TypeOK`, `HonouredOnceInTime`, `IssuedStaysGood`, `AccessTracesToGrant`, `LiveCookieKept` | one browser with two requests at a time and four in all (exchange, two logins that race, and a logout or session), two codes, a code lives one second, a session two, the clock runs to two, one restart; a good token and one with a negative id |
| `rules_safety` | `TypeOK`, `RuleWhole`, `RuleReadWhole`, `CategoryWasReal`, `AnswerTrue`, `OwnOrgOnly`, `RequestsEnd` | two requests at a time and three in all out of eighteen, of two organisations, on a keyword that exists and one that is being created; pages of one; one fault, one crash |
| `scan_safety` | `TypeOK`, `FindsAll`, `SnippetShowsHit`, `PanicOnlyOnWidth`, `ScanEnds` | all pairs of 25 texts of up to four characters as title and body under seven rule lists; context of one byte, so that windows end on both sides |

Deadlock is not checked: a finite instance stops when its messages are settled
and its bounds are used up, and so does the system when nobody asks for
anything.  What must not stop is stated as a liveness property.

Symmetry is used for relays, workers, requests, calls and login codes only, and
never with liveness.  Task
and article ids are ordered by the code, so they are not symmetric.

### The refuted property, and other limits of the code

`EverySummaryTrue`: result ids are locked in ascending order, but the articles
behind them need not be.  Two offline batches that deadlock leave the victim
with counted successes that InnoDB has rolled back.  As long as there are only
ignore and process batches, which lock nothing but results, the summaries are
true (`SummaryTrue`); sorting the ids is what that rests on.

`SummaryTrue` allows deletes of tasks only next to batches that keep to one task
(`Apart`), and without that condition TLC refutes it.  Another batch has ignored
r1 of task B.  A batch of r0 of task A, r1 and r2 of task B marks r0, logs that
it skips r1, and goes on to r2; the delete of B has locked r1 and r2 meanwhile
and waits for that log.  If InnoDB picks the batch, the loop counts r2 as
failed and r0 as a success (`actions/service.go:226-228`), although r0 has been
rolled back and is not deleted.  A batch within task B may be such a victim
too, but has nothing to lose: the delete gets to the logs only when the batch
has no result locked.

The models also show the following, which the properties are worded around:

* `docs/maintainer-development-flow.md:30` gives `dispatched` and
  `dead_letter` as final.  The closing updates of the relay are by id, so a
  relay that was paused longer than its lease can move a settled row back to
  `pending`.  With `Pace = "lease"` this cannot happen (`ImplementsLifecycle`);
  with any speed, no message is lost (`NoSilentLoss`) and a second delivery
  does no harm (`SingleExecution`).
* A worker that starts between the status check of Delete and its transaction
  goes on inserting results for a task that is gone.
* Two rectify calls that read the same text: the second writes every field but
  logs only the difference to what it read, so replaying the change logs does
  not give the text.  A save that read what it replaces is logged in full
  (`FreshSaveKeepsTrail`).
* A keyword whose category was deleted stays in its table, is counted by the
  list and shown by none (`CategoryWasReal` says only that the category once
  existed).
* A rule that is read while it is deleted comes out without scopes, and a task
  may keep it so; one that is read while it is updated comes out with the
  row of one version and the scopes of a later one (`RuleReadWhole`).
* A login whose answer is cut off by the timeout has used its code up.
* A scan may panic over a character whose lower case has another length
  (`PanicOnlyOnWidth`), or report the wrong bytes.
* The offline path discards the error of its operation log, a page that cannot
  be listed fails the whole task, and a single offline is an UPDATE by id
  without a condition on the state; a republish has none either.
* An action's `target_count` is over the list as given, its counters over the
  unique ids.  The list of keywords counts without the JOIN it lists with.  An
  update that repeats a row within the second is answered with 404
  (`SaysSame`).  Snippets are cut at bytes, not at characters.

### Fairness

* `TaskOutbox`: weak fairness of `SelectPending` and of each relay's steps
  (cron starts the job every 15 seconds and a run that does not crash goes on)
  and of `Tick`.  Nothing is assumed of cleanup, operators or asynq.  Crashes
  are bounded in number.
* `TaskExecution`: weak fairness of taking a waiting message (asynq serves its
  queue while a worker is idle) and of each worker's steps.  `Finishes` is
  checked without crashes and without failing bookkeeping statements, because
  the code has no recovery from them: a task whose worker dies, or whose
  scanner panics (`scan/scanner.go:108-114`; asynq recovers the panic, past
  `finishTask`), stays `running` (see the hazards).
* `Dispositions`: weak fairness of each request's steps, the choice of a
  deadlock victim among them (InnoDB detects every cycle, and a request that
  was not cancelled goes on), and of the steps of a delete that was begun.
  Nothing is assumed of new requests, editors or new deletes.  `ActionsFinish` is checked without faults and crashes, since an
  action whose transaction fails stays `running`.
* `KeywordRules`: weak fairness of each request's steps, `GiveUp` among them
  (a request runs on a goroutine of its own, and InnoDB ends every lock wait by
  deadlock detection or `innodb_lock_wait_timeout`).  Nothing is assumed of
  failures, and they may happen.
* `Scanner`: weak fairness of the loop, which never blocks.

## 5. Proofs

All theorems hold for every value of the constants allowed by the named
assumptions (`SettingsAssumption`, `ExecutionAssumption`,
`DispositionAssumption`, `LifecycleAssumption`, `SessionAssumption`,
`RulesAssumption`, `ScannerAssumption`), which TLC evaluates
in every run of the module.

`TaskOutboxProofs`
* `TypeCorrect`: `Spec => []TypeOK`.
* `DispatchedReachedQueueHolds` and `NoSilentLossHolds`, whatever the speed of
  relays.  Both follow from `HandOverSafe`, whose inductive invariant
  `HandOverInv` adds what makes the unconditional updates and the DELETE by id
  harmless: a relay at `sent` has a task that was enqueued, a dead-letter row
  one that was buried, and what cleanup has picked was enqueued or buried.
* `LeaseExcludes`: with `Pace = "lease"`, `ExclusiveClaim`.  `LeaseInv` says
  that a relay that holds a message has its own lease in the row, not expired,
  and that a row it holds has not been settled.
* `CleanupSafe`: with `Pace = "lease"`, `CleanupSparesLive`: a settled row that
  cleanup has picked stays settled and expired until the DELETE.
* `LifecycleImplemented`: with `Pace = "lease"` and no operator script
  (`MaxScripts = 0`), `Spec => ImplementsLifecycle`, step by step.  Both
  conditions are needed: a relay that outlives its lease writes over what
  another has settled, and the script rewrites settled rows.  The row of a
  message changes in a few places only (`RowWrite`); for each of them the three
  invariants above say which abstract step it is.
* `RetryBudgetHolds`: with `Pace = "round"`, `RetryBudget`.  `BudgetInv` bounds
  the dispatcher calls by `attempt_count`, one call in flight and the attempts
  that crashes lost (`Charges`); a relay that may still claim a row has read its
  current `attempt_count` (`Copies`), and an open row has an attempt left
  (`Room`).

`TaskExecutionProofs`
* `TypeCorrect`: `Spec => []TypeOK`.
* `OneExecution`: `SingleExecution`.  `RunInv`: a task is started once, by the
  worker that executes it; as long as somebody executes it, the row is
  `running` or gone.
* `VerdictIsFinal`: `VerdictStands`, from the same invariant: whoever is about
  to write a verdict finds no verdict.
* `PagesNeverRepeat`: `ScannedOnce`.  `ScanInv`: what was scanned lies behind
  the worker's position (`Behind`), and nothing is scanned before the start.
* `SuccessIsCompleteHolds` and `CountsAgreeHolds`.  `WorkInv` keeps an account
  of each worker whose task was not deleted: the counters against the rows
  (`Balanced`), what was scanned while nothing failed (`Clean`), and that every
  article that stayed is scanned, on the page or after it (`Covered`).  The last
  rests on `PageComplete`: an article above the cursor is on the page, or the
  page is full and lies before it, since the least article that is not on it
  has `BatchSize` others before it.

`DispositionsProofs`, for any number of requests, results, articles and tasks
* `TypeCorrect`, `OfflinedIsOfflineHolds`, `ChangesAreLoggedHolds`,
  `SummaryTrueHolds`, `NoBatchIsLost`, from one inductive invariant, `IInv`.  `Typed` adds to the
  types what a transaction has in hand at each statement, and that no two hold
  one row, be they batches or deletes.  `OffInv` says that a batch about to write `offlined` has its article
  offline, in its own transaction or in the table.  `MarkInv` is about ignore
  and process batches: what an open transaction has counted is what it has
  written and logged (`LogInv`, `SumInv`), its locks are all on smaller ids than
  the one it is at, and so are those of a delete (`LockInv`, `OrderInv`).
  Without deletes, whoever waits for an id waits for a request that is at
  a larger one, so no cycle can close (`NoDeadlock`, and `NoLoss` keeps
  it).  With deletes and batches of one task each, the same order rules out
  every cycle through a batch that holds a result; what is left are batches
  that have only skipped, and a victim among them loses nothing that was
  counted (`NothingWritten`, `VictimMark`).  `ChangesAreLogged` leaves out the
  victims: what they do afterwards commits statement by statement, and a crash
  between the UPDATE and the INSERT of the log leaves a change without one.

`AdminSessionProofs`, for any number of requests, browsers and codes
* `TypeCorrect`, `HonouredOnceInTimeHolds`, `IssuedStaysGoodHolds`,
  `AccessTracesToGrantHolds`, and the action property `LiveCookieKeptHolds`.
  `IInv` adds that every entry of the store is an issued code that was not used
  (`EntryOK`), and that every token in a cookie, on its way or in a request
  is that of a grant, and ends `SessionTTL` after it (`Sessions`).

`ArticleLifecycleProofs`
* `TypeCorrect`: `Spec => []TypeOK`, including that at most one transaction
  holds the article row.
* `TextNeverTorn`: `NoTornEdit`.  `TextInv` adds that every rectify call in
  flight carries a submitted text, which is what a save writes.
* `FreshSaveKeepsTrailHolds`: `FreshSaveKeepsTrail`.  `OneMore` says what one
  entry does to the value that the last entry of a field gives; the rest
  follows by the four cases of the diff.

`ScannerProofs`
* `TypeCorrect`, `FindsAllHolds`, `SnippetShowsHitHolds`,
  `PanicOnlyOnWidthHolds`, for texts of any length.  The inductive invariant
  says of every field that was passed that its hits are the greedy choice
  among all occurrences, of the field at hand that they are the greedy choice
  among those before `from`, and that `from` has not left the text unless a
  length differs.

`KeywordRulesProofs`, for any number of requests, organisations and ids
* `TypeCorrect`, `RuleWholeHolds`, `RuleReadWholeHolds`,
  `CategoryWasRealHolds`, and the action property `OwnOrgOnlyHolds`.  They all
  rest on one inductive invariant, `IInv`.  `Control` says
  what a transaction has prepared at each of its statements: the category was
  checked, the row to be committed is of the caller's organisation, its scopes
  are those of that row.  `Locked` says what the locks buy: a keyword that is
  being replaced is still the one that was found, one that is being created is
  not there, and where a DELETE found no scopes there are none.  `ReadOK` says
  that what a request has read is still there in that version or a later one,
  or gone.  `Apart` relates two requests: no two hold one row, nobody writes
  scopes into a gap another holds, and a keyword that is being created has
  been read by nobody, since ids are not given out twice.
* `AnswerTrueHolds`: `AnswerInv` adds that a request that has committed will
  read back the version it wrote or a later one (`Said`), and that a keyword
  one request is creating has not been written by another.


`NatExtrema` has the least and greatest elements that the proofs about lock
orders, pages and logs rest on.

Only model-checked: the liveness properties `Settles`, `Finishes`,
`ActionsFinish`, `RequestsEnd` and `ScanEnds`, since fairness and ENABLED are out
of the prover's reach.  Every invariant and every action property of a passing
run is proved, some of them under the pace or the absence of scripts that their
run assumes.

## 6. Not modelled

asynq and Redis are external and modelled from how the code uses them: an
enqueue under an id that is held is refused, delivery is at least once, a
message is retried `MaxRetry` times and then archived.  MySQL is external:
a statement is atomic, and so is a transaction, except in `Dispositions` (there
the delete of a task too), `ArticleLifecycle` and `KeywordRules`, where the
statements of a transaction are steps of their own, under the rules of sections
3.3 and 3.5.
Organisations (`orgid`) are modelled in `KeywordRules` and `AdminSession`; the
other modules are about the rows of one.  Reads of results and articles for
display, request decoding, formatting and logging are not modelled.  The components the plan has left are listed in `PROJECT.json`.
