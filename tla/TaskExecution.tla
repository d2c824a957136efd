--------------------------- MODULE TaskExecution ---------------------------
(***************************************************************************)
(* Running an inspection task: the asynq message that names it, the worker *)
(* that starts it, pages through the articles and finishes it              *)
(* (worker/executor.go, articles/repository_candidates.go), and the admin  *)
(* who deletes it meanwhile (tasks/service.go).                            *)
(*                                                                         *)
(* Each SQL statement or transaction is one action; the executor's locals  *)
(* are in `exec`.  asynq delivers a message at least once: a worker that   *)
(* loses its lease, by a crash or a pause, has its message delivered       *)
(* again, possibly while it is still running.                              *)
(***************************************************************************)
EXTENDS Integers, FiniteSets

CONSTANTS
  Tasks, BadRules,      \* task ids; those whose rule snapshot does not decode
  Articles,             \* article ids
  Scan,                 \* hits the scanner finds per article, or ScanError
  Workers, Deleters,    \* handler goroutines; delete requests
  BatchSize, LimitCap,  \* executor page size; the repository's own cap
  MaxRetry,             \* asynq retries before a message is archived
  Faults,               \* statements that may fail, at most MaxFaults times
  MaxFaults, MaxCrashes, MaxEdits, MaxEnqueues   \* bounds on the environment

ScanError == -1
Statements == {"start", "reload", "list", "persist", "finish"}

ASSUME ExecutionAssumption ==
  /\ Tasks \subseteq Nat \ {0} /\ BadRules \subseteq Tasks
  /\ Articles \subseteq Nat \ {0} /\ IsFiniteSet(Articles)
  /\ Scan \in [Articles -> Nat \cup {ScanError}]
  /\ BatchSize \in Nat \ {0} /\ LimitCap \in Nat /\ BatchSize <= LimitCap
  /\ Faults \subseteq Statements
  /\ MaxRetry \in Nat /\ MaxFaults \in Nat /\ MaxCrashes \in Nat
  /\ MaxEdits \in Nat /\ MaxEnqueues \in Nat

VARIABLES
  task,         \* the task rows
  results,      \* per task, the articles with a result row (and its hits)
  eligible,     \* articles that match the task's filter right now
  exec,         \* control point and locals of each worker
  deleting,     \* per delete request, the task it found deletable
  waiting, active, archived, tries,     \* asynq's message per task
  (* history *)
  created, starts, seen, steady,
  faults, crashes, edits, enqueues

asynq   == <<waiting, active, archived, tries>>
bounds  == <<faults, crashes, edits, enqueues>>
history == <<created, starts, seen, steady>>
vars    == <<task, results, eligible, exec, deleting, asynq, history, bounds>>

-----------------------------------------------------------------------------
(* Task rows *)

Final    == {"success", "partial_success", "failed"}
Statuses == Final \cup {"absent", "pending", "running"}
TaskRow  == [status : Statuses,
             total : Nat, hitArticles : Nat, hitCount : Nat, fail : Nat]
NoTask   == [status |-> "absent",
             total |-> 0, hitArticles |-> 0, hitCount |-> 0, fail |-> 0]
Status(t) == task[t].status

ResolveTaskStatus(total, fail) ==
  CASE total = 0 \/ fail = 0  -> "success"
    [] total # 0 /\ fail # 0 /\ fail >= total -> "failed"
    [] OTHER -> "partial_success"

taskCanBeDeleted(s) == s \in {"pending", "failed"}

(* ListCandidateArticles: ids above the cursor, ascending, LIMIT. *)
PageSkipping(cursor) ==                 \* bug: id > cursor + 1
  LET after == {a \in eligible : a > cursor + 1}
  IN  {a \in after : Cardinality({b \in after : b < a}) < BatchSize}
PageRepeating(cursor) ==                \* bug: id >= cursor
  LET after == {a \in eligible : a >= cursor}
  IN  {a \in after : Cardinality({b \in after : b < a}) < BatchSize}

Page(cursor) ==
  LET after == {a \in eligible : a > cursor}
      limit == IF BatchSize > LimitCap THEN LimitCap ELSE BatchSize
  IN  {a \in after : Cardinality({b \in after : b < a}) < limit}

-----------------------------------------------------------------------------
(* Executor locals.  page: what is left of the page; full: it had BatchSize *)
(* articles; last: its last id; broken: an error ended the loop.            *)

PCs == {"idle", "start", "reload", "list", "scan", "finish"}
Idle == [pc |-> "idle", task |-> 0, cursor |-> 0, page |-> {}, full |-> FALSE,
         last |-> 0, total |-> 0, hitArticles |-> 0, hitCount |-> 0,
         fail |-> 0, broken |-> FALSE]

Become(w, x) == exec' = [exec EXCEPT ![w] = x]
Executing(w, t) == /\ exec[w].pc \in {"reload", "list", "scan", "finish"}
                   /\ exec[w].task = t

(* A statement that reports an error may or may not have been applied. *)
Fault(s) == s \in Faults /\ faults < MaxFaults /\ faults' = faults + 1
NoFault  == UNCHANGED faults

(* asynq puts an active message back for a retry, or archives it; one that  *)
(* is no longer active (its lease was lost) is left alone.                  *)
PutBack(t) ==
  /\ active' = active \ {t}
  /\ IF t \notin active THEN UNCHANGED <<waiting, archived, tries>>
     ELSE IF tries[t] < MaxRetry
       THEN /\ waiting' = waiting \cup {t} /\ UNCHANGED archived
            /\ tries' = [tries EXCEPT ![t] = @ + 1]
       ELSE archived' = archived \cup {t} /\ UNCHANGED <<waiting, tries>>

(* The handler returns nil, or an error. *)
Succeed(w) == /\ Become(w, Idle)
              /\ active' = active \ {exec[w].task}
              /\ UNCHANGED <<waiting, archived, tries>>
Fail(w) == Become(w, Idle) /\ PutBack(exec[w].task)

(* Stop the loop: with an error, or because the articles are exhausted. *)
StopSilently(w, broken) ==              \* bug: an error skips finishTask
  Become(w, IF broken THEN Idle ELSE [exec[w] EXCEPT !.pc = "finish"])

Stop(w, broken) == Become(w, [exec[w] EXCEPT !.pc = "finish", !.broken = broken])

-----------------------------------------------------------------------------
(* CreateWithOutbox, as far as the task row goes. *)
Create(t) ==
  /\ t \notin created
  /\ created' = created \cup {t}
  /\ task' = [task EXCEPT ![t] = [NoTask EXCEPT !.status = "pending"]]
  /\ UNCHANGED <<results, eligible, exec, deleting, asynq,
                 starts, seen, steady, bounds>>

(* The outbox relay enqueues, maybe more than once, maybe after a delete;   *)
(* asynq refuses an id it still holds.                                      *)
Enqueue(t) ==
  /\ t \in created /\ t \notin waiting \cup active \cup archived
  /\ enqueues < MaxEnqueues
  /\ enqueues' = enqueues + 1
  /\ waiting' = waiting \cup {t}
  /\ tries' = [tries EXCEPT ![t] = 0]
  /\ UNCHANGED <<task, results, eligible, exec, deleting, active, archived,
                 history, faults, crashes, edits>>

(* A worker takes the message and calls ExecuteTask. *)
Take(w, t) ==
  /\ exec[w].pc = "idle" /\ t \in waiting
  /\ waiting' = waiting \ {t} /\ active' = active \cup {t}
  /\ Become(w, [Idle EXCEPT !.pc = "start", !.task = t])
  /\ UNCHANGED <<task, results, eligible, deleting, archived, tries,
                 history, bounds>>

(* startTask, first statement: UPDATE ... WHERE status = 'pending'. *)
MarkAnyRunning(t) ==                    \* bug: no status condition
  /\ Status(t) # "absent"
  /\ task' = [task EXCEPT ![t].status = "running"]
  /\ starts' = [starts EXCEPT ![t] = @ + 1]
  /\ steady' = [steady EXCEPT ![t] = eligible]

MarkRunning(t) ==
  /\ Status(t) = "pending"
  /\ task' = [task EXCEPT ![t].status = "running"]
  /\ starts' = [starts EXCEPT ![t] = @ + 1]
  /\ steady' = [steady EXCEPT ![t] = eligible]

StartTask(w) ==
  LET t == exec[w].task
  IN  /\ exec[w].pc = "start"
      /\ \/ /\ NoFault /\ MarkRunning(t)
            /\ Become(w, [exec[w] EXCEPT !.pc = "reload"])
            /\ UNCHANGED asynq
         \/ /\ NoFault /\ Status(t) # "pending"
            /\ Fail(w) /\ UNCHANGED <<task, starts, steady>>
         \/ /\ Fault("start") /\ Fail(w)
            /\ (MarkRunning(t) \/ UNCHANGED <<task, starts, steady>>)
      /\ UNCHANGED <<results, eligible, deleting, created, seen,
                     crashes, edits, enqueues>>

(* startTask, second statement, reads the row back; then DecodeTaskRules. *)
ReloadTask(w) ==
  LET t == exec[w].task
  IN  /\ exec[w].pc = "reload"
      /\ \/ /\ NoFault /\ Status(t) # "absent" /\ t \in BadRules
            /\ Stop(w, TRUE) /\ UNCHANGED asynq
         \/ /\ NoFault /\ Status(t) # "absent" /\ t \notin BadRules
            /\ Become(w, [exec[w] EXCEPT !.pc = "list"]) /\ UNCHANGED asynq
         \/ NoFault /\ Status(t) = "absent" /\ Fail(w)
         \/ Fault("reload") /\ Fail(w)
      /\ UNCHANGED <<task, results, eligible, deleting, history,
                     crashes, edits, enqueues>>

ListCandidateArticles(w) ==
  LET page == Page(exec[w].cursor)
  IN  /\ exec[w].pc = "list"
      /\ \/ NoFault /\ page = {} /\ Stop(w, FALSE)
         \/ /\ NoFault
            /\ \E last \in page :
                 /\ \A a \in page : a <= last
                 /\ Become(w, [exec[w] EXCEPT !.pc = "scan", !.page = page,
                                 !.full = Cardinality(page) >= BatchSize,
                                 !.last = last])
         \/ Fault("list") /\ Stop(w, TRUE)
      /\ UNCHANGED <<task, results, eligible, deleting, asynq, history,
                     crashes, edits, enqueues>>

(* After the last article of a page: the next page, or the end. *)
AdvanceBlindly(e, rest) == [e EXCEPT !.page = rest]   \* bug: no end of page

Advance(e, rest) ==
  IF rest # {} THEN [e EXCEPT !.page = rest]
  ELSE IF ~e.full \/ e.last = e.cursor
    THEN [e EXCEPT !.page = {}, !.pc = "finish"]
    ELSE [e EXCEPT !.page = {}, !.pc = "list", !.cursor = e.last]

(* The counters after one article with that many hits, failed or not. *)
CountSuccessOnly(e, hits, fail) ==      \* bug: a failed article is not scanned
  [e EXCEPT !.total = @ + 1 - fail, !.fail = @ + fail, !.hitCount = @ + hits,
            !.hitArticles = IF hits > 0 THEN @ + 1 ELSE @]

Count(e, hits, fail) ==
  [e EXCEPT !.total = @ + 1, !.fail = @ + fail, !.hitCount = @ + hits,
            !.hitArticles = IF hits > 0 THEN @ + 1 ELSE @]

(* One article: ScanArticle, then persistArticleResult when there are hits. *)
Persist(t, a) == results' = [results EXCEPT ![t] = @ \cup {a}]

ScanArticle(w) ==
  LET e == exec[w]
      Counted(a, hits, fail) ==
        Become(w, Advance(Count(e, hits, fail), e.page \ {a}))
  IN  /\ e.pc = "scan"
      /\ \E a \in e.page :
           /\ \A b \in e.page : a <= b
           /\ seen' = [seen EXCEPT ![e.task][a] = @ + 1]
           /\ \/ /\ NoFault /\ Scan[a] = ScanError
                 /\ Counted(a, 0, 1) /\ UNCHANGED results
              \/ /\ NoFault /\ Scan[a] = 0
                 /\ Counted(a, 0, 0) /\ UNCHANGED results
              \/ /\ NoFault /\ Scan[a] > 0
                 /\ Counted(a, Scan[a], 0) /\ Persist(e.task, a)
              \/ /\ Scan[a] > 0 /\ Fault("persist") /\ Counted(a, Scan[a], 1)
                 /\ (Persist(e.task, a) \/ UNCHANGED results)
      /\ UNCHANGED <<task, eligible, deleting, asynq,
                     created, starts, steady, crashes, edits, enqueues>>

(* An error of the closing UPDATE is what the handler returns. *)
FinishAgain(w) == Stop(w, TRUE) /\ UNCHANGED asynq   \* bug: writes failed instead

FinishError(w) == Fail(w)

(* finishTask: UPDATE by id, whatever the row says now.  An error that      *)
(* ended the loop is what the handler returns.                              *)
FinishTask(w) ==
  LET e == exec[w]
      done == [status |-> IF e.broken THEN "failed"
                          ELSE ResolveTaskStatus(e.total, e.fail),
               total |-> e.total, hitArticles |-> e.hitArticles,
               hitCount |-> e.hitCount, fail |-> e.fail]
      Apply == task' = IF Status(e.task) = "absent" THEN task
                       ELSE [task EXCEPT ![e.task] = done]
  IN  /\ e.pc = "finish"
      /\ \/ NoFault /\ Apply /\ IF e.broken THEN Fail(w) ELSE Succeed(w)
         \/ Fault("finish") /\ FinishError(w) /\ (Apply \/ UNCHANGED task)
      /\ UNCHANGED <<results, eligible, deleting, history,
                     crashes, edits, enqueues>>

-----------------------------------------------------------------------------
(* Delete reads the status, then runs the deleteTaskGraph transaction, which *)
(* does not look at the status again and rolls back when the row is gone.    *)
DeleteCheck(d, t) ==
  /\ deleting[d] = 0 /\ taskCanBeDeleted(Status(t))
  /\ deleting' = [deleting EXCEPT ![d] = t]
  /\ UNCHANGED <<task, results, eligible, exec, asynq, history, bounds>>

deleteTaskGraph(d) ==
  LET t == deleting[d]
  IN  /\ t # 0
      /\ deleting' = [deleting EXCEPT ![d] = 0]
      /\ IF Status(t) = "absent" THEN UNCHANGED <<task, results>>
         ELSE /\ task' = [task EXCEPT ![t] = NoTask]
              /\ results' = [results EXCEPT ![t] = {}]
      /\ UNCHANGED <<eligible, exec, asynq, history, bounds>>

-----------------------------------------------------------------------------
(* The environment *)

(* asynq's recoverer takes a message away from a worker whose lease ran out. *)
LeaseLost(t) ==
  /\ t \in active
  /\ PutBack(t)
  /\ UNCHANGED <<task, results, eligible, exec, deleting, history, bounds>>

(* The process dies, or the scanner panics (scan/scanner.go:108-114): asynq *)
(* recovers the panic, but finishTask is not reached and the task stays     *)
(* running; the message comes back as after a lost lease.                   *)
Crash(w) ==
  /\ exec[w].pc # "idle" /\ crashes < MaxCrashes
  /\ crashes' = crashes + 1
  /\ Become(w, Idle)
  /\ UNCHANGED <<task, results, eligible, deleting, asynq, history,
                 faults, edits, enqueues>>

(* Editors publish an article, or take it offline, during the scan. *)
Edit(a) ==
  /\ edits < MaxEdits
  /\ edits' = edits + 1
  /\ IF a \in eligible
       THEN /\ eligible' = eligible \ {a}
            /\ steady' = [t \in Tasks |-> steady[t] \ {a}]
       ELSE eligible' = eligible \cup {a} /\ UNCHANGED steady
  /\ UNCHANGED <<task, results, exec, deleting, asynq, created, starts, seen,
                 faults, crashes, enqueues>>

-----------------------------------------------------------------------------
Init ==
  /\ task = [t \in Tasks |-> NoTask]
  /\ results = [t \in Tasks |-> {}]
  /\ eligible \in SUBSET Articles
  /\ exec = [w \in Workers |-> Idle]
  /\ deleting = [d \in Deleters |-> 0]
  /\ waiting = {} /\ active = {} /\ archived = {}
  /\ tries = [t \in Tasks |-> 0]
  /\ created = {}
  /\ starts = [t \in Tasks |-> 0]
  /\ seen = [t \in Tasks |-> [a \in Articles |-> 0]]
  /\ steady = [t \in Tasks |-> {}]
  /\ faults = 0 /\ crashes = 0 /\ edits = 0 /\ enqueues = 0

WorkerStep(w) == \/ StartTask(w) \/ ReloadTask(w) \/ ListCandidateArticles(w)
                 \/ ScanArticle(w) \/ FinishTask(w)

Next ==
  \/ \E t \in Tasks : Create(t) \/ Enqueue(t) \/ LeaseLost(t)
  \/ \E w \in Workers :
       \/ \E t \in Tasks : Take(w, t)
       \/ WorkerStep(w) \/ Crash(w)
  \/ \E d \in Deleters : \/ \E t \in Tasks : DeleteCheck(d, t)
                         \/ deleteTaskGraph(d)
  \/ \E a \in Articles : Edit(a)

Spec == Init /\ [][Next]_vars

(* asynq hands waiting messages to idle workers and recovers lost leases;   *)
(* a worker that does not crash runs on.                                    *)
Fairness == /\ \A t \in Tasks : WF_vars(\E w \in Workers : Take(w, t))
            /\ \A w \in Workers : WF_vars(WorkerStep(w))

FairSpec == Spec /\ Fairness

-----------------------------------------------------------------------------
(* Properties *)

Executor == [pc : PCs, task : Tasks \cup {0}, cursor : Articles \cup {0},
             page : SUBSET Articles, full : BOOLEAN, last : Articles \cup {0},
             total : Nat, hitArticles : Nat, hitCount : Nat, fail : Nat,
             broken : BOOLEAN]

RowsTypeOK  == /\ task \in [Tasks -> TaskRow]
               /\ results \in [Tasks -> SUBSET Articles]
               /\ eligible \in SUBSET Articles
               /\ deleting \in [Deleters -> Tasks \cup {0}]

ExecTypeOK  == /\ exec \in [Workers -> Executor]
               /\ \A w \in Workers :
                    /\ exec[w].pc # "idle" => exec[w].task \in Tasks
                    /\ exec[w].pc = "scan" => exec[w].page # {}

QueueTypeOK == /\ waiting \in SUBSET Tasks /\ active \in SUBSET Tasks
               /\ archived \in SUBSET Tasks /\ tries \in [Tasks -> Nat]

HistoryTypeOK ==
  /\ created \in SUBSET Tasks /\ starts \in [Tasks -> Nat]
  /\ seen \in [Tasks -> [Articles -> Nat]] /\ steady \in [Tasks -> SUBSET Articles]
  /\ faults \in Nat /\ crashes \in Nat /\ edits \in Nat /\ enqueues \in Nat

(* Types; a worker past the queue has a task in hand, and one in a page an  *)
(* article left to scan (executor.go:37-112).                               *)
TypeOK == RowsTypeOK /\ ExecTypeOK /\ QueueTypeOK /\ HistoryTypeOK

(* "startTask 只允许 pending -> running，避免重复消费同一任务" (executor.go:114):   *)
(* however often the message is enqueued, redelivered or retried, a task is *)
(* started at most once, and no two workers execute it.                     *)
SingleExecution ==
  \A t \in Tasks :
    /\ starts[t] <= 1
    /\ \A v, w \in Workers : Executing(v, t) /\ Executing(w, t) => v = w

(* The verdict and the counts of a finished task stand until it is deleted, *)
(* although finishTask (executor.go:137-150) writes by id without a look at *)
(* the status, and its UPDATE may fail after it was applied.                *)
VerdictStands ==
  [][\A t \in Tasks : Status(t) \in Final
       => task'[t] = task[t] \/ task'[t].status = "absent"]_vars

(* success means complete: every article that was there when the task       *)
(* started and stayed there was scanned, without error, and the ones with   *)
(* hits have their result row.  The page cursor (executor.go:66-108) must   *)
(* skip none, whatever editors publish or withdraw between two pages.       *)
SuccessIsComplete ==
  \A t \in Tasks : Status(t) = "success" =>
    \A a \in steady[t] : /\ seen[t][a] > 0 /\ Scan[a] # ScanError
                         /\ Scan[a] > 0 => a \in results[t]

(* No article is scanned twice for a task (id > cursor,                     *)
(* repository_candidates.go:46-48).                                         *)
ScannedOnce == \A t \in Tasks, a \in Articles : seen[t][a] <= 1

(* The counts of a finished task agree with its result rows: each hit       *)
(* article has a row or is counted as failed, and no row goes uncounted,    *)
(* also when the scan was cut short or a persist failed (executor.go:83-99).*)
CountsAgree ==
  \A t \in Tasks : Status(t) \in Final =>
    LET r == task[t] n == Cardinality(results[t])
    IN  /\ n <= r.hitArticles /\ r.hitArticles <= n + r.fail
        /\ r.hitArticles <= r.hitCount /\ r.fail <= r.total
        /\ r.hitArticles <= r.total

(* Without crashes, panics of the scanner (scan/scanner.go:108-114, which   *)
(* asynq recovers past finishTask) and lost bookkeeping statements, a       *)
(* queued task reaches a verdict or is deleted: errors while listing,       *)
(* scanning or persisting, and articles that keep changing, never keep the  *)
(* loop from its end.                                                       *)
Finishes ==
  \A t \in Tasks : Status(t) = "pending" /\ t \in waiting
                     ~> Status(t) \in Final \cup {"absent"}
=============================================================================
