---------------------------- MODULE Dispositions ----------------------------
(***************************************************************************)
(* Batch actions on inspection results: ignore, process and offline        *)
(* (actions/service.go), with the article update and the audit log they    *)
(* call (lifecycle/service.go OfflineArticle, audit/writer.go), next to    *)
(* the transaction that deletes a task (tasks/service.go deleteTaskGraph). *)
(*                                                                         *)
(* A request inserts its action row, works through its results in one      *)
(* MySQL transaction and closes the action row.  InnoDB, as the code uses  *)
(* it: the first SELECT fixes what the transaction reads, an UPDATE works  *)
(* on the row as it is now and locks it until the end, and of transactions *)
(* that wait for each other one is rolled back.  The loop takes that error *)
(* for a failure of one item and goes on; from then on every statement     *)
(* commits by itself.  A DELETE by task_id locks the rows it finds, one by *)
(* one in the order of their ids, waits for rows that are not committed    *)
(* yet, and keeps others from being inserted until its transaction ends.   *)
(***************************************************************************)
EXTENDS Integers, FiniteSets

CONSTANTS
  MaxId, Results,                 \* the greatest id (a uint64), result ids
  Articles, ArticleOf,            \* articles, and the one each result is about
  Opening,                        \* states the articles may be in at first
  TaskOf,                         \* the inspection task of each result
  Requests,                       \* batch requests, one action row each
  Kinds, Batches, Scopes,         \* what they ask for: disposition, ids, task
  Faults, MaxFaults,              \* statements that may fail, and how often
  MaxCrashes, MaxEdits, MaxDeletes        \* bounds on the environment

Statements == {"read", "article", "state", "update", "log", "commit", "summary",
               "delete"}

ASSUME DispositionAssumption ==
  /\ MaxId \in Nat /\ Results \subseteq 1 .. MaxId
  /\ Articles \subseteq Nat \ Results
  /\ Opening \subseteq {"online", "offline", "offline_sync", "other"}
  /\ ArticleOf \in [Results -> Articles] /\ TaskOf \in [Results -> Nat \ {0}]
  /\ Kinds \subseteq {"ignored", "processed", "offlined"}
  /\ Batches \subseteq SUBSET Results /\ Scopes \subseteq Nat
  /\ Faults \subseteq Statements
  /\ MaxFaults \in Nat /\ MaxCrashes \in Nat
  /\ MaxEdits \in Nat /\ MaxDeletes \in Nat

VARIABLES
  article,      \* committed state of each article
  result,       \* committed result rows
  action,       \* action rows
  logs,         \* committed operation logs
  req,          \* control point and locals of each request
  tx,           \* its transaction: what it sees, has written and has locked
  del,          \* the transaction that deletes a task: how far it is, its locks
  (* history *)
  effects,      \* results whose row an action has changed for good
  counted,      \* results an action counted as a success
  lost,         \* requests whose transaction a deadlock has rolled back
  faults, crashes, edits, deletes

tables  == <<article, result, logs, effects>>
env     == <<del, crashes, edits, deletes>>
vars    == <<tables, action, req, tx, counted, lost, faults, env>>

-----------------------------------------------------------------------------
States       == {"online", "offline", "offline_sync", "other"}
Dispositions == {"absent", "pending", "ignored", "processed", "offlined"}
ActionStatus == {"none", "running", "success", "partial_success", "failed"}

ResultRow == [disp : Dispositions, state : States]
NoResult  == [disp |-> "absent", state |-> "other"]
ActionRow == [status : ActionStatus, ok : Nat, fail : Nat, skip : Nat]
NoAction  == [status |-> "none", ok |-> 0, fail |-> 0, skip |-> 0]
Log == [by : Requests, of : Results, before : Dispositions \cup States,
        after : Dispositions \cup States, status : {"success", "skipped"}]

NoTx == [mode |-> "none", article |-> <<>>, result |-> <<>>, logs |-> {},
         held |-> {}, wrote |-> {}]

(* kind: the target disposition; ids, task: the results and the task the   *)
(* request names; todo: ids left; cur: the one in hand; before, after:     *)
(* what the log will say; log: the status it will have.                    *)
PCs == {"idle", "next", "article", "state", "update", "log", "commit",
        "summary", "ended"}
Idle == [pc |-> "idle", kind |-> "ignored", ids |-> {}, task |-> 0,
         todo |-> {}, cur |-> 0,
         before |-> "pending", after |-> "pending", log |-> "success",
         ok |-> 0, fail |-> 0, skip |-> 0]

Become(q, x) == req' = [req EXCEPT ![q] = x]
Goto(q, label) == Become(q, [req[q] EXCEPT !.pc = label])

Fault(s) == s \in Faults /\ faults < MaxFaults /\ faults' = faults + 1
NoFault  == UNCHANGED faults

Tasks == {TaskOf[r] : r \in Results}
NoDelete == [pc |-> "idle", held |-> {}]

(* What request q reads: its own view, or the tables once it is outside of *)
(* any transaction.                                                        *)
ResultSeen(q, r)  == IF tx[q].mode = "open" THEN tx[q].result[r] ELSE result[r]
ArticleSeen(q, a) == IF tx[q].mode = "open" THEN tx[q].article[a] ELSE article[a]

(* The row as an UPDATE finds it. *)
ResultNow(q, r) == IF r \in tx[q].held THEN tx[q].result[r] ELSE result[r]

Free(q, x) == /\ \A p \in Requests \ {q} : x \notin tx[p].held
              /\ \A t \in Tasks : x \notin del[t].held

Outside == [NoTx EXCEPT !.mode = "auto"]
Rollback(q) == tx' = [tx EXCEPT ![q] = NoTx]

-----------------------------------------------------------------------------
(* UPDATEs and INSERTs, in the transaction or, after a rollback, each       *)
(* committed at once.                                                       *)
SetResult(q, r, row) ==
  IF ResultNow(q, r).disp = "absent" THEN UNCHANGED <<tx, result, effects>>
  ELSE IF tx[q].mode = "open"
    THEN /\ tx' = [tx EXCEPT ![q].result[r] = row, ![q].held = @ \cup {r},
                             ![q].wrote = @ \cup {r}]
         /\ UNCHANGED <<result, effects>>
    ELSE /\ result' = [result EXCEPT ![r] = row]
         /\ effects' = [effects EXCEPT ![q] = @ \cup {r}]
         /\ UNCHANGED tx

SetArticle(q, a, s) ==
  IF tx[q].mode = "open"
    THEN /\ tx' = [tx EXCEPT ![q].article[a] = s, ![q].held = @ \cup {a}]
         /\ UNCHANGED article
    ELSE article' = [article EXCEPT ![a] = s] /\ UNCHANGED tx

CreateOperationLog(q, log) ==
  IF tx[q].mode = "open"
    THEN tx' = [tx EXCEPT ![q].logs = @ \cup {log}] /\ UNCHANGED logs
    ELSE logs' = logs \cup {log} /\ UNCHANGED tx

(* COMMIT, which is an empty success outside of a transaction. *)
Commit(q) ==
  LET t == tx[q] IN
  /\ tx' = [tx EXCEPT ![q] = NoTx]
  /\ IF t.mode = "open"
       THEN /\ article' = [a \in Articles |->
                             IF a \in t.held THEN t.article[a] ELSE article[a]]
            /\ result' = [r \in Results |->
                            IF r \in t.held THEN t.result[r] ELSE result[r]]
            /\ logs' = logs \cup t.logs
            /\ effects' = [effects EXCEPT ![q] = @ \cup t.wrote]
       ELSE UNCHANGED tables

-----------------------------------------------------------------------------
(* CreateAction, committed before the transaction begins. *)
CreateAction(q) ==
  /\ req[q].pc = "idle"
  /\ action' = [action EXCEPT ![q].status = "running"]
  /\ \E kind \in Kinds, ids \in Batches, task \in Scopes :
       Become(q, [Idle EXCEPT !.pc = "next", !.kind = kind, !.ids = ids,
                              !.task = task, !.todo = ids])
  /\ UNCHANGED <<tables, tx, counted, lost, faults, env>>

(* The ids are taken in ascending order, each once (uniqueUint64s). *)
NextAsGiven(S, r) == r \in S            \* bug: the order of the request

NextId(S, r) == r \in S /\ \A s \in S : r <= s

ItemForgetful(q, r) == [req[q] EXCEPT !.todo = @ \ {r}]  \* bug: stale loop variable

Item(q, r) == [req[q] EXCEPT !.todo = @ \ {r}, !.cur = r]
Skipped(x) == [x EXCEPT !.pc = "next", !.skip = @ + 1]
Failed(x)  == [x EXCEPT !.pc = "next", !.fail = @ + 1]

(* The SELECT of an item; the first one opens the view. *)
ReadResult(q) ==
  LET open == IF tx[q].mode # "none" THEN tx[q]
              ELSE [NoTx EXCEPT !.mode = "open",
                                !.article = article, !.result = result]
      kind == req[q].kind
      After(r, disp) ==
        CASE disp = "absent" -> Skipped(Item(q, r))
          [] disp = kind /\ kind = "offlined" -> Skipped(Item(q, r))
          [] disp = kind /\ kind # "offlined" ->
               [Item(q, r) EXCEPT !.pc = "log", !.before = disp, !.after = kind,
                                  !.log = "skipped", !.skip = @ + 1]
          [] disp \notin {"absent", kind} ->
               [Item(q, r) EXCEPT !.before = disp, !.after = kind, !.log = "success",
                  !.pc = IF kind = "offlined" THEN "article" ELSE "update"]
  IN  /\ req[q].pc = "next"
      /\ \E r \in Results :
           /\ NextId(req[q].todo, r)
           /\ tx' = [tx EXCEPT ![q] = open]
           /\ \/ NoFault /\ Become(q, After(r, IF open.mode = "open"
                                                 THEN open.result[r].disp
                                                 ELSE result[r].disp))
              \/ Fault("read") /\ Become(q, Failed(Item(q, r)))
      /\ UNCHANGED <<tables, action, counted, lost, env>>

(* OfflineArticle: what the state it reads leads to. *)
OfflineFromReckless(x, s) ==            \* bug: other states pass as offline
  IF s = "online"
    THEN [x EXCEPT !.pc = "state", !.before = s, !.after = "offline"]
    ELSE [x EXCEPT !.pc = "log", !.before = s, !.after = s, !.log = "skipped"]

OfflineFrom(x, s) ==
  CASE s \in {"offline", "offline_sync"} ->
         [x EXCEPT !.pc = "log", !.before = s, !.after = s, !.log = "skipped"]
    [] s = "online" ->
         [x EXCEPT !.pc = "state", !.before = s, !.after = "offline"]
    [] s = "other" -> Failed(x)

ReadArticle(q) ==
  /\ req[q].pc = "article"
  /\ \/ /\ NoFault
        /\ Become(q, OfflineFrom(req[q], ArticleSeen(q, ArticleOf[req[q].cur])))
     \/ Fault("article") /\ Become(q, Failed(req[q]))
  /\ UNCHANGED <<tables, action, tx, counted, lost, env>>

(* Its UPDATE of the article, by id.  A statement that waits for a lock may *)
(* also time out.                                                           *)
OfflineArticle(q) ==
  LET a == ArticleOf[req[q].cur]
  IN  /\ req[q].pc = "state"
      /\ \/ /\ NoFault /\ Free(q, a)
            /\ SetArticle(q, a, "offline") /\ Goto(q, "log")
         \/ /\ Fault("state") /\ Become(q, Failed(req[q]))
            /\ UNCHANGED <<article, tx>>
      /\ UNCHANGED <<result, logs, effects, action, counted, lost, env>>

(* The operation log.  Offline goes on to the result, also when the INSERT *)
(* failed; the other kinds are done with the item, and a failed INSERT     *)
(* ends the request: its transaction is rolled back and nobody closes the  *)
(* action row.  The INSERT waits while a delete holds the logs of the task. *)
LogEntry(q) == [by |-> q, of |-> req[q].cur, before |-> req[q].before,
                after |-> req[q].after, status |-> req[q].log]

LogFailureIgnored(q) ==                 \* bug: `_ =` as in the offline path
  Goto(q, IF req[q].kind = "offlined" THEN "update" ELSE "next") /\ UNCHANGED tx

LogFailure(q) ==
  IF req[q].kind = "offlined" THEN Goto(q, "update") /\ UNCHANGED tx
                              ELSE Goto(q, "ended") /\ Rollback(q)

WriteOperationLog(q) ==
  /\ req[q].pc = "log"
  /\ \/ /\ NoFault /\ del[TaskOf[req[q].cur]].pc # "logs"
        /\ CreateOperationLog(q, LogEntry(q))
        /\ Goto(q, IF req[q].kind = "offlined" THEN "update" ELSE "next")
     \/ Fault("log") /\ LogFailure(q) /\ UNCHANGED logs
  /\ UNCHANGED <<article, result, effects, action, counted, lost, env>>

(* UPDATE of the result row, by id; no row, no effect, and no error. *)
UpdateResult(q) ==
  LET r == req[q].cur
      row == [disp |-> req[q].kind,
              state |-> IF req[q].kind = "offlined" THEN req[q].after
                        ELSE ResultNow(q, r).state]
  IN  /\ req[q].pc = "update"
      /\ \/ /\ NoFault /\ Free(q, r) /\ SetResult(q, r, row)
            /\ Become(q, [req[q] EXCEPT !.ok = @ + 1,
                 !.pc = IF req[q].kind = "offlined" THEN "next" ELSE "log"])
            /\ counted' = [counted EXCEPT ![q] = @ \cup {r}]
         \/ /\ Fault("update") /\ Become(q, Failed(req[q]))
            /\ UNCHANGED <<result, effects, tx, counted>>
      /\ UNCHANGED <<article, logs, action, lost, env>>

(* The row request q waits for.  (An INSERT into the logs of a task waits   *)
(* for a delete only when that has all of them and waits for nobody: while  *)
(* it waits for a log, new ones are inserted behind that one.)              *)
Wants(q, x) == \/ req[q].pc = "update" /\ x = req[q].cur
               \/ req[q].pc = "state" /\ x = ArticleOf[req[q].cur]
WaitsFor(q, p)       == p # q /\ \E x \in tx[p].held : Wants(q, x)
WaitsForDelete(q, t) == \E x \in del[t].held : Wants(q, x)

(* The rows that the delete of task t has yet to lock; the next of them, or *)
(* a log that is not committed, is what it waits for.                       *)
Left(t) == {r \in Results : TaskOf[r] = t /\ result[r].disp # "absent"} \ del[t].held
Least(t, r) == r \in Left(t) /\ \A s \in Left(t) : r <= s
LogsOf(q, t) == {l \in tx[q].logs : TaskOf[l.of] = t}

DeleteWaitsFor(t, q) ==
  /\ del[t].pc = "results"
  /\ \/ \E r \in tx[q].held : Least(t, r)
     \/ Left(t) = {} /\ LogsOf(q, t) # {}

(* InnoDB finds a cycle, of requests S and deletes D, and rolls one of its  *)
(* members back; the loop of a request counts a failed item.                *)
Deadlocked(S, D) ==
  /\ \A q \in S : /\ \/ \E p \in S : WaitsFor(q, p)
                     \/ \E t \in D : WaitsForDelete(q, t)
                  /\ \/ \E p \in S : WaitsFor(p, q)
                     \/ \E t \in D : DeleteWaitsFor(t, q)
  /\ \A t \in D : /\ \E q \in S : DeleteWaitsFor(t, q)
                  /\ \E q \in S : WaitsForDelete(q, t)

DeadlockVictim(q) ==
  /\ tx[q].mode = "open"
  /\ \E S \in SUBSET Requests, D \in SUBSET Tasks : q \in S /\ Deadlocked(S, D)
  /\ Become(q, Failed(req[q]))
  /\ tx' = [tx EXCEPT ![q] = Outside]
  /\ lost' = lost \cup {q}
  /\ UNCHANGED <<tables, action, counted, faults, env>>

(* The loop is over: COMMIT.  After a lost connection the outcome of the    *)
(* COMMIT is open; the request returns the error.                           *)
CommitAction(q) ==
  /\ req[q].pc = "next" /\ req[q].todo = {}
  /\ \/ NoFault /\ Commit(q) /\ Goto(q, "summary")
     \/ /\ Fault("commit") /\ Goto(q, "ended")
        /\ (Commit(q) \/ (Rollback(q) /\ UNCHANGED tables))
  /\ UNCHANGED <<action, counted, lost, env>>

SummaryStatus(ok, fail) == IF fail = 0 THEN "success"
                           ELSE IF ok > 0 THEN "partial_success" ELSE "failed"

SkipSummary(q) ==                       \* bug: nothing to do, nothing to update
  IF req[q].ok = 0 \/ action[q].status = "none" THEN UNCHANGED action
  ELSE action' = [action EXCEPT ![q] =
         [status |-> SummaryStatus(req[q].ok, req[q].fail), ok |-> req[q].ok,
          fail |-> req[q].fail, skip |-> req[q].skip]]

(* UPDATE of the action row, which may be gone with the task. *)
WriteSummary(q) ==
  IF action[q].status = "none" THEN UNCHANGED action
  ELSE action' = [action EXCEPT ![q] =
         [status |-> SummaryStatus(req[q].ok, req[q].fail), ok |-> req[q].ok,
          fail |-> req[q].fail, skip |-> req[q].skip]]

UpdateActionSummary(q) ==
  /\ req[q].pc = "summary" /\ Goto(q, "ended")
  /\ \/ NoFault /\ WriteSummary(q)
     \/ Fault("summary") /\ (WriteSummary(q) \/ UNCHANGED action)
  /\ UNCHANGED <<tables, tx, counted, lost, env>>

(* The process dies, or the request is cancelled: the transaction is       *)
(* rolled back and the action row stays as it is.                          *)
Crash(q) ==
  /\ req[q].pc \notin {"idle", "ended"} /\ crashes < MaxCrashes
  /\ crashes' = crashes + 1
  /\ Goto(q, "ended") /\ Rollback(q)
  /\ UNCHANGED <<tables, action, counted, lost, faults, del, edits, deletes>>

-----------------------------------------------------------------------------
(* Editors, and the single-article calls, set the state of an article. *)
Edit(a) ==
  /\ edits < MaxEdits /\ edits' = edits + 1
  /\ \A q \in Requests : a \notin tx[q].held
  /\ \E s \in States \ {article[a]} : article' = [article EXCEPT ![a] = s]
  /\ UNCHANGED <<result, logs, effects, action, req, tx, counted, lost,
                 faults, del, crashes, deletes>>

(* Delete: the task is there and pending or failed.  The transaction begins *)
(* with tables that no batch touches (keywords, outbox, hits).              *)
DeleteTask(t) ==
  /\ del[t].pc = "idle" /\ deletes < MaxDeletes /\ deletes' = deletes + 1
  /\ del' = [del EXCEPT ![t].pc = "results"]
  /\ UNCHANGED <<tables, action, req, tx, counted, lost, faults, crashes, edits>>

(* DELETE of the results of the task: row by row, as they become free. *)
DeleteResult(t) ==
  /\ del[t].pc = "results"
  /\ \E r \in Results :
       /\ Least(t, r) /\ \A q \in Requests : r \notin tx[q].held
       /\ del' = [del EXCEPT ![t].held = @ \cup {r}]
  /\ UNCHANGED <<tables, action, req, tx, counted, lost, faults,
                 crashes, edits, deletes>>

(* DELETE of its operation logs, once those of other transactions are      *)
(* committed.                                                              *)
DeleteLogs(t) ==
  /\ del[t].pc = "results" /\ Left(t) = {}
  /\ \A q \in Requests : LogsOf(q, t) = {}
  /\ del' = [del EXCEPT ![t].pc = "logs"]
  /\ UNCHANGED <<tables, action, req, tx, counted, lost, faults,
                 crashes, edits, deletes>>

(* DELETE of its actions and of the task, and COMMIT.  Statements on an     *)
(* action row commit at once: they come before or after.                    *)
CommitDelete(t) ==
  /\ del[t].pc = "logs"
  /\ result' = [r \in Results |-> IF TaskOf[r] = t THEN NoResult ELSE result[r]]
  /\ logs' = {l \in logs : TaskOf[l.of] # t}
  /\ action' = [q \in Requests |-> IF req[q].task = t THEN NoAction ELSE action[q]]
  /\ del' = [del EXCEPT ![t] = [pc |-> "gone", held |-> {}]]
  /\ UNCHANGED <<article, effects, req, tx, counted, lost, faults,
                 crashes, edits, deletes>>

(* A statement fails, the process dies, or InnoDB picks the delete as its   *)
(* victim: all of it is undone.                                             *)
AbortDelete(t) ==
  /\ del[t].pc \in {"results", "logs"}
  /\ \/ Fault("delete")
     \/ /\ NoFault
        /\ \E S \in SUBSET Requests, D \in SUBSET Tasks : t \in D /\ Deadlocked(S, D)
  /\ del' = [del EXCEPT ![t] = NoDelete]
  /\ UNCHANGED <<tables, action, req, tx, counted, lost, crashes, edits, deletes>>

-----------------------------------------------------------------------------
Init ==
  /\ article \in [Articles -> Opening]
  /\ result = [r \in Results |-> [disp |-> "pending", state |-> "online"]]
  /\ action = [q \in Requests |-> NoAction]
  /\ logs = {}
  /\ req = [q \in Requests |-> Idle]
  /\ tx = [q \in Requests |-> NoTx]
  /\ effects = [q \in Requests |-> {}]
  /\ counted = [q \in Requests |-> {}]
  /\ del = [t \in Tasks |-> NoDelete] /\ lost = {}
  /\ faults = 0 /\ crashes = 0 /\ edits = 0 /\ deletes = 0

RequestStep(q) ==
  \/ ReadResult(q) \/ ReadArticle(q) \/ OfflineArticle(q)
  \/ WriteOperationLog(q) \/ UpdateResult(q) \/ DeadlockVictim(q)
  \/ CommitAction(q) \/ UpdateActionSummary(q)

DeleteStep(t) ==
  DeleteResult(t) \/ DeleteLogs(t) \/ CommitDelete(t) \/ AbortDelete(t)

Next ==
  \/ \E q \in Requests : CreateAction(q) \/ RequestStep(q) \/ Crash(q)
  \/ \E a \in Articles : Edit(a)
  \/ \E t \in Tasks : DeleteTask(t) \/ DeleteStep(t)

Spec == Init /\ [][Next]_vars

(* A request or a delete that does not crash goes on; InnoDB breaks every   *)
(* cycle.                                                                   *)
Fairness == /\ \A q \in Requests : WF_vars(RequestStep(q))
            /\ \A t \in Tasks : WF_vars(DeleteStep(t))
FairSpec == Spec /\ Fairness

-----------------------------------------------------------------------------
(* Properties *)

Request == [pc : PCs, kind : {"ignored", "processed", "offlined"},
            ids : SUBSET Results, task : Nat, todo : SUBSET Results, cur : Results \cup {0},
            before : Dispositions \cup States, after : Dispositions \cup States,
            log : {"success", "skipped"}, ok : Nat, fail : Nat, skip : Nat]

TxTypeOK(t) ==
  /\ t.mode \in {"none", "open", "auto"} /\ t.logs \subseteq Log
  /\ t.held \subseteq Results \cup Articles /\ t.wrote \subseteq Results
  /\ t.mode = "open" => /\ t.article \in [Articles -> States]
                        /\ t.result \in [Results -> ResultRow]
  /\ t.mode # "open" => t.held = {} /\ t.wrote = {} /\ t.logs = {}

(* Types; locks are held only in a transaction, and a request that writes  *)
(* has an item in hand and, before COMMIT, a view (actions/service.go:85). *)
TypeOK ==
  /\ article \in [Articles -> States] /\ result \in [Results -> ResultRow]
  /\ action \in [Requests -> ActionRow] /\ logs \subseteq Log
  /\ req \in [Requests -> Request]
  /\ effects \in [Requests -> SUBSET Results]
  /\ counted \in [Requests -> SUBSET Results] /\ lost \subseteq Requests
  /\ del \in [Tasks -> [pc : {"idle", "results", "logs", "gone"},
                       held : SUBSET Results]]
  /\ faults \in Nat /\ crashes \in Nat /\ edits \in Nat /\ deletes \in Nat
  /\ \A q \in Requests :
       /\ TxTypeOK(tx[q])
       /\ req[q].pc \in {"article", "state", "log", "update"} =>
            req[q].cur \in Results /\ tx[q].mode # "none"

Closed(q) == action[q].status \notin {"none", "running"}
Gone(r)   == result[r].disp = "absent"

SummaryHolds(q) ==
  /\ action[q].ok = Cardinality(counted[q])
  /\ \A r \in counted[q] : r \in effects[q] \/ Gone(r)

OnlyMarks == \A q \in Requests : req[q].kind # "offlined"
OneTask(q) == \A r, s \in req[q].ids : TaskOf[r] = TaskOf[s]

(* Batches and deletes keep out of each other's way: no task is deleted, or *)
(* every batch is about the results of one task.                            *)
Apart == deletes = 0 \/ \A q \in Requests : OneTask(q)

(* The summary of a finished ignore or process action is true: what it      *)
(* counts as a success is in the table for good, or its row was deleted     *)
(* with the task.  The loop swallows errors (service.go:207,227), so this   *)
(* rests on no deadlock ever rolling back what was already counted: batches *)
(* lock in ascending order (service.go:318-324), and so does the DELETE of  *)
(* a task (tasks/service.go:282).  A batch that mixes tasks may still       *)
(* deadlock with a delete, which is what Apart leaves out.                  *)
SummaryTrue ==
  OnlyMarks /\ Apart => \A q \in Requests : Closed(q) => SummaryHolds(q)

(* The same for all batches: "汇总成功数 / 跳过数 / 失败数"                      *)
(* (article-inspection-design.md:251) counts what was done.  Offline        *)
(* batches lock articles too, in any order (service.go:104-117).            *)
EverySummaryTrue == \A q \in Requests : Closed(q) => SummaryHolds(q)

(* The table and the audit log go together: an ignore or process action     *)
(* has changed a result that is still there exactly when a log entry says   *)
(* so, through every failure (service.go:279-281 gives up the whole batch   *)
(* when a log cannot be written) and next to the delete of a task, which    *)
(* takes results and logs together (tasks/service.go:282-287).  Once a      *)
(* deadlock has rolled its transaction back the statements of a batch       *)
(* commit one by one, and a failure between them leaves a change unlogged.  *)
ChangesAreLogged ==
  \A q \in Requests \ lost : req[q].kind # "offlined" =>
    /\ \A r \in effects[q] : Gone(r) \/ \E l \in logs :
         l.by = q /\ l.of = r /\ l.status = "success"
    /\ \A l \in logs : l.by = q /\ l.status = "success" =>
         l.of \in effects[q] \/ Gone(l.of)

(* A result that says offlined has an article that is offline, whatever     *)
(* failed, was rolled back or committed by itself (service.go:104-131), as  *)
(* long as nobody else changes articles and no task is deleted: next to a   *)
(* delete the victim's statement can be the INSERT of the log, whose error  *)
(* OfflineArticle drops (lifecycle/service.go:94) before the result is set. *)
OfflinedIsOffline ==
  edits = 0 /\ deletes = 0 => \A r \in Results : result[r].disp = "offlined" =>
    article[ArticleOf[r]] \in {"offline", "offline_sync"}

(* Every action that was begun is closed, or deleted with its task, when no *)
(* statement fails and no process dies: requests and deletes that wait for  *)
(* each other's rows are freed.                                             *)
ActionsFinish ==
  \A q \in Requests : action[q].status = "running" ~> action[q].status # "running"
=============================================================================
