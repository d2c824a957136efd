------------------------ MODULE TaskExecutionProofs ------------------------
(* Proofs about TaskExecution, for every value of its constants. *)
EXTENDS TaskExecution, FiniteSetTheorems, NatExtrema, TLAPS

LEMMA IdleType == Idle \in Executor /\ NoTask \in TaskRow
  BY DEF Idle, Executor, PCs, NoTask, TaskRow, Statuses, Final

(* A worker that moves to a well-formed x keeps the workers well-formed. *)
LEMMA BecomeType ==
  ASSUME ExecTypeOK, NEW w \in Workers, NEW x \in Executor, Become(w, x),
         x.pc # "idle" => x.task \in Tasks, x.pc = "scan" => x.page # {}
  PROVE  ExecTypeOK'
  BY DEF ExecTypeOK, Become

LEMMA PutBackType ==
  ASSUME QueueTypeOK, NEW t \in Tasks, PutBack(t) PROVE QueueTypeOK'
  BY DEF QueueTypeOK, PutBack

(* The handler's return and the end of the loop. *)
LEMMA ReturnType ==
  ASSUME ExecTypeOK, QueueTypeOK, NEW w \in Workers, exec[w].pc # "idle"
  PROVE  /\ Succeed(w) \/ Fail(w) => ExecTypeOK' /\ QueueTypeOK'
         /\ \A b \in BOOLEAN : Stop(w, b) => ExecTypeOK'
<1>1. Idle.pc = "idle"
  BY DEF Idle
<1>2. exec[w].task \in Tasks /\ exec[w] \in Executor
  BY DEF ExecTypeOK
<1>3. ASSUME Succeed(w) PROVE ExecTypeOK' /\ QueueTypeOK'
  <2>1. ExecTypeOK'
    BY <1>1, <1>3, IdleType, BecomeType DEF Succeed
  <2> QED
    BY <1>3, <2>1 DEF Succeed, QueueTypeOK
<1>4. ASSUME Fail(w) PROVE ExecTypeOK' /\ QueueTypeOK'
  <2>1. ExecTypeOK'
    BY <1>1, <1>4, IdleType, BecomeType DEF Fail
  <2> QED
    BY <1>2, <1>4, <2>1, PutBackType DEF Fail
<1>5. ASSUME NEW b \in BOOLEAN, Stop(w, b) PROVE ExecTypeOK'
  <2> DEFINE x == [exec[w] EXCEPT !.pc = "finish", !.broken = b]
  <2>1. x \in Executor /\ x.pc = "finish" /\ x.task = exec[w].task
    BY <1>2 DEF Executor, PCs
  <2> QED
    BY <1>2, <1>5, <2>1, BecomeType DEF Stop
<1> QED
  BY <1>3, <1>4, <1>5

LEMMA FaultType ==
  ASSUME faults \in Nat
  PROVE  /\ NoFault => faults' \in Nat
         /\ \A s : Fault(s) => faults' \in Nat
  BY DEF NoFault, Fault

(* The counters after an article and the move to the next one. *)
LEMMA CountType ==
  ASSUME NEW e \in Executor, NEW hits \in Nat, NEW fail \in Nat
  PROVE  /\ Count(e, hits, fail) \in Executor
         /\ Count(e, hits, fail).pc = e.pc /\ Count(e, hits, fail).task = e.task
         /\ Count(e, hits, fail).last = e.last /\ Count(e, hits, fail).cursor = e.cursor
<1> DEFINE n == IF hits > 0 THEN e.hitArticles + 1 ELSE e.hitArticles
           t == e.total + 1
           f == e.fail + fail
           h == e.hitCount + hits
<1>1. n \in Nat /\ t \in Nat /\ f \in Nat /\ h \in Nat
  BY DEF Executor
<1>2. Count(e, hits, fail)
        = [e EXCEPT !.total = t, !.fail = f, !.hitCount = h, !.hitArticles = n]
  BY DEF Count, Executor
<1> HIDE DEF n, t, f, h
<1>3. [e EXCEPT !.total = t, !.fail = f, !.hitCount = h, !.hitArticles = n]
        \in Executor
  BY <1>1 DEF Executor
<1> QED
  BY <1>2, <1>3 DEF Executor

LEMMA AdvanceType ==
  ASSUME NEW e \in Executor, e.pc = "scan", NEW rest \in SUBSET Articles
  PROVE  /\ Advance(e, rest) \in Executor
         /\ Advance(e, rest).task = e.task /\ Advance(e, rest).last = e.last
         /\ \/ /\ rest # {} /\ Advance(e, rest).pc = "scan"
               /\ Advance(e, rest).page = rest /\ Advance(e, rest).cursor = e.cursor
            \/ /\ rest = {} /\ Advance(e, rest).pc = "list"
               /\ Advance(e, rest).cursor = e.last
            \/ rest = {} /\ Advance(e, rest).pc = "finish"
<1>1. CASE rest # {}
  BY <1>1 DEF Advance, Executor, PCs
<1>2. CASE rest = {} /\ (~e.full \/ e.last = e.cursor)
  BY <1>2 DEF Advance, Executor, PCs
<1>3. CASE rest = {} /\ ~(~e.full \/ e.last = e.cursor)
  BY <1>3 DEF Advance, Executor, PCs
<1> QED
  BY <1>1, <1>2, <1>3

(* What one article does to its worker: it stays in the page, goes on to    *)
(* the next page, or ends the loop.                                         *)
LEMMA ScanStep ==
  ASSUME TypeOK, NEW w \in Workers, ScanArticle(w)
  PROVE  \E a \in exec[w].page, x \in Executor :
           /\ \A b \in exec[w].page : a <= b
           /\ exec[w].task \in Tasks
           /\ seen' = [seen EXCEPT ![exec[w].task][a] = @ + 1]
           /\ Become(w, x)
           /\ x.task = exec[w].task /\ x.last = exec[w].last
           /\ \/ /\ x.pc = "scan" /\ x.page = exec[w].page \ {a}
                 /\ x.page # {} /\ x.cursor = exec[w].cursor
              \/ /\ x.pc = "list" /\ x.cursor = exec[w].last
                 /\ exec[w].page \ {a} = {}
              \/ x.pc = "finish"
           /\ results' = results
              \/ results' = [results EXCEPT ![exec[w].task] = @ \cup {a}]
<1> DEFINE e == exec[w]
           Counted(a, hits, fail) ==
             Become(w, Advance(Count(e, hits, fail), e.page \ {a}))
<1>1. e \in Executor /\ e.task \in Tasks /\ e.pc = "scan"
  BY DEF TypeOK, ExecTypeOK, ScanArticle
<1>2. PICK a \in e.page :
        /\ \A b \in e.page : a <= b
        /\ seen' = [seen EXCEPT ![e.task][a] = @ + 1]
        /\ \/ Scan[a] = ScanError /\ Counted(a, 0, 1) /\ UNCHANGED results
           \/ Scan[a] = 0 /\ Counted(a, 0, 0) /\ UNCHANGED results
           \/ Scan[a] > 0 /\ Counted(a, Scan[a], 0) /\ Persist(e.task, a)
           \/ Scan[a] > 0 /\ Counted(a, Scan[a], 1)
              /\ (Persist(e.task, a) \/ UNCHANGED results)
  BY DEF ScanArticle
<1>3. a \in Articles /\ e.page \in SUBSET Articles
  BY <1>1 DEF Executor
<1>4. Scan[a] > 0 => Scan[a] \in Nat
  BY <1>3, ExecutionAssumption DEF ScanError
<1>5. PICK hits \in Nat, fail \in Nat : Counted(a, hits, fail)
  BY <1>2, <1>4
<1>6. results' = results \/ results' = [results EXCEPT ![e.task] = @ \cup {a}]
  BY <1>2 DEF Persist
<1> DEFINE c == Count(e, hits, fail)
           x == Advance(c, e.page \ {a})
<1>7. /\ c \in Executor /\ c.pc = "scan" /\ c.task = e.task
      /\ c.last = e.last /\ c.cursor = e.cursor
  BY <1>1, CountType
<1>8. /\ x \in Executor /\ x.task = e.task /\ x.last = e.last
      /\ \/ /\ x.pc = "scan" /\ x.page = e.page \ {a}
            /\ x.page # {} /\ x.cursor = e.cursor
         \/ x.pc = "list" /\ x.cursor = e.last /\ e.page \ {a} = {}
         \/ x.pc = "finish"
  <2> HIDE DEF c
  <2> QED BY <1>3, <1>7, AdvanceType
<1>9. Become(w, x)
  BY <1>5
<1> QED
  <2> HIDE DEF x, c
  <2> QED BY <1>1, <1>2, <1>6, <1>8, <1>9

(* Types are inductive: every statement of the executor, of the delete      *)
(* request and of the queue keeps rows, locals and messages well-formed.    *)
LEMMA TypeInductive == TypeOK /\ [Next]_vars => TypeOK'
<1> SUFFICES ASSUME TypeOK, [Next]_vars PROVE TypeOK'
  OBVIOUS
<1>t. RowsTypeOK /\ ExecTypeOK /\ QueueTypeOK /\ HistoryTypeOK
  BY DEF TypeOK
<1>f. /\ faults \in Nat /\ (NoFault => faults' \in Nat)
      /\ \A s : Fault(s) => faults' \in Nat
  BY <1>t, FaultType DEF HistoryTypeOK
<1>l. ASSUME NEW w \in Workers
      PROVE  /\ exec[w] \in Executor
             /\ exec[w].pc # "idle" => exec[w].task \in Tasks
  BY <1>t DEF ExecTypeOK
<1>1. ASSUME NEW t \in Tasks, Create(t) PROVE TypeOK'
  <2>1. [NoTask EXCEPT !.status = "pending"] \in TaskRow
    BY DEF NoTask, TaskRow, Statuses
  <2>2. RowsTypeOK'
    BY <1>1, <1>t, <2>1 DEF Create, RowsTypeOK
  <2>3. ExecTypeOK' /\ QueueTypeOK'
    BY <1>1, <1>t DEF Create, ExecTypeOK, QueueTypeOK, asynq
  <2>4. HistoryTypeOK'
    BY <1>1, <1>t DEF Create, HistoryTypeOK, bounds
  <2> QED
    BY <2>2, <2>3, <2>4 DEF TypeOK
<1>2. ASSUME NEW t \in Tasks, Enqueue(t) PROVE TypeOK'
  <2>1. RowsTypeOK' /\ ExecTypeOK'
    BY <1>2, <1>t DEF Enqueue, RowsTypeOK, ExecTypeOK
  <2>2. QueueTypeOK'
    BY <1>2, <1>t DEF Enqueue, QueueTypeOK
  <2>3. HistoryTypeOK'
    BY <1>2, <1>t DEF Enqueue, HistoryTypeOK, history
  <2> QED
    BY <2>1, <2>2, <2>3 DEF TypeOK
<1>3. ASSUME NEW t \in Tasks, LeaseLost(t) PROVE TypeOK'
  <2>1. QueueTypeOK'
    BY <1>3, <1>t, PutBackType DEF LeaseLost
  <2> QED
    BY <1>3, <1>t, <2>1
    DEF LeaseLost, TypeOK, RowsTypeOK, ExecTypeOK, HistoryTypeOK, history, bounds
<1>4. ASSUME NEW w \in Workers, NEW t \in Tasks, Take(w, t) PROVE TypeOK'
  <2> DEFINE x == [Idle EXCEPT !.pc = "start", !.task = t]
  <2>1. x \in Executor /\ x.pc = "start" /\ x.task = t
    BY IdleType DEF Idle, Executor, PCs
  <2>2. ExecTypeOK'
    BY <1>4, <1>t, <2>1, BecomeType DEF Take
  <2> QED
    BY <1>4, <1>t, <2>2
    DEF Take, TypeOK, RowsTypeOK, QueueTypeOK, HistoryTypeOK, history, bounds
<1>5. ASSUME NEW w \in Workers, StartTask(w) PROVE TypeOK'
  <2> DEFINE x == [exec[w] EXCEPT !.pc = "reload"]
  <2>1. exec[w].pc = "start" /\ exec[w].task \in Tasks
    BY <1>5, <1>l DEF StartTask
  <2>2. x \in Executor /\ x.pc = "reload" /\ x.task = exec[w].task
    BY <1>l DEF Executor, PCs
  <2>3. ExecTypeOK' /\ QueueTypeOK'
    <3>1. CASE Fail(w)
      BY <1>t, <2>1, <3>1, ReturnType
    <3>2. CASE ~Fail(w)
      <4>1. Become(w, x) /\ UNCHANGED asynq
        BY <1>5, <3>2 DEF StartTask
      <4> QED
        BY <1>t, <2>1, <2>2, <4>1, BecomeType DEF QueueTypeOK, asynq
    <3> QED BY <3>1, <3>2
  <2>4. /\ task' \in [Tasks -> TaskRow] /\ starts' \in [Tasks -> Nat]
        /\ steady' \in [Tasks -> SUBSET Articles]
    <3>1. CASE UNCHANGED <<task, starts, steady>>
      BY <1>t, <3>1 DEF RowsTypeOK, HistoryTypeOK
    <3>2. CASE MarkRunning(exec[w].task)
      <4> DEFINE r == [task[exec[w].task] EXCEPT !.status = "running"]
      <4>1. r \in TaskRow
        BY <1>t, <2>1 DEF RowsTypeOK, TaskRow, Statuses
      <4>2. task' = [task EXCEPT ![exec[w].task] = r]
        BY <3>2 DEF MarkRunning
      <4>3. task' \in [Tasks -> TaskRow]
        BY <1>t, <2>1, <4>1, <4>2 DEF RowsTypeOK
      <4> QED
        BY <1>t, <2>1, <3>2, <4>3 DEF MarkRunning, RowsTypeOK, HistoryTypeOK
    <3> QED
      BY <1>5, <3>1, <3>2 DEF StartTask
  <2>5. faults' \in Nat
    BY <1>5, <1>f DEF StartTask
  <2> QED
    BY <1>5, <1>t, <2>3, <2>4, <2>5
    DEF StartTask, TypeOK, RowsTypeOK, HistoryTypeOK
<1>6. ASSUME NEW w \in Workers, ReloadTask(w) PROVE TypeOK'
  <2> DEFINE x == [exec[w] EXCEPT !.pc = "list"]
  <2>1. exec[w].pc = "reload" /\ exec[w].task \in Tasks
    BY <1>6, <1>l DEF ReloadTask
  <2>2. x \in Executor /\ x.pc = "list" /\ x.task = exec[w].task
    BY <1>l DEF Executor, PCs
  <2>3. ExecTypeOK' /\ QueueTypeOK'
    <3>1. CASE Fail(w)
      BY <1>t, <2>1, <3>1, ReturnType
    <3>2. CASE ~Fail(w)
      <4>1. (Become(w, x) \/ Stop(w, TRUE)) /\ UNCHANGED asynq
        BY <1>6, <3>2 DEF ReloadTask
      <4>2. ExecTypeOK'
        BY <1>t, <2>1, <2>2, <4>1, BecomeType, ReturnType
      <4> QED
        BY <1>t, <4>1, <4>2 DEF QueueTypeOK, asynq
    <3> QED BY <3>1, <3>2
  <2>4. faults' \in Nat
    BY <1>6, <1>f DEF ReloadTask
  <2> QED
    BY <1>6, <1>t, <2>3, <2>4
    DEF ReloadTask, TypeOK, RowsTypeOK, HistoryTypeOK, history
<1>7. ASSUME NEW w \in Workers, ListCandidateArticles(w) PROVE TypeOK'
  <2> DEFINE page == Page(exec[w].cursor)
             x(last) == [exec[w] EXCEPT !.pc = "scan", !.page = page,
                           !.full = Cardinality(page) >= BatchSize, !.last = last]
  <2>1. exec[w].pc = "list" /\ exec[w].task \in Tasks
    BY <1>7, <1>l DEF ListCandidateArticles
  <2>2. page \in SUBSET Articles
    BY <1>t DEF Page, RowsTypeOK
  <2>3. ASSUME NEW last \in page
        PROVE  x(last) \in Executor /\ x(last).pc = "scan" /\ x(last).page # {}
               /\ x(last).task = exec[w].task
    <3>1. (Cardinality(page) >= BatchSize) \in BOOLEAN
      OBVIOUS
    <3> HIDE DEF page
    <3> QED BY <1>l, <2>2, <2>3, <3>1 DEF Executor, PCs
  <2>4. ExecTypeOK'
    <3>1. CASE Stop(w, FALSE) \/ Stop(w, TRUE)
      BY <1>t, <2>1, <3>1, ReturnType
    <3>2. CASE \E last \in page : Become(w, x(last))
      <4>1. PICK last \in page : Become(w, x(last))
        BY <3>2
      <4> HIDE DEF x
      <4> QED
        BY <1>t, <2>1, <2>3, <4>1, BecomeType
    <3> QED
      BY <1>7, <3>1, <3>2 DEF ListCandidateArticles
  <2>5. faults' \in Nat
    BY <1>7, <1>f DEF ListCandidateArticles
  <2> QED
    BY <1>7, <1>t, <2>4, <2>5
    DEF ListCandidateArticles, TypeOK, RowsTypeOK, QueueTypeOK, HistoryTypeOK,
        asynq, history
<1>8. ASSUME NEW w \in Workers, ScanArticle(w) PROVE TypeOK'
  <2>1. PICK a \in exec[w].page, x \in Executor :
          /\ exec[w].task \in Tasks
          /\ seen' = [seen EXCEPT ![exec[w].task][a] = @ + 1]
          /\ Become(w, x) /\ x.task = exec[w].task
          /\ x.pc = "scan" => x.page # {}
          /\ results' = results
             \/ results' = [results EXCEPT ![exec[w].task] = @ \cup {a}]
    BY <1>8, ScanStep
  <2>2. a \in Articles
    BY <1>l DEF Executor
  <2>3. ExecTypeOK'
    BY <1>t, <2>1, BecomeType
  <2>4. results' \in [Tasks -> SUBSET Articles] /\ seen' \in [Tasks -> [Articles -> Nat]]
    BY <1>t, <2>1, <2>2 DEF RowsTypeOK, HistoryTypeOK
  <2>5. faults' \in Nat
    BY <1>8, <1>f DEF ScanArticle
  <2> QED
    BY <1>8, <1>t, <2>3, <2>4, <2>5
    DEF ScanArticle, TypeOK, RowsTypeOK, QueueTypeOK, HistoryTypeOK, asynq
<1>9. ASSUME NEW w \in Workers, FinishTask(w) PROVE TypeOK'
  <2> DEFINE e == exec[w]
             done == [status |-> IF e.broken THEN "failed"
                                 ELSE ResolveTaskStatus(e.total, e.fail),
                      total |-> e.total, hitArticles |-> e.hitArticles,
                      hitCount |-> e.hitCount, fail |-> e.fail]
  <2>1. e.pc = "finish" /\ e.task \in Tasks
    BY <1>9, <1>l DEF FinishTask
  <2>2. done \in TaskRow
    <3>1. ResolveTaskStatus(e.total, e.fail) \in Statuses /\ "failed" \in Statuses
      BY DEF ResolveTaskStatus, Statuses, Final
    <3> QED BY <1>l, <3>1 DEF Executor, TaskRow
  <2>3. task' = task \/ task' = [task EXCEPT ![e.task] = done]
    BY <1>9 DEF FinishTask
  <2>4. task' \in [Tasks -> TaskRow]
    <3> HIDE DEF done
    <3> QED BY <1>t, <2>1, <2>2, <2>3 DEF RowsTypeOK
  <2>5. ExecTypeOK' /\ QueueTypeOK'
    <3>1. Fail(w) \/ Succeed(w)
      BY <1>9 DEF FinishTask, FinishError
    <3> QED BY <1>t, <2>1, <3>1, ReturnType
  <2>6. faults' \in Nat
    BY <1>9, <1>f DEF FinishTask
  <2> QED
    BY <1>9, <1>t, <2>4, <2>5, <2>6
    DEF FinishTask, TypeOK, RowsTypeOK, HistoryTypeOK, history
<1>10. ASSUME NEW w \in Workers, Crash(w) PROVE TypeOK'
  <2>1. ExecTypeOK'
    BY <1>10, <1>t, IdleType, BecomeType DEF Crash, Idle
  <2> QED
    BY <1>10, <1>t, <2>1
    DEF Crash, TypeOK, RowsTypeOK, QueueTypeOK, HistoryTypeOK, asynq, history
<1>11. ASSUME NEW d \in Deleters, NEW t \in Tasks, DeleteCheck(d, t) PROVE TypeOK'
  BY <1>11, <1>t
  DEF DeleteCheck, TypeOK, RowsTypeOK, ExecTypeOK, QueueTypeOK, HistoryTypeOK,
      asynq, history, bounds
<1>12. ASSUME NEW d \in Deleters, deleteTaskGraph(d) PROVE TypeOK'
  BY <1>12, <1>t, IdleType
  DEF deleteTaskGraph, TypeOK, RowsTypeOK, ExecTypeOK, QueueTypeOK, HistoryTypeOK,
      asynq, history, bounds
<1>13. ASSUME NEW a \in Articles, Edit(a) PROVE TypeOK'
  BY <1>13, <1>t
  DEF Edit, TypeOK, RowsTypeOK, ExecTypeOK, QueueTypeOK, HistoryTypeOK, asynq
<1>14. CASE UNCHANGED vars
  BY <1>14, <1>t
  DEF vars, TypeOK, RowsTypeOK, ExecTypeOK, QueueTypeOK, HistoryTypeOK,
      asynq, history, bounds
<1> QED
  BY <1>1, <1>2, <1>3, <1>4, <1>5, <1>6, <1>7, <1>8, <1>9, <1>10, <1>11,
     <1>12, <1>13, <1>14
  DEF Next, WorkerStep

(* Task execution is well-typed in every reachable state. *)
THEOREM TypeCorrect == Spec => []TypeOK
<1>1. Init => TypeOK
  BY IdleType
  DEF Init, TypeOK, RowsTypeOK, ExecTypeOK, QueueTypeOK, HistoryTypeOK, Idle
<1> QED
  BY <1>1, TypeInductive, PTL DEF Spec
-----------------------------------------------------------------------------
(* What a worker's own move leaves of the others. *)
LEMMA Moves ==
  ASSUME TypeOK, NEW w \in Workers
  PROVE  /\ \A x : Become(w, x) => exec'[w] = x
                      /\ \A v \in Workers : v # w => exec'[v] = exec[v]
         /\ Succeed(w) \/ Fail(w) => exec'[w].pc = "idle"
                      /\ \A v \in Workers : v # w => exec'[v] = exec[v]
         /\ \A b : Stop(w, b) =>
              /\ exec'[w].pc = "finish" /\ exec'[w].task = exec[w].task
              /\ \A v \in Workers : v # w => exec'[v] = exec[v]
<1>1. \A x : Become(w, x) => exec'[w] = x
                /\ \A v \in Workers : v # w => exec'[v] = exec[v]
  BY DEF TypeOK, ExecTypeOK, Become
<1>2. Idle.pc = "idle"
  BY DEF Idle
<1>3. ASSUME NEW b
      PROVE  LET x == [exec[w] EXCEPT !.pc = "finish", !.broken = b]
             IN  x.pc = "finish" /\ x.task = exec[w].task
  BY DEF TypeOK, ExecTypeOK, Executor
<1> QED
  BY <1>1, <1>2, <1>3 DEF Succeed, Fail, Stop

(* Strengthening of SingleExecution: a worker executes a task only after it *)
(* was the one to start it, and until then the row says running (or the     *)
(* task was deleted); a pending task was never started.                     *)
RunInv ==
  /\ \A t \in Tasks : t \notin created => Status(t) = "absent" /\ starts[t] = 0
  /\ \A t \in Tasks : Status(t) = "pending" => starts[t] = 0
  /\ \A t \in Tasks : \A w \in Workers : Executing(w, t) =>
       starts[t] = 1 /\ Status(t) \in {"running", "absent"}
  /\ SingleExecution

LEMMA RunInductive == TypeOK /\ RunInv /\ [Next]_vars => RunInv'
<1> SUFFICES ASSUME TypeOK, RunInv, [Next]_vars PROVE RunInv'
  OBVIOUS
<1>t. RowsTypeOK /\ ExecTypeOK /\ HistoryTypeOK
  BY DEF TypeOK
<1>n. NoTask.status = "absent" /\ [NoTask EXCEPT !.status = "pending"].status = "pending"
      /\ Idle.pc = "idle"
  BY DEF NoTask, Idle
<1>l. ASSUME NEW w \in Workers
      PROVE  exec[w] \in Executor /\ (exec[w].pc # "idle" => exec[w].task \in Tasks)
  BY <1>t DEF ExecTypeOK
(* A step that touches neither rows nor starts, and after which each worker *)
(* executes at most what it executed before.                                *)
<1>q. ASSUME UNCHANGED <<task, created, starts>>,
             \A t \in Tasks : \A w \in Workers : Executing(w, t)' => Executing(w, t)
      PROVE  RunInv'
  BY <1>q DEF RunInv, SingleExecution, Status
<1>1. ASSUME NEW t \in Tasks, Create(t) PROVE RunInv'
  BY <1>1, <1>t, <1>n
  DEF Create, RunInv, SingleExecution, Status, Executing, RowsTypeOK, HistoryTypeOK
<1>2. ASSUME NEW t \in Tasks, Enqueue(t) \/ LeaseLost(t) PROVE RunInv'
  BY <1>2, <1>q DEF Enqueue, LeaseLost, Executing, history
<1>3. ASSUME NEW w \in Workers, NEW t \in Tasks, Take(w, t) PROVE RunInv'
  <2>1. exec'[w].pc = "start" /\ \A v \in Workers : v # w => exec'[v] = exec[v]
    BY <1>3, Moves DEF Take, Idle
  <2> QED
    BY <1>3, <1>q, <2>1 DEF Take, Executing, history
<1>4. ASSUME NEW w \in Workers, StartTask(w) PROVE RunInv'
  <2> DEFINE t == exec[w].task
  <2>1. exec[w].pc = "start" /\ t \in Tasks /\ created' = created
    BY <1>4, <1>l DEF StartTask
  <2>2. /\ exec'[w].pc \in {"idle", "reload"}
        /\ exec'[w].pc = "reload" => exec'[w].task = t /\ MarkRunning(t)
        /\ \A v \in Workers : v # w => exec'[v] = exec[v]
    <3>1. /\ [exec[w] EXCEPT !.pc = "reload"].pc = "reload"
          /\ [exec[w] EXCEPT !.pc = "reload"].task = t
      BY <1>l DEF Executor
    <3> QED BY <1>4, <3>1, Moves DEF StartTask
  <2>3. CASE ~MarkRunning(t)
    <3>1. UNCHANGED <<task, starts>>
      BY <1>4, <2>3 DEF StartTask
    <3> QED BY <1>q, <2>1, <2>2, <2>3, <3>1 DEF Executing
  <2>4. CASE MarkRunning(t)
    <3>1. Status(t) = "pending" /\ starts' = [starts EXCEPT ![t] = @ + 1]
      BY <2>4 DEF MarkRunning
    <3>2. \A u \in Tasks : Status(u)' = IF u = t THEN "running" ELSE Status(u)
      BY <1>t, <2>1, <2>4 DEF MarkRunning, Status, RowsTypeOK, TaskRow
    <3>3. starts[t] = 0 /\ \A v \in Workers : ~Executing(v, t)
      BY <2>1, <3>1 DEF RunInv
    <3>4. \A u \in Tasks : starts'[u] = IF u = t THEN 1 ELSE starts[u]
      BY <1>t, <2>1, <3>1, <3>3 DEF HistoryTypeOK
    <3>5. \A u \in Tasks : \A v \in Workers :
            Executing(v, u)' => (v = w /\ u = t) \/ Executing(v, u)
      BY <2>2 DEF Executing
    <3>6. t \in created
      BY <2>1, <3>1 DEF RunInv
    <3> QED
      BY <2>1, <3>2, <3>3, <3>4, <3>5, <3>6 DEF RunInv, SingleExecution
  <2> QED
    BY <2>3, <2>4
<1>5. ASSUME NEW w \in Workers, ReloadTask(w) \/ ListCandidateArticles(w) PROVE RunInv'
  <2>1. exec[w].pc \in {"reload", "list"} /\ UNCHANGED <<task, created, starts>>
    BY <1>5 DEF ReloadTask, ListCandidateArticles, history
  <2>2. \A x : [exec[w] EXCEPT !.pc = x].task = exec[w].task
    BY <1>l DEF Executor
  <2>3. \A last : [exec[w] EXCEPT !.pc = "scan", !.page = Page(exec[w].cursor),
                      !.full = Cardinality(Page(exec[w].cursor)) >= BatchSize,
                      !.last = last].task = exec[w].task
    BY <1>l DEF Executor
  <2>4. /\ exec'[w].pc = "idle" \/ exec'[w].task = exec[w].task
        /\ \A v \in Workers : v # w => exec'[v] = exec[v]
    BY <1>5, <2>2, <2>3, Moves DEF ReloadTask, ListCandidateArticles
  <2> QED
    BY <1>q, <2>1, <2>4 DEF Executing
<1>6. ASSUME NEW w \in Workers, ScanArticle(w) PROVE RunInv'
  <2>1. exec[w].pc = "scan" /\ UNCHANGED <<task, created, starts>>
    BY <1>6 DEF ScanArticle
  <2>2. PICK x : Become(w, x) /\ x.task = exec[w].task
    BY <1>6, ScanStep
  <2>3. exec'[w].task = exec[w].task /\ \A v \in Workers : v # w => exec'[v] = exec[v]
    BY <2>2, Moves
  <2> QED
    BY <1>q, <2>1, <2>3 DEF Executing
<1>7. ASSUME NEW w \in Workers, FinishTask(w) PROVE RunInv'
  <2>0. PICK t \in Tasks : exec[w].task = t
    BY <1>7, <1>l DEF FinishTask
  <2>1. /\ exec'[w].pc = "idle" /\ \A v \in Workers : v # w => exec'[v] = exec[v]
        /\ UNCHANGED <<created, starts>> /\ Executing(w, t)
    BY <1>7, <2>0, Moves DEF FinishTask, FinishError, history, Executing
  <2>2. \A u \in Tasks : \A v \in Workers :
          Executing(v, u)' => Executing(v, u) /\ u # t
    BY <2>1 DEF Executing, RunInv, SingleExecution
  <2>3. \A u \in Tasks : u # t => Status(u)' = Status(u)
    BY <1>7, <1>t, <2>0 DEF FinishTask, Status, RowsTypeOK
  <2>4. /\ Status(t) = "absent" => Status(t)' = "absent"
        /\ Status(t) # "absent" => Status(t)' = Status(t) \/ Status(t)' \in Final
    <3>1. \A m, n : ResolveTaskStatus(m, n) \in Final /\ "failed" \in Final
      BY DEF ResolveTaskStatus, Final
    <3> DEFINE e == exec[w]
               done == [status |-> IF e.broken THEN "failed"
                                   ELSE ResolveTaskStatus(e.total, e.fail),
                        total |-> e.total, hitArticles |-> e.hitArticles,
                        hitCount |-> e.hitCount, fail |-> e.fail]
    <3>d. done.status \in Final
      BY <3>1
    <3>2. task' = task \/ (Status(t) # "absent" /\ task' = [task EXCEPT ![t] = done])
      BY <1>7, <2>0 DEF FinishTask
    <3> HIDE DEF done
    <3>3. CASE task' = task
      BY <3>3 DEF Status
    <3>4. ASSUME NEW d, task' = [task EXCEPT ![t] = d], d.status \in Final
          PROVE  Status(t)' \in Final
      BY <1>t, <2>1, <3>4 DEF Status, RowsTypeOK
    <3> QED BY <3>d, <3>2, <3>3, <3>4
  <2>5. Status(t) # "pending" /\ (Status(t) = "absent" \/ t \in created)
    BY <2>1 DEF RunInv
  <2>6. Status(t)' # "pending" /\ (t \notin created => Status(t)' = "absent")
    BY <2>4, <2>5 DEF Final
  <2>7. \A u \in Tasks : /\ u \notin created => Status(u)' = "absent" /\ starts[u] = 0
                         /\ Status(u)' = "pending" => starts[u] = 0
    BY <2>3, <2>6 DEF RunInv
  <2>8. \A u \in Tasks : \A v \in Workers : Executing(v, u)' =>
          starts[u] = 1 /\ Status(u)' \in {"running", "absent"}
    BY <2>2, <2>3 DEF RunInv
  <2>9. SingleExecution'
    BY <2>1, <2>2 DEF RunInv, SingleExecution
  <2> QED
    BY <2>1, <2>7, <2>8, <2>9 DEF RunInv
<1>8. ASSUME NEW w \in Workers, Crash(w) PROVE RunInv'
  <2>1. exec'[w].pc = "idle" /\ \A v \in Workers : v # w => exec'[v] = exec[v]
    BY <1>8, <1>n, Moves DEF Crash
  <2> QED
    BY <1>8, <1>q, <2>1 DEF Crash, Executing, history
<1>9. ASSUME NEW d \in Deleters, NEW t \in Tasks, DeleteCheck(d, t) PROVE RunInv'
  BY <1>9, <1>q DEF DeleteCheck, Executing, history
<1>10. ASSUME NEW d \in Deleters, deleteTaskGraph(d) PROVE RunInv'
  <2>1. \A t \in Tasks : Status(t)' \in {Status(t), "absent"}
    BY <1>10, <1>t, <1>n DEF deleteTaskGraph, Status, RowsTypeOK
  <2>2. UNCHANGED <<exec, created, starts>>
    BY <1>10 DEF deleteTaskGraph, history
  <2> QED
    BY <2>1, <2>2 DEF RunInv, SingleExecution, Executing
<1>11. ASSUME NEW a \in Articles, Edit(a) PROVE RunInv'
  BY <1>11, <1>q DEF Edit, Executing
<1>12. CASE UNCHANGED vars
  BY <1>12, <1>q DEF vars, Executing, history
<1> QED
  BY <1>1, <1>2, <1>3, <1>4, <1>5, <1>6, <1>7, <1>8, <1>9, <1>10, <1>11, <1>12
  DEF Next, WorkerStep

LEMMA RunInit == Init => RunInv
  BY DEF Init, RunInv, SingleExecution, Executing, Status, NoTask, Idle

(* However often its message is delivered, a task is started at most once   *)
(* and executed by one worker at a time (startTask's conditional UPDATE).   *)
THEOREM OneExecution == Spec => []SingleExecution
<1>1. RunInv => SingleExecution
  BY DEF RunInv
<1> QED
  BY <1>1, RunInit, TypeCorrect, RunInductive, PTL DEF Spec

(* A finished task's row changes only by deletion: nobody starts or         *)
(* finishes it again, though finishTask writes without a condition.         *)
THEOREM VerdictIsFinal == Spec => VerdictStands
<1>1. ASSUME TypeOK, RunInv, [Next]_vars, NEW t \in Tasks, Status(t) \in Final
      PROVE  task'[t] = task[t] \/ task'[t].status = "absent"
  <2>t. task \in [Tasks -> TaskRow]
    BY <1>1 DEF TypeOK, RowsTypeOK
  <2>s. Status(t) \notin {"absent", "pending", "running"}
    BY <1>1 DEF Final
  <2>1. ASSUME NEW u \in Tasks, Create(u) PROVE task'[t] = task[t]
    BY <1>1, <2>1, <2>s, <2>t DEF Create, RunInv
  <2>2. ASSUME NEW w \in Workers, StartTask(w) PROVE task'[t] = task[t]
    BY <2>2, <2>s, <2>t DEF StartTask, MarkRunning
  <2>3. ASSUME NEW w \in Workers, FinishTask(w) PROVE task'[t] = task[t]
    <3>1. exec[w].task # t
      BY <1>1, <2>3, <2>s DEF FinishTask, RunInv, Executing
    <3> QED BY <2>3, <2>t, <3>1 DEF FinishTask
  <2>4. ASSUME NEW d \in Deleters, deleteTaskGraph(d)
        PROVE  task'[t] = task[t] \/ task'[t].status = "absent"
    BY <2>4, <2>t DEF deleteTaskGraph, NoTask
  <2>5. CASE UNCHANGED task
    BY <2>5
  <2>6. ASSUME NEW w \in Workers, ReloadTask(w) \/ ListCandidateArticles(w)
                                   \/ ScanArticle(w) \/ Crash(w)
        PROVE  UNCHANGED task
    BY <2>6 DEF ReloadTask, ListCandidateArticles, ScanArticle, Crash
  <2>7. ASSUME NEW u \in Tasks, \/ Enqueue(u) \/ LeaseLost(u)
                                \/ \E w \in Workers : Take(w, u)
                                \/ \E d \in Deleters : DeleteCheck(d, u)
        PROVE  UNCHANGED task
    BY <2>7 DEF Enqueue, LeaseLost, Take, DeleteCheck
  <2>8. ASSUME NEW a \in Articles, Edit(a) PROVE UNCHANGED task
    BY <2>8 DEF Edit
  <2>9. CASE UNCHANGED vars
    BY <2>9 DEF vars
  <2> QED
    BY <1>1, <2>1, <2>2, <2>3, <2>4, <2>5, <2>6, <2>7, <2>8, <2>9
    DEF Next, WorkerStep
<1>2. TypeOK /\ RunInv /\ [Next]_vars
        => [\A t \in Tasks : Status(t) \in Final
              => task'[t] = task[t] \/ task'[t].status = "absent"]_vars
  BY <1>1
<1> QED
  BY <1>2, RunInit, TypeCorrect, RunInductive, PTL DEF Spec, VerdictStands
-----------------------------------------------------------------------------
(* Strengthening of ScannedOnce: what worker w has scanned of its task lies *)
(* behind its cursor and before the rest of its page.                       *)
Behind(w) ==
  LET e == exec[w] n == seen[e.task]
  IN  /\ e.pc = "reload" => \A a \in Articles : n[a] = 0
      /\ e.pc = "list" => \A a \in Articles : n[a] > 0 => a <= e.cursor
      /\ e.pc = "scan" => /\ \A b \in e.page : b <= e.last
                          /\ \A a \in Articles : n[a] > 0 =>
                               a <= e.last /\ \A b \in e.page : a < b

ScanInv ==
  /\ \A t \in Tasks, a \in Articles : starts[t] = 0 => seen[t][a] = 0
  /\ \A w \in Workers : Behind(w)
  /\ ScannedOnce

LEMMA ScanInductive == TypeOK /\ RunInv /\ ScanInv /\ [Next]_vars => ScanInv'
<1> SUFFICES ASSUME TypeOK, RunInv, ScanInv, [Next]_vars PROVE ScanInv'
  OBVIOUS
<1>t. RowsTypeOK /\ ExecTypeOK /\ HistoryTypeOK
  BY DEF TypeOK
<1>i. /\ \A t \in Tasks, a \in Articles : starts[t] = 0 => seen[t][a] = 0
      /\ \A w \in Workers : Behind(w)
      /\ ScannedOnce
  BY DEF ScanInv
<1>a. \A a \in Articles : a \in Nat /\ a > 0
  BY ExecutionAssumption
<1>l. ASSUME NEW w \in Workers
      PROVE  /\ exec[w] \in Executor
             /\ exec[w].pc # "idle" => exec[w].task \in Tasks
             /\ exec[w].cursor \in Nat /\ exec[w].last \in Nat
             /\ exec[w].page \in SUBSET Articles
  BY <1>t, <1>a DEF ExecTypeOK, Executor
(* Workers that are not in the loop have nothing to show. *)
<1>o. ASSUME NEW w \in Workers, exec'[w].pc \in {"idle", "start", "finish"}
      PROVE  Behind(w)'
  BY <1>o DEF Behind
(* A step that scans nothing, in which only w moves, to a fitting place. *)
<1>q. ASSUME NEW w \in Workers, UNCHANGED <<starts, seen>>, Behind(w)',
             \A v \in Workers : v # w => exec'[v] = exec[v]
      PROVE  ScanInv'
  <2>1. \A v \in Workers : v # w => Behind(v)'
    BY <1>i, <1>q DEF Behind
  <2> QED
    BY <1>i, <1>q, <2>1 DEF ScanInv, ScannedOnce
<1>u. ASSUME UNCHANGED <<exec, starts, seen>> PROVE ScanInv'
  BY <1>i, <1>u DEF ScanInv, ScannedOnce, Behind
<1>1. ASSUME NEW t \in Tasks, Create(t) \/ Enqueue(t) \/ LeaseLost(t) PROVE ScanInv'
  BY <1>1, <1>u DEF Create, Enqueue, LeaseLost, history
<1>2. ASSUME NEW w \in Workers, NEW t \in Tasks, Take(w, t) PROVE ScanInv'
  <2>1. exec'[w].pc = "start" /\ \A v \in Workers : v # w => exec'[v] = exec[v]
    BY <1>2, Moves DEF Take, Idle
  <2> QED
    BY <1>2, <1>o, <1>q, <2>1 DEF Take, history
<1>3. ASSUME NEW w \in Workers, StartTask(w) PROVE ScanInv'
  <2>0. PICK t \in Tasks : exec[w].task = t
    BY <1>3, <1>l DEF StartTask
  <2>1. /\ exec'[w].pc = "idle" \/ (exec'[w].pc = "reload" /\ exec'[w].task = t)
        /\ exec'[w].pc = "reload" => starts[t] = 0
        /\ \A v \in Workers : v # w => exec'[v] = exec[v]
        /\ seen' = seen
    <3>1. /\ [exec[w] EXCEPT !.pc = "reload"].pc = "reload"
          /\ [exec[w] EXCEPT !.pc = "reload"].task = t
      BY <1>l, <2>0 DEF Executor
    <3>2. MarkRunning(t) => starts[t] = 0
      BY DEF MarkRunning, RunInv
    <3> QED BY <1>3, <2>0, <3>1, <3>2, Moves DEF StartTask
  <2>2. Behind(w)'
    BY <1>i, <1>o, <2>1 DEF Behind
  <2>3. \A v \in Workers : Behind(v)'
    BY <1>i, <2>1, <2>2 DEF Behind
  <2>4. \A u \in Tasks : starts'[u] = 0 => starts[u] = 0
    BY <1>3, <1>t, <2>0 DEF StartTask, MarkRunning, HistoryTypeOK
  <2> QED
    BY <1>i, <2>1, <2>3, <2>4 DEF ScanInv, ScannedOnce
<1>4. ASSUME NEW w \in Workers, ReloadTask(w) PROVE ScanInv'
  <2>1. /\ exec[w].pc = "reload" /\ UNCHANGED <<starts, seen>>
        /\ \A v \in Workers : v # w => exec'[v] = exec[v]
        /\ \/ exec'[w].pc \in {"idle", "finish"}
           \/ exec'[w].pc = "list" /\ exec'[w].task = exec[w].task
    <3>1. /\ [exec[w] EXCEPT !.pc = "list"].pc = "list"
          /\ [exec[w] EXCEPT !.pc = "list"].task = exec[w].task
      BY <1>l DEF Executor
    <3> QED BY <1>4, <3>1, Moves DEF ReloadTask, history
  <2>2. Behind(w)'
    BY <1>i, <1>o, <2>1 DEF Behind
  <2> QED
    BY <1>q, <2>1, <2>2
<1>5. ASSUME NEW w \in Workers, ListCandidateArticles(w) PROVE ScanInv'
  <2> DEFINE page == Page(exec[w].cursor)
  <2>1. exec[w].pc = "list" /\ UNCHANGED <<starts, seen>>
    BY <1>5 DEF ListCandidateArticles, history
  <2>2. \A b \in page : b \in Articles /\ b > exec[w].cursor
    BY <1>t DEF Page, RowsTypeOK
  <2>3. CASE Stop(w, TRUE) \/ Stop(w, FALSE)
    BY <1>o, <1>q, <2>1, <2>3, Moves
  <2>4. CASE \E last \in page :
               /\ \A a \in page : a <= last
               /\ Become(w, [exec[w] EXCEPT !.pc = "scan", !.page = page,
                               !.full = Cardinality(page) >= BatchSize,
                               !.last = last])
    <3>1. PICK last \in page :
               /\ \A a \in page : a <= last
               /\ Become(w, [exec[w] EXCEPT !.pc = "scan", !.page = page,
                               !.full = Cardinality(page) >= BatchSize,
                               !.last = last])
      BY <2>4
    <3> DEFINE x == [exec[w] EXCEPT !.pc = "scan", !.page = page,
                       !.full = Cardinality(page) >= BatchSize, !.last = last]
    <3>2. x.pc = "scan" /\ x.page = page /\ x.last = last /\ x.task = exec[w].task
      <4> HIDE DEF page
      <4> QED BY <1>l DEF Executor
    <3>3. exec'[w] = x /\ \A v \in Workers : v # w => exec'[v] = exec[v]
      BY <3>1, Moves
    <3>4. \A a \in Articles : seen[exec[w].task][a] > 0 => a <= exec[w].cursor
      BY <1>i, <2>1 DEF Behind
    <3>5. \A a \in Articles : seen[exec[w].task][a] > 0 =>
            a <= last /\ \A b \in page : a < b
      <4> HIDE DEF page
      <4> QED BY <1>a, <1>l, <2>2, <3>4
    <3>6. Behind(w)'
      <4> HIDE DEF x, page
      <4> QED BY <2>1, <3>1, <3>2, <3>3, <3>5 DEF Behind
    <3> QED
      BY <1>q, <2>1, <3>3, <3>6
  <2> QED
    BY <1>5, <2>3, <2>4 DEF ListCandidateArticles
<1>6. ASSUME NEW w \in Workers, ScanArticle(w) PROVE ScanInv'
  <2>0. PICK t \in Tasks : exec[w].task = t
    BY <1>6, <1>l DEF ScanArticle
  <2>s. PICK a \in exec[w].page, x \in Executor :
          /\ \A b \in exec[w].page : a <= b
          /\ exec[w].task \in Tasks
          /\ seen' = [seen EXCEPT ![exec[w].task][a] = @ + 1]
          /\ Become(w, x)
          /\ x.task = exec[w].task /\ x.last = exec[w].last
          /\ \/ /\ x.pc = "scan" /\ x.page = exec[w].page \ {a}
                /\ x.page # {} /\ x.cursor = exec[w].cursor
             \/ /\ x.pc = "list" /\ x.cursor = exec[w].last
                /\ exec[w].page \ {a} = {}
             \/ x.pc = "finish"
          /\ results' = results
             \/ results' = [results EXCEPT ![exec[w].task] = @ \cup {a}]
    BY <1>6, ScanStep
  <2>1. /\ \A b \in exec[w].page : a <= b
        /\ seen' = [seen EXCEPT ![t][a] = @ + 1]
        /\ Become(w, x) /\ x.task = t /\ x.last = exec[w].last
        /\ \/ x.pc = "scan" /\ x.page = exec[w].page \ {a}
           \/ x.pc = "list" /\ x.cursor = exec[w].last
           \/ x.pc = "finish"
    BY <2>0, <2>s
  <2>2. a \in Articles /\ exec[w].pc = "scan" /\ Executing(w, t) /\ starts' = starts
    BY <1>6, <1>l, <2>0 DEF ScanArticle, Executing
  <2>3. /\ \A b \in exec[w].page : b <= exec[w].last
        /\ \A c \in Articles : seen[t][c] > 0 =>
             c <= exec[w].last /\ \A b \in exec[w].page : c < b
    BY <1>i, <2>0, <2>2 DEF Behind
  <2>4. seen[t][a] = 0
    <3>1. ~(seen[t][a] > 0)
      BY <1>a, <2>2, <2>3
    <3>2. seen[t][a] \in Nat
      BY <1>t, <2>2 DEF HistoryTypeOK
    <3> QED BY <3>1, <3>2
  <2>5. /\ \A c \in Articles : seen'[t][c] = IF c = a THEN 1 ELSE seen[t][c]
        /\ \A u \in Tasks : u # t => seen'[u] = seen[u]
    BY <1>t, <2>1, <2>2, <2>4 DEF HistoryTypeOK
  <2>6. exec'[w] = x /\ \A v \in Workers : v # w => exec'[v] = exec[v]
    BY <2>1, Moves
  <2>7. ScannedOnce'
    BY <1>i, <2>5 DEF ScannedOnce
  <2>8. \A u \in Tasks, c \in Articles : starts'[u] = 0 => seen'[u][c] = 0
    BY <1>i, <2>2, <2>5 DEF RunInv
  <2>9. Behind(w)'
    <3>1. \A c \in Articles : seen'[t][c] > 0 =>
            c <= exec[w].last /\ \A b \in exec[w].page \ {a} : c < b
      BY <1>a, <1>l, <2>1, <2>3, <2>5
    <3> QED
      BY <2>1, <2>3, <2>6, <3>1 DEF Behind
  <2>10. ASSUME NEW v \in Workers, v # w PROVE Behind(v)'
    <3>1. CASE exec[v].pc \in {"reload", "list", "scan"}
      <4>1. exec[v].task # t /\ exec[v].task \in Tasks
        BY <1>l, <2>2, <2>10, <3>1 DEF RunInv, SingleExecution, Executing
      <4>2. seen'[exec[v].task] = seen[exec[v].task] /\ exec'[v] = exec[v]
        BY <2>5, <2>6, <2>10, <4>1
      <4> QED BY <1>i, <4>2 DEF Behind
    <3>2. CASE exec[v].pc \notin {"reload", "list", "scan"}
      BY <2>6, <2>10, <3>2 DEF Behind
    <3> QED BY <3>1, <3>2
  <2> QED
    BY <2>7, <2>8, <2>9, <2>10 DEF ScanInv
<1>7. ASSUME NEW w \in Workers, FinishTask(w) \/ Crash(w) PROVE ScanInv'
  <2>1. exec'[w].pc = "idle" /\ \A v \in Workers : v # w => exec'[v] = exec[v]
    BY <1>7, Moves DEF FinishTask, FinishError, Crash, Idle
  <2> QED
    BY <1>7, <1>o, <1>q, <2>1 DEF FinishTask, Crash, history
<1>8. ASSUME NEW d \in Deleters,
             deleteTaskGraph(d) \/ \E t \in Tasks : DeleteCheck(d, t)
      PROVE  ScanInv'
  BY <1>8, <1>u DEF deleteTaskGraph, DeleteCheck, history
<1>9. ASSUME NEW a \in Articles, Edit(a) PROVE ScanInv'
  BY <1>9, <1>u DEF Edit
<1>10. CASE UNCHANGED vars
  BY <1>10, <1>u DEF vars, history
<1> QED
  BY <1>1, <1>2, <1>3, <1>4, <1>5, <1>6, <1>7, <1>8, <1>9, <1>10 DEF Next, WorkerStep

(* No article is scanned twice for a task, for any page size, any articles  *)
(* and any edits between two pages: the cursor only moves forward.          *)
THEOREM PagesNeverRepeat == Spec => []ScannedOnce
<1>1. Init => ScanInv
  BY DEF Init, ScanInv, ScannedOnce, Behind, Idle
<1>2. ScanInv => ScannedOnce
  BY DEF ScanInv
<1> QED
  BY <1>1, <1>2, RunInit, TypeCorrect, RunInductive, ScanInductive, PTL DEF Spec

-----------------------------------------------------------------------------
(* What a worker's counters and place in the scan say of its task.  e: its  *)
(* locals; n, R, K: how often each article was scanned for the task, the    *)
(* articles with a result row, those that were there all the time.          *)
Blank(e) == /\ e.cursor = 0 /\ e.total = 0 /\ e.fail = 0
            /\ e.hitArticles = 0 /\ e.hitCount = 0

(* The counters against the result rows. *)
Balanced(e, R) ==
  /\ Cardinality(R) <= e.hitArticles /\ e.hitArticles <= Cardinality(R) + e.fail
  /\ e.hitArticles <= e.hitCount /\ e.fail <= e.total /\ e.hitArticles <= e.total

(* As long as nothing failed, what was scanned is as success demands. *)
Clean(e, n, R) ==
  /\ \A a \in R : n[a] > 0
  /\ e.fail = 0 => \A a \in Articles : n[a] > 0 =>
       Scan[a] # ScanError /\ (Scan[a] > 0 => a \in R)

(* Nothing that stayed there was left out. *)
Covered(e, n, K) ==
  /\ e.pc = "list" => \A a \in K : a <= e.cursor => n[a] > 0
  /\ e.pc = "scan" => /\ e.cursor < e.last
                      /\ \A b \in e.page : b <= e.last
                      /\ \A a \in K : a <= e.last \/ ~e.full => n[a] > 0 \/ a \in e.page
  /\ e.pc = "finish" /\ ~e.broken => \A a \in K : n[a] > 0

Account(e, n, R, K) ==
  /\ e.pc = "reload" => Blank(e)
  /\ Balanced(e, R) /\ Clean(e, n, R) /\ Covered(e, n, K)

(* What a verdict r promises. *)
Verdict(r, n, R, K) ==
  /\ r.status \in Final => Balanced(r, R)
  /\ r.status = "success" =>
       \A a \in K : /\ n[a] > 0 /\ Scan[a] # ScanError
                    /\ Scan[a] > 0 => a \in R

WorkInv ==
  /\ \A t \in Tasks : steady[t] \subseteq eligible
  /\ \A t \in Tasks : starts[t] = 0 => results[t] = {}
  /\ \A w \in Workers : exec[w].pc = "start" => Blank(exec[w])
  /\ \A w \in Workers : \A t \in Tasks : Executing(w, t) /\ Status(t) # "absent" =>
       Account(exec[w], seen[t], results[t], steady[t])
  /\ \A t \in Tasks : Verdict(task[t], seen[t], results[t], steady[t])

(* A page leaves nothing out: an article above the cursor is on it, or it   *)
(* is full and all of it lies before that article.  The least article that  *)
(* is not on the page has BatchSize others before it, which are.            *)
LEMMA PageComplete ==
  ASSUME RowsTypeOK, NEW cursor \in Nat, NEW a \in eligible, a > cursor,
         a \notin Page(cursor)
  PROVE  /\ Cardinality(Page(cursor)) >= BatchSize
         /\ \A b \in Page(cursor) : b < a
<1> DEFINE after == {b \in eligible : b > cursor}
           L(c) == {b \in after : b < c}
           page == Page(cursor)
<1>1. after \subseteq Articles /\ Articles \subseteq Nat /\ BatchSize \in Nat
  BY ExecutionAssumption DEF RowsTypeOK
<1>2. \A c \in after : c \in page <=> Cardinality(L(c)) < BatchSize
  BY ExecutionAssumption DEF Page
<1>3. page \subseteq after
  BY DEF Page
<1>4. \A S \in SUBSET Articles : IsFiniteSet(S) /\ Cardinality(S) \in Nat
  BY ExecutionAssumption, FS_Subset, FS_CardinalityType
<1>5. \A S, T \in SUBSET Articles : S \subseteq T => Cardinality(S) <= Cardinality(T)
  BY <1>4, FS_Subset
<1>6. a \in after /\ ~(Cardinality(L(a)) < BatchSize)
  BY <1>2
<1>7. ASSUME NEW b \in page, ~(b < a) PROVE FALSE
  <2>1. L(a) \subseteq L(b) /\ L(a) \in SUBSET Articles /\ L(b) \in SUBSET Articles
    <3>1. a \in Nat /\ b \in Nat /\ a <= b
      <4>1. a \in Nat /\ b \in Nat
        BY <1>1, <1>3, <1>6, <1>7
      <4> QED BY <1>7, <4>1
    <3>2. \A d \in after : d \in Nat
      BY <1>1
    <3>3. \A d \in after : d < a => d < b
      <4> HIDE DEF after
      <4> QED BY <3>1, <3>2
    <3> QED
      BY <1>1, <3>3
  <2>2. Cardinality(L(a)) <= Cardinality(L(b))
    BY <1>5, <2>1
  <2>3. Cardinality(L(b)) < BatchSize
    BY <1>2, <1>3, <1>7
  <2>4. Cardinality(L(a)) \in Nat /\ Cardinality(L(b)) \in Nat
    BY <1>4, <2>1
  <2> HIDE DEF L
  <2> QED
    BY <1>1, <1>6, <2>2, <2>3, <2>4
<1>8. PICK c \in after \ page : \A d \in after \ page : c <= d
  <2>1. after \ page \subseteq Nat /\ after \ page # {}
    BY <1>1, <1>6
  <2> HIDE DEF after, page
  <2> QED BY <2>1, LeastNat
<1>9. L(c) \subseteq page
  <2>1. ASSUME NEW d \in after, d < c PROVE d \in page
    <3>1. d \in Nat /\ c \in Nat
      BY <1>1, <1>8
    <3> HIDE DEF after, page
    <3> QED BY <1>8, <2>1, <3>1
  <2> QED BY <2>1
<1>10. L(c) \in SUBSET Articles /\ page \in SUBSET Articles
  BY <1>1, <1>3
<1>11. ~(Cardinality(L(c)) < BatchSize)
  BY <1>2, <1>8
<1>12. Cardinality(L(c)) <= Cardinality(page)
       /\ Cardinality(L(c)) \in Nat /\ Cardinality(page) \in Nat
  BY <1>4, <1>5, <1>9, <1>10
<1>13. Cardinality(page) >= BatchSize
  <2> HIDE DEF L, page
  <2> QED BY <1>1, <1>11, <1>12
<1> QED
  BY <1>7, <1>13

(* What one article does to the rows and the counters: a row is written     *)
(* only for a hit, a hit without one is counted as failed, and an article   *)
(* that is not counted as failed was scanned and has its row if it needs it.*)
Outcome(a, hits, fail, R, S) ==
  /\ \/ S = R /\ (hits > 0 => fail = 1)
     \/ S = R \cup {a} /\ hits > 0
  /\ fail = 0 => Scan[a] # ScanError /\ (Scan[a] > 0 => a \in S)

LEMMA ScanOutcome ==
  ASSUME TypeOK, NEW w \in Workers, ScanArticle(w)
  PROVE  \E a \in exec[w].page, hits \in Nat, fail \in {0, 1} :
           /\ \A b \in exec[w].page : a <= b
           /\ seen' = [seen EXCEPT ![exec[w].task][a] = @ + 1]
           /\ Become(w, Advance(Count(exec[w], hits, fail), exec[w].page \ {a}))
           /\ Outcome(a, hits, fail, results[exec[w].task], results'[exec[w].task])
           /\ \A u \in Tasks : u # exec[w].task => results'[u] = results[u]
<1> DEFINE e == exec[w]
           t == exec[w].task
           Counted(a, hits, fail) ==
             Become(w, Advance(Count(e, hits, fail), e.page \ {a}))
           Others == \A u \in Tasks : u # t => results'[u] = results[u]
<1>1. /\ e \in Executor /\ t \in Tasks /\ results \in [Tasks -> SUBSET Articles]
  BY DEF TypeOK, ExecTypeOK, RowsTypeOK, ScanArticle
<1>2. PICK a \in e.page :
        /\ \A b \in e.page : a <= b
        /\ seen' = [seen EXCEPT ![t][a] = @ + 1]
        /\ \/ Scan[a] = ScanError /\ Counted(a, 0, 1) /\ UNCHANGED results
           \/ Scan[a] = 0 /\ Counted(a, 0, 0) /\ UNCHANGED results
           \/ Scan[a] > 0 /\ Counted(a, Scan[a], 0) /\ Persist(t, a)
           \/ Scan[a] > 0 /\ Counted(a, Scan[a], 1)
              /\ (Persist(t, a) \/ UNCHANGED results)
  BY DEF ScanArticle
<1>3. Scan[a] > 0 => Scan[a] \in Nat
  <2>1. a \in Articles
    BY <1>1 DEF Executor
  <2> QED BY <2>1, ExecutionAssumption DEF ScanError
<1>4. Persist(t, a) => results'[t] = results[t] \cup {a} /\ Others
  BY <1>1 DEF Persist
<1>5. UNCHANGED results => results'[t] = results[t] /\ Others
  OBVIOUS
<1> HIDE DEF Counted, Others
<1>6. \E hits \in Nat, fail \in {0, 1} :
        Counted(a, hits, fail) /\ Outcome(a, hits, fail, results[t], results'[t]) /\ Others
  <2>1. CASE Scan[a] = ScanError /\ Counted(a, 0, 1) /\ UNCHANGED results
    <3>1. Outcome(a, 0, 1, results[t], results'[t]) /\ Others
      BY <1>5, <2>1 DEF Outcome
    <3> QED BY <2>1, <3>1
  <2>2. CASE Scan[a] = 0 /\ Counted(a, 0, 0) /\ UNCHANGED results
    <3>1. Outcome(a, 0, 0, results[t], results'[t]) /\ Others
      BY <1>5, <2>2 DEF Outcome, ScanError
    <3> QED BY <2>2, <3>1
  <2>3. CASE Scan[a] > 0 /\ Counted(a, Scan[a], 0) /\ Persist(t, a)
    <3>1. /\ Scan[a] # ScanError /\ a \in results'[t]
          /\ results'[t] = results[t] \cup {a}
      BY <1>3, <1>4, <2>3 DEF ScanError
    <3>2. Outcome(a, Scan[a], 0, results[t], results'[t]) /\ Others
      BY <1>4, <2>3, <3>1 DEF Outcome
    <3> QED BY <1>3, <2>3, <3>2
  <2>4. CASE /\ Scan[a] > 0 /\ Counted(a, Scan[a], 1)
             /\ (Persist(t, a) \/ UNCHANGED results)
    <3>1. Outcome(a, Scan[a], 1, results[t], results'[t]) /\ Others
      BY <1>4, <1>5, <2>4 DEF Outcome
    <3> QED BY <1>3, <2>4, <3>1
  <2> QED BY <1>2, <2>1, <2>2, <2>3, <2>4
<1> QED
  BY <1>2, <1>6 DEF Counted, Others

LEMMA CountFields ==
  ASSUME NEW e \in Executor, NEW hits \in Nat, NEW fail \in Nat
  PROVE  LET c == Count(e, hits, fail)
         IN  /\ c.total = e.total + 1 /\ c.fail = e.fail + fail
             /\ c.hitCount = e.hitCount + hits
             /\ c.hitArticles = IF hits > 0 THEN e.hitArticles + 1 ELSE e.hitArticles
             /\ c.full = e.full /\ c.page = e.page /\ c.broken = e.broken
  BY DEF Count, Executor

LEMMA AdvanceFields ==
  ASSUME NEW e \in Executor, e.pc = "scan", NEW rest
  PROVE  LET x == Advance(e, rest)
         IN  /\ x.total = e.total /\ x.fail = e.fail /\ x.hitCount = e.hitCount
             /\ x.hitArticles = e.hitArticles /\ x.full = e.full
             /\ x.pc = "list" => e.full
             /\ x.pc = "finish" => ~e.full \/ e.last = e.cursor
<1>1. CASE rest # {}
  BY <1>1 DEF Advance, Executor
<1>2. CASE rest = {} /\ (~e.full \/ e.last = e.cursor)
  BY <1>2 DEF Advance, Executor
<1>3. CASE rest = {} /\ ~(~e.full \/ e.last = e.cursor)
  BY <1>3 DEF Advance, Executor
<1> QED
  BY <1>1, <1>2, <1>3

(* The account of a worker stays right through an article it has not seen.  *)
LEMMA ArticleAccounted ==
  ASSUME NEW e \in Executor, e.pc = "scan", NEW a \in e.page,
         NEW n \in [Articles -> Nat], n[a] = 0,
         NEW R \in SUBSET Articles, NEW S, NEW K \in SUBSET Articles,
         NEW hits \in Nat, NEW fail \in {0, 1}, Outcome(a, hits, fail, R, S),
         Account(e, n, R, K), NEW m, m = [n EXCEPT ![a] = n[a] + 1]
  PROVE  Account(Advance(Count(e, hits, fail), e.page \ {a}), m, S, K)
<1> DEFINE c == Count(e, hits, fail)
           rest == e.page \ {a}
           x == Advance(c, rest)
<1>1. a \in Articles /\ rest \in SUBSET Articles /\ fail \in Nat
  BY DEF Executor
<1>2. c \in Executor /\ c.pc = "scan" /\ c.last = e.last /\ c.cursor = e.cursor
  BY <1>1, CountType
<1>3. /\ x.last = e.last
      /\ \/ /\ rest # {} /\ x.pc = "scan" /\ x.page = rest /\ x.cursor = e.cursor
         \/ rest = {} /\ x.pc = "list" /\ x.cursor = e.last
         \/ rest = {} /\ x.pc = "finish"
  <2> HIDE DEF c, rest
  <2> QED BY <1>1, <1>2, AdvanceType
<1>4. /\ c.total = e.total + 1 /\ c.fail = e.fail + fail
      /\ c.hitCount = e.hitCount + hits
      /\ c.hitArticles = IF hits > 0 THEN e.hitArticles + 1 ELSE e.hitArticles
      /\ c.full = e.full
  BY <1>1, CountFields
<1>5. /\ x.total = c.total /\ x.fail = c.fail /\ x.hitCount = c.hitCount
      /\ x.hitArticles = c.hitArticles /\ x.full = c.full
      /\ x.pc = "finish" => ~c.full \/ c.last = c.cursor
  <2> HIDE DEF c, rest
  <2> QED BY <1>2, AdvanceFields
<1>6. \A b \in Articles : m[b] = IF b = a THEN 1 ELSE n[b]
  BY <1>1
<1>7. /\ e.total \in Nat /\ e.fail \in Nat /\ e.hitCount \in Nat
      /\ e.hitArticles \in Nat
  BY DEF Executor
<1>8. Balanced(e, R) /\ Clean(e, n, R) /\ Covered(e, n, K)
  BY DEF Account
<1>9. a \notin R
  BY <1>8 DEF Clean
<1>10. /\ Cardinality(R) \in Nat
       /\ Cardinality(R \cup {a}) = Cardinality(R) + 1
  <2>1. IsFiniteSet(R)
    BY ExecutionAssumption, FS_Subset
  <2> QED BY <1>9, <2>1, FS_CardinalityType, FS_AddElement
<1> HIDE DEF c, x
<1>11. Balanced(x, S)
  <2> DEFINE k == Cardinality(R)
             j == Cardinality(S)
  <2>1. \/ j = k /\ (hits > 0 => fail = 1)
        \/ j = k + 1 /\ hits > 0
    BY <1>10 DEF Outcome
  <2>2. /\ k <= e.hitArticles /\ e.hitArticles <= k + e.fail
        /\ e.hitArticles <= e.hitCount /\ e.fail <= e.total
        /\ e.hitArticles <= e.total /\ k \in Nat
    BY <1>8, <1>10 DEF Balanced
  <2> HIDE DEF k, j
  <2>3. /\ x.total = e.total + 1 /\ x.fail = e.fail + fail
        /\ x.hitCount = e.hitCount + hits
        /\ x.hitArticles = IF hits > 0 THEN e.hitArticles + 1 ELSE e.hitArticles
    BY <1>4, <1>5
  <2>4. /\ j <= x.hitArticles /\ x.hitArticles <= j + x.fail
        /\ x.hitArticles <= x.hitCount /\ x.fail <= x.total
        /\ x.hitArticles <= x.total
    BY <1>7, <2>1, <2>2, <2>3
  <2> QED BY <2>4 DEF Balanced, j
<1>12. Clean(x, m, S)
  <2>1. \A b \in S : m[b] > 0
    BY <1>1, <1>6, <1>8 DEF Clean, Outcome
  <2>2. ASSUME x.fail = 0, NEW b \in Articles, m[b] > 0
        PROVE  Scan[b] # ScanError /\ (Scan[b] > 0 => b \in S)
    <3>1. e.fail = 0 /\ fail = 0
      BY <1>1, <1>4, <1>5, <1>7, <2>2
    <3>2. CASE b = a
      BY <3>1, <3>2 DEF Outcome
    <3>3. CASE b # a
      <4>1. n[b] > 0
        BY <1>6, <2>2, <3>3
      <4>2. Scan[b] # ScanError /\ (Scan[b] > 0 => b \in R)
        BY <1>8, <3>1, <4>1 DEF Clean
      <4> QED BY <4>2 DEF Outcome
    <3> QED BY <3>2, <3>3
  <2> QED BY <2>1, <2>2 DEF Clean
<1>13. Covered(x, m, K)
  <2>1. /\ e.cursor < e.last
        /\ \A b \in e.page : b <= e.last
        /\ \A b \in K : b <= e.last \/ ~e.full => n[b] > 0 \/ b \in e.page
    BY <1>8 DEF Covered
  <2>2. \A b \in K : b <= e.last \/ ~e.full => m[b] > 0 \/ b \in rest
    BY <1>6, <2>1
  <2>3. CASE rest # {} /\ x.pc = "scan" /\ x.page = rest /\ x.cursor = e.cursor
    BY <1>2, <1>3, <1>4, <1>5, <2>1, <2>2, <2>3 DEF Covered
  <2>4. CASE rest = {} /\ x.pc = "list" /\ x.cursor = e.last
    BY <2>2, <2>4 DEF Covered
  <2>5. CASE rest = {} /\ x.pc = "finish"
    <3>1. e.last # e.cursor
      <4>1. e.last \in Nat /\ e.cursor \in Nat
        BY ExecutionAssumption DEF Executor
      <4> QED BY <2>1, <4>1
    <3>2. ~e.full
      BY <1>2, <1>4, <1>5, <2>5, <3>1
    <3> QED BY <2>2, <2>5, <3>2 DEF Covered
  <2> QED BY <1>3, <2>3, <2>4, <2>5
<1>14. x.pc # "reload"
  BY <1>3
<1> QED
  BY <1>11, <1>12, <1>13, <1>14 DEF Account, x, c

LEMMA FewerStay ==
  ASSUME NEW n, NEW R, NEW K, NEW J \in SUBSET K
  PROVE  /\ \A e : Account(e, n, R, K) => Account(e, n, R, J)
         /\ \A r : Verdict(r, n, R, K) => Verdict(r, n, R, J)
  BY DEF Account, Covered, Verdict

(* Locals that differ in place only, at the start of a page or at the end.  *)
LEMMA AccountMoves ==
  ASSUME NEW e, NEW x, NEW n, NEW R, NEW K, Account(e, n, R, K),
         x.total = e.total, x.fail = e.fail, x.hitCount = e.hitCount,
         x.hitArticles = e.hitArticles, x.pc # "reload", Covered(x, n, K)
  PROVE  Account(x, n, R, K)
  BY DEF Account, Balanced, Clean

LEMMA BlankAccount ==
  ASSUME NEW e, NEW n, NEW K, Blank(e), e.pc = "reload", \A a \in Articles : n[a] = 0
  PROVE  Account(e, n, {}, K)
<1>1. Cardinality({}) = 0
  BY FS_EmptySet
<1>2. Balanced(e, {})
  BY <1>1 DEF Balanced, Blank
<1>3. Clean(e, n, {}) /\ Covered(e, n, K)
  BY DEF Clean, Covered
<1> QED
  BY <1>2, <1>3 DEF Account

(* A worker that is done, and not broken, has a true verdict. *)
LEMMA VerdictTrue ==
  ASSUME NEW e \in Executor, e.pc = "finish", NEW n, NEW R, NEW K \in SUBSET Articles,
         Account(e, n, R, K)
  PROVE  Verdict([status |-> IF e.broken THEN "failed"
                             ELSE ResolveTaskStatus(e.total, e.fail),
                  total |-> e.total, hitArticles |-> e.hitArticles,
                  hitCount |-> e.hitCount, fail |-> e.fail], n, R, K)
<1> DEFINE s == IF e.broken THEN "failed" ELSE ResolveTaskStatus(e.total, e.fail)
           r == [status |-> s, total |-> e.total, hitArticles |-> e.hitArticles,
                 hitCount |-> e.hitCount, fail |-> e.fail]
<1>1. /\ r.status = s /\ r.total = e.total /\ r.hitArticles = e.hitArticles
      /\ r.hitCount = e.hitCount /\ r.fail = e.fail
  OBVIOUS
<1>2. Balanced(r, R)
  BY <1>1 DEF Account, Balanced
<1>3. ASSUME s = "success" PROVE ~e.broken /\ e.fail = 0
  <2>1. ~e.broken
    BY <1>3
  <2>2. ResolveTaskStatus(e.total, e.fail) = "success"
    BY <1>3, <2>1
  <2>3. e.total = 0 \/ e.fail = 0
    BY <2>2 DEF ResolveTaskStatus
  <2>4. e.total \in Nat /\ e.fail \in Nat /\ e.fail <= e.total
    BY DEF Executor, Account, Balanced
  <2> QED BY <2>1, <2>3, <2>4
<1>4. ASSUME s = "success", NEW a \in K
      PROVE  n[a] > 0 /\ Scan[a] # ScanError /\ (Scan[a] > 0 => a \in R)
  <2>1. n[a] > 0
    BY <1>3, <1>4 DEF Account, Covered
  <2> QED
    BY <1>3, <1>4, <2>1 DEF Account, Clean
<1> HIDE DEF s
<1>5. Verdict(r, n, R, K)
  <2> HIDE DEF r
  <2> QED BY <1>1, <1>2, <1>4 DEF Verdict
<1> QED
  BY <1>5 DEF s

(* The account is kept by every step of its own worker, and no other step   *)
(* touches what it is about: rows and counters of a running task have one   *)
(* writer, and a task that is deleted under it has no account to keep.      *)
LEMMA WorkInductive ==
  TypeOK /\ RunInv /\ ScanInv /\ WorkInv /\ [Next]_vars => WorkInv'
<1> SUFFICES ASSUME TypeOK, RunInv, ScanInv, WorkInv, [Next]_vars PROVE WorkInv'
  OBVIOUS
<1>t. RowsTypeOK /\ ExecTypeOK /\ HistoryTypeOK
  BY DEF TypeOK
<1>r. /\ task \in [Tasks -> TaskRow] /\ results \in [Tasks -> SUBSET Articles]
      /\ seen \in [Tasks -> [Articles -> Nat]]
      /\ steady \in [Tasks -> SUBSET Articles] /\ starts \in [Tasks -> Nat]
  BY <1>t DEF RowsTypeOK, HistoryTypeOK
<1>i. /\ \A t \in Tasks : steady[t] \subseteq eligible
      /\ \A t \in Tasks : starts[t] = 0 => results[t] = {}
      /\ \A w \in Workers : exec[w].pc = "start" => Blank(exec[w])
      /\ \A w \in Workers : \A t \in Tasks : Executing(w, t) /\ Status(t) # "absent" =>
           Account(exec[w], seen[t], results[t], steady[t])
      /\ \A t \in Tasks : Verdict(task[t], seen[t], results[t], steady[t])
  BY DEF WorkInv
<1>l. ASSUME NEW w \in Workers
      PROVE  /\ exec[w] \in Executor
             /\ exec[w].pc # "idle" => exec[w].task \in Tasks
             /\ exec[w].cursor \in Nat
  <2>1. exec[w] \in Executor /\ (exec[w].pc # "idle" => exec[w].task \in Tasks)
    BY <1>t DEF ExecTypeOK
  <2>2. exec[w].cursor \in Articles \cup {0}
    BY <2>1 DEF Executor
  <2>3. \A a \in Articles \cup {0} : a \in Nat
    BY ExecutionAssumption
  <2>4. exec[w].cursor \in Nat
    BY <2>2, <2>3
  <2> QED BY <2>1, <2>4
(* A step of w that leaves the tables alone. *)
<1>q. ASSUME UNCHANGED <<task, results, eligible, starts, seen, steady>>,
             NEW w \in Workers, \A v \in Workers : v # w => exec'[v] = exec[v],
             exec'[w].pc = "start" => Blank(exec'[w]),
             \A t \in Tasks : Executing(w, t)' /\ Status(t) # "absent" =>
               Account(exec'[w], seen[t], results[t], steady[t])
      PROVE  WorkInv'
  <2>1. \A v \in Workers : exec'[v].pc = "start" => Blank(exec'[v])
    BY <1>i, <1>q
  <2>2. ASSUME NEW v \in Workers, NEW t \in Tasks, Executing(v, t)',
               Status(t)' # "absent"
        PROVE  Account(exec'[v], seen'[t], results'[t], steady'[t])
    <3>1. Status(t) # "absent"
      BY <1>q, <2>2 DEF Status
    <3>2. CASE v = w
      BY <1>q, <2>2, <3>1, <3>2
    <3>3. CASE v # w
      <4>1. exec'[v] = exec[v] /\ Executing(v, t)
        BY <1>q, <2>2, <3>3 DEF Executing
      <4> QED BY <1>i, <1>q, <3>1, <4>1
    <3> QED BY <3>2, <3>3
  <2> QED
    BY <1>i, <1>q, <2>1, <2>2 DEF WorkInv
(* A step after which w is idle, and the tables are as before. *)
<1>w. ASSUME UNCHANGED <<task, results, eligible, starts, seen, steady>>,
             NEW w \in Workers, \A v \in Workers : v # w => exec'[v] = exec[v],
             exec'[w].pc = "idle"
      PROVE  WorkInv'
  BY <1>q, <1>w DEF Executing
<1>u. ASSUME UNCHANGED <<task, results, eligible, exec, starts, seen, steady>>
      PROVE  WorkInv'
  BY <1>i, <1>u DEF WorkInv, Executing, Status
<1>1. ASSUME NEW t \in Tasks, Create(t) PROVE WorkInv'
  <2> DEFINE r == [NoTask EXCEPT !.status = "pending"]
  <2>1. /\ t \notin created /\ task' = [task EXCEPT ![t] = r]
        /\ UNCHANGED <<results, eligible, exec, starts, seen, steady>>
    BY <1>1 DEF Create
  <2>2. r.status = "pending"
    BY DEF NoTask
  <2>3. \A w \in Workers : ~Executing(w, t)
    BY <2>1 DEF RunInv
  <2> HIDE DEF r
  <2>4. task'[t] = r /\ \A u \in Tasks : u # t => task'[u] = task[u]
    BY <1>r, <2>1
  <2>5. \A u \in Tasks : Verdict(task'[u], seen[u], results[u], steady[u])
    BY <1>i, <2>2, <2>4 DEF Verdict, Final
  <2>6. \A w \in Workers : \A u \in Tasks :
          Executing(w, u)' /\ Status(u)' # "absent" =>
            Account(exec[w], seen[u], results[u], steady[u])
    BY <1>i, <2>1, <2>3, <2>4 DEF Executing, Status
  <2> QED
    BY <1>i, <2>1, <2>5, <2>6 DEF WorkInv
<1>2. ASSUME NEW t \in Tasks, Enqueue(t) \/ LeaseLost(t) PROVE WorkInv'
  BY <1>2, <1>u DEF Enqueue, LeaseLost, history
<1>3. ASSUME NEW w \in Workers, NEW t \in Tasks, Take(w, t) PROVE WorkInv'
  <2> DEFINE x == [Idle EXCEPT !.pc = "start", !.task = t]
  <2>1. x.pc = "start" /\ Blank(x)
    BY DEF Idle, Blank
  <2>2. exec'[w] = x /\ \A v \in Workers : v # w => exec'[v] = exec[v]
    BY <1>3, Moves DEF Take
  <2> HIDE DEF x
  <2> QED
    BY <1>3, <1>q, <2>1, <2>2 DEF Take, Executing, history
<1>4. ASSUME NEW w \in Workers, StartTask(w) PROVE WorkInv'
  <2> DEFINE t == exec[w].task
             x == [exec[w] EXCEPT !.pc = "reload"]
  <2>1. /\ exec[w].pc = "start" /\ t \in Tasks /\ Blank(exec[w])
        /\ UNCHANGED <<results, eligible, seen>>
    BY <1>4, <1>i, <1>l DEF StartTask
  <2>2. x.pc = "reload" /\ x.task = t /\ Blank(x)
    BY <1>l, <2>1 DEF Executor, Blank
  <2>3. /\ exec'[w].pc = "idle" \/ exec'[w] = x
        /\ exec'[w] = x => MarkRunning(t)
        /\ \A v \in Workers : v # w => exec'[v] = exec[v]
    BY <1>4, <2>2, Moves DEF StartTask
  <2> HIDE DEF x
  <2>4. CASE ~MarkRunning(t)
    <3>1. UNCHANGED <<task, starts, steady>> /\ exec'[w].pc = "idle"
      BY <1>4, <2>3, <2>4 DEF StartTask
    <3> QED BY <1>w, <2>1, <2>3, <3>1
  <2>5. CASE MarkRunning(t)
    <3>1. /\ Status(t) = "pending" /\ task' = [task EXCEPT ![t].status = "running"]
          /\ starts' = [starts EXCEPT ![t] = @ + 1]
          /\ steady' = [steady EXCEPT ![t] = eligible]
      BY <2>5 DEF MarkRunning
    <3>2. starts[t] = 0 /\ \A v \in Workers : ~Executing(v, t)
      BY <2>1, <3>1 DEF RunInv
    <3>3. /\ task'[t].status = "running" /\ steady'[t] = eligible /\ starts'[t] # 0
          /\ \A u \in Tasks : u # t => /\ task'[u] = task[u] /\ starts'[u] = starts[u]
                                       /\ steady'[u] = steady[u]
      BY <1>r, <2>1, <3>1, <3>2 DEF TaskRow
    <3>4. results[t] = {} /\ \A a \in Articles : seen[t][a] = 0
      BY <1>i, <2>1, <3>2 DEF ScanInv
    <3>5. Account(x, seen[t], results[t], eligible)
      BY <2>2, <3>4, BlankAccount
    <3>6. ASSUME NEW v \in Workers, NEW u \in Tasks, Executing(v, u)',
                 Status(u)' # "absent"
          PROVE  Account(exec'[v], seen[u], results[u], steady'[u])
      <4>1. CASE v = w
        <5>1. exec'[w] = x /\ u = t
          BY <2>2, <2>3, <3>6, <4>1 DEF Executing
        <5> QED BY <3>3, <3>5, <4>1, <5>1
      <4>2. CASE v # w
        <5>1. Executing(v, u) /\ exec'[v] = exec[v]
          BY <2>3, <3>6, <4>2 DEF Executing
        <5>2. u # t
          BY <3>2, <5>1
        <5>3. Status(u) # "absent"
          BY <3>3, <3>6, <5>2 DEF Status
        <5> QED BY <1>i, <3>3, <5>1, <5>2, <5>3
      <4> QED BY <4>1, <4>2
    <3>7. \A u \in Tasks : Verdict(task'[u], seen[u], results[u], steady'[u])
      <4>1. Verdict(task'[t], seen[t], results[t], steady'[t])
        BY <3>3 DEF Verdict, Final
      <4> QED BY <1>i, <3>3, <4>1
    <3>8. /\ \A u \in Tasks : steady'[u] \subseteq eligible
          /\ \A u \in Tasks : starts'[u] = 0 => results[u] = {}
      BY <1>i, <3>3
    <3>9. \A v \in Workers : exec'[v].pc = "start" => Blank(exec'[v])
      BY <1>i, <2>2, <2>3
    <3> QED
      BY <2>1, <3>6, <3>7, <3>8, <3>9 DEF WorkInv
  <2> QED BY <2>4, <2>5
<1>5. ASSUME NEW w \in Workers, ReloadTask(w) PROVE WorkInv'
  <2> DEFINE t == exec[w].task
             x == [exec[w] EXCEPT !.pc = "list"]
             y == [exec[w] EXCEPT !.pc = "finish", !.broken = TRUE]
  <2>1. /\ exec[w].pc = "reload" /\ t \in Tasks /\ Executing(w, t)
        /\ UNCHANGED <<task, results, eligible, starts, seen, steady>>
    BY <1>5, <1>l DEF ReloadTask, Executing, history
  <2>2. /\ exec'[w].pc = "idle" \/ exec'[w] = x \/ exec'[w] = y
        /\ \A v \in Workers : v # w => exec'[v] = exec[v]
    BY <1>5, Moves DEF ReloadTask, Stop
  <2>3. /\ x.pc = "list" /\ x.task = t /\ x.cursor = exec[w].cursor
        /\ x.total = exec[w].total /\ x.fail = exec[w].fail
        /\ x.hitCount = exec[w].hitCount /\ x.hitArticles = exec[w].hitArticles
        /\ y.pc = "finish" /\ y.task = t /\ y.broken
        /\ y.total = exec[w].total /\ y.fail = exec[w].fail
        /\ y.hitCount = exec[w].hitCount /\ y.hitArticles = exec[w].hitArticles
    BY <1>l DEF Executor
  <2> HIDE DEF x, y
  <2>4. ASSUME Status(t) # "absent"
        PROVE  /\ Account(x, seen[t], results[t], steady[t])
               /\ Account(y, seen[t], results[t], steady[t])
    <3>1. Account(exec[w], seen[t], results[t], steady[t])
      BY <1>i, <2>1, <2>4
    <3>2. x.cursor = 0
      BY <2>1, <2>3, <3>1 DEF Account, Blank
    <3>3. Covered(x, seen[t], steady[t])
      <4>1. \A a \in steady[t] : a \in Nat /\ a > 0
        <5>1. steady[t] \subseteq Articles
          BY <1>r, <2>1
        <5>2. \A a \in Articles : a \in Nat /\ a > 0
          BY ExecutionAssumption
        <5> QED BY <5>1, <5>2
      <4> QED BY <2>3, <3>2, <4>1 DEF Covered
    <3>4. Covered(y, seen[t], steady[t])
      BY <2>3 DEF Covered
    <3> QED BY <2>3, <3>1, <3>3, <3>4, AccountMoves
  <2>5. \A u \in Tasks : Executing(w, u)' /\ Status(u) # "absent" =>
          Account(exec'[w], seen[u], results[u], steady[u])
    BY <2>2, <2>3, <2>4 DEF Executing
  <2>6. exec'[w].pc # "start"
    BY <2>2, <2>3
  <2> QED
    BY <1>q, <2>1, <2>2, <2>5, <2>6
<1>6. ASSUME NEW w \in Workers, ListCandidateArticles(w) PROVE WorkInv'
  <2> DEFINE t == exec[w].task
             e == exec[w]
             page == Page(exec[w].cursor)
             full == Cardinality(page) >= BatchSize
             x(last) == [e EXCEPT !.pc = "scan", !.page = page, !.full = full,
                                  !.last = last]
             y(b) == [e EXCEPT !.pc = "finish", !.broken = b]
  <2>1. /\ e.pc = "list" /\ t \in Tasks /\ Executing(w, t)
        /\ UNCHANGED <<task, results, eligible, starts, seen, steady>>
    BY <1>6, <1>l DEF ListCandidateArticles, Executing, history
  <2>2. ASSUME NEW z, exec'[w] = z, z.pc \in {"scan", "finish"}, z.task = t,
               z.total = e.total, z.fail = e.fail,
               z.hitCount = e.hitCount, z.hitArticles = e.hitArticles,
               \A v \in Workers : v # w => exec'[v] = exec[v],
               Account(e, seen[t], results[t], steady[t]) => Covered(z, seen[t], steady[t])
        PROVE  WorkInv'
    <3>1. Status(t) # "absent" => Account(z, seen[t], results[t], steady[t])
      BY <1>i, <2>1, <2>2, AccountMoves
    <3> HIDE DEF t, e
    <3>2. \A u \in Tasks : Executing(w, u)' /\ Status(u) # "absent" =>
            Account(exec'[w], seen[u], results[u], steady[u])
      BY <2>2, <3>1 DEF Executing
    <3>3. exec'[w].pc # "start"
      BY <2>2
    <3> QED BY <1>q, <2>1, <2>2, <3>2, <3>3
  <2>3. /\ page \subseteq Articles /\ Articles \subseteq Nat
        /\ \A b \in page : b > e.cursor
    BY <1>t, ExecutionAssumption DEF Page, RowsTypeOK
  <2>4. \A a \in steady[t] : a > e.cursor /\ a \notin page =>
          full /\ \A b \in page : b < a
    <3>1. \A a \in steady[t] : a \in eligible
      BY <1>i, <2>1
    <3> QED BY <1>l, <1>t, <3>1, PageComplete
  <2>5. \A a \in steady[t] : a \in Nat
    BY <1>r, <2>1, <2>3
  <2>6. ASSUME NEW b \in BOOLEAN
        PROVE  /\ y(b).pc = "finish" /\ y(b).task = t /\ y(b).broken = b
               /\ y(b).total = e.total /\ y(b).fail = e.fail
               /\ y(b).hitCount = e.hitCount /\ y(b).hitArticles = e.hitArticles
    BY <1>l DEF Executor
  <2>7. CASE Stop(w, TRUE)
    <3>1. exec'[w] = y(TRUE) /\ \A v \in Workers : v # w => exec'[v] = exec[v]
      BY <2>7, Moves DEF Stop
    <3>2. Covered(y(TRUE), seen[t], steady[t])
      <4> HIDE DEF y
      <4> QED BY <2>6 DEF Covered
    <3> HIDE DEF y, e, t
    <3> QED BY <2>2, <2>6, <3>1, <3>2
  <2>8. CASE page = {} /\ Stop(w, FALSE)
    <3>1. exec'[w] = y(FALSE) /\ \A v \in Workers : v # w => exec'[v] = exec[v]
      BY <2>8, Moves DEF Stop
    <3>2. ~full
      <4>1. BatchSize \in Nat /\ BatchSize # 0 /\ Cardinality({}) = 0
        BY ExecutionAssumption, FS_EmptySet
      <4> QED BY <2>8, <4>1
    <3>3. \A a \in steady[t] : a <= e.cursor
      <4> HIDE DEF page, full
      <4> QED BY <1>l, <2>4, <2>5, <2>8, <3>2
    <3>4. ASSUME Account(e, seen[t], results[t], steady[t])
          PROVE  Covered(y(FALSE), seen[t], steady[t])
      <4>1. \A a \in steady[t] : seen[t][a] > 0
        BY <2>1, <3>3, <3>4 DEF Account, Covered
      <4> HIDE DEF y
      <4> QED BY <2>6, <4>1 DEF Covered
    <3> HIDE DEF y, e, t
    <3> QED BY <2>2, <2>6, <3>1, <3>4
  <2>9. CASE \E last \in page : (\A a \in page : a <= last) /\ Become(w, x(last))
    <3>1. PICK last \in page : (\A a \in page : a <= last) /\ Become(w, x(last))
      BY <2>9
    <3> DEFINE z == x(last)
    <3>2. exec'[w] = z /\ \A v \in Workers : v # w => exec'[v] = exec[v]
      BY <3>1, Moves
    <3>3. /\ z.pc = "scan" /\ z.task = t /\ z.page = page /\ z.full = full
          /\ z.last = last /\ z.cursor = e.cursor
          /\ z.total = e.total /\ z.fail = e.fail
          /\ z.hitCount = e.hitCount /\ z.hitArticles = e.hitArticles
      <4> HIDE DEF page, full
      <4> QED BY <1>l DEF Executor
    <3>4. ASSUME Account(e, seen[t], results[t], steady[t])
          PROVE  Covered(z, seen[t], steady[t])
      <4>1. \A a \in steady[t] : a <= e.cursor => seen[t][a] > 0
        BY <2>1, <3>4 DEF Account, Covered
      <4> HIDE DEF z, page, full, e, t
      <4>2. e.cursor < last /\ last \in Nat /\ e.cursor \in Nat
        BY <1>l, <2>3, <3>1 DEF e
      <4>3. ASSUME NEW a \in steady[t], a <= last \/ ~full, ~(seen[t][a] > 0)
            PROVE  a \in page
        <5>1. a \in Nat /\ ~(a <= e.cursor)
          BY <2>5, <4>1, <4>3
        <5>2. a > e.cursor
          BY <4>2, <5>1
        <5>3. a \notin page => full /\ last < a
          BY <2>4, <3>1, <5>2
        <5> QED BY <4>2, <4>3, <5>1, <5>3
      <4> QED BY <3>1, <3>3, <4>2, <4>3 DEF Covered
    <3> HIDE DEF z, e, t
    <3> QED BY <2>2, <3>2, <3>3, <3>4
  <2> QED
    BY <1>6, <2>7, <2>8, <2>9 DEF ListCandidateArticles
<1>7. ASSUME NEW w \in Workers, ScanArticle(w) PROVE WorkInv'
  <2>0. PICK t \in Tasks : exec[w].task = t
    BY <1>7, <1>l DEF ScanArticle
  <2> DEFINE e == exec[w]
  <2>1. /\ e.pc = "scan" /\ Executing(w, t) /\ e \in Executor
        /\ UNCHANGED <<task, eligible, starts, steady>>
    BY <1>7, <1>l, <2>0 DEF ScanArticle, Executing
  <2>s. PICK a \in exec[w].page, hits \in Nat, fail \in {0, 1} :
          /\ \A b \in exec[w].page : a <= b
          /\ seen' = [seen EXCEPT ![exec[w].task][a] = @ + 1]
          /\ Become(w, Advance(Count(exec[w], hits, fail), exec[w].page \ {a}))
          /\ Outcome(a, hits, fail, results[exec[w].task], results'[exec[w].task])
          /\ \A u \in Tasks : u # exec[w].task => results'[u] = results[u]
    BY <1>7, ScanOutcome
  <2> DEFINE x == Advance(Count(e, hits, fail), e.page \ {a})
  <2>2. a \in Articles
    BY <2>1 DEF Executor
  <2>3. seen[t][a] = 0
    <3>1. \A c \in Articles : seen[t][c] > 0 => \A b \in e.page : c < b
      BY <2>0, <2>1 DEF ScanInv, Behind
    <3>2. seen[t][a] \in Nat /\ a \in Nat
      BY <1>r, <2>2, ExecutionAssumption
    <3> QED BY <2>2, <3>1, <3>2
  <2>4. /\ seen'[t] = [seen[t] EXCEPT ![a] = seen[t][a] + 1]
        /\ \A u \in Tasks : u # t => seen'[u] = seen[u] /\ results'[u] = results[u]
    BY <1>r, <2>0, <2>s
  <2>5. exec'[w] = x /\ \A v \in Workers : v # w => exec'[v] = exec[v]
    BY <2>s, Moves
  <2>6. x.task = t /\ x.pc # "start"
    <3> DEFINE c == Count(e, hits, fail)
    <3>1. c \in Executor /\ c.pc = "scan" /\ c.task = t
      <4>1. fail \in Nat
        OBVIOUS
      <4> QED BY <2>0, <2>1, <4>1, CountType
    <3>2. e.page \ {a} \in SUBSET Articles
      BY <2>1 DEF Executor
    <3> HIDE DEF c
    <3>3. Advance(c, e.page \ {a}).task = t /\ Advance(c, e.page \ {a}).pc # "start"
      BY <3>1, <3>2, AdvanceType
    <3> QED BY <3>3 DEF c
  <2>7. Status(t) # "absent" => Account(x, seen'[t], results'[t], steady[t])
    <3>1. seen[t] \in [Articles -> Nat] /\ results[t] \in SUBSET Articles
          /\ steady[t] \in SUBSET Articles
      BY <1>r
    <3>2. Outcome(a, hits, fail, results[t], results'[t])
      BY <2>0, <2>s
    <3>3. Status(t) # "absent" => Account(e, seen[t], results[t], steady[t])
      BY <1>i, <2>1
    <3>4. e \in Executor /\ e.pc = "scan" /\ a \in e.page
      BY <2>1
    <3> HIDE DEF e
    <3>5. Account(e, seen[t], results[t], steady[t]) =>
            Account(Advance(Count(e, hits, fail), e.page \ {a}),
                    seen'[t], results'[t], steady[t])
      <4> DEFINE n == seen[t]
                 m == seen'[t]
                 R == results[t]
                 S == results'[t]
                 K == steady[t]
      <4>1. /\ n \in [Articles -> Nat] /\ n[a] = 0 /\ m = [n EXCEPT ![a] = n[a] + 1]
            /\ R \in SUBSET Articles /\ K \in SUBSET Articles
            /\ Outcome(a, hits, fail, R, S)
        BY <2>3, <2>4, <3>1, <3>2
      <4> HIDE DEF n, m, R, S, K
      <4>2. Account(e, n, R, K) =>
              Account(Advance(Count(e, hits, fail), e.page \ {a}), m, S, K)
        BY <3>4, <4>1, ArticleAccounted
      <4> QED BY <4>2 DEF n, m, R, S, K
    <3> QED BY <3>3, <3>5
  <2> HIDE DEF x
  <2>8. ASSUME NEW v \in Workers, NEW u \in Tasks, Executing(v, u)',
               Status(u)' # "absent"
        PROVE  Account(exec'[v], seen'[u], results'[u], steady'[u])
    <3>0. Status(u) # "absent"
      BY <2>1, <2>8 DEF Status
    <3>1. CASE v = w
      <4>1. u = t
        BY <2>5, <2>6, <2>8, <3>1 DEF Executing
      <4> QED BY <2>1, <2>5, <2>7, <3>0, <3>1, <4>1
    <3>2. CASE v # w
      <4>1. Executing(v, u) /\ exec'[v] = exec[v]
        BY <2>5, <2>8, <3>2 DEF Executing
      <4>2. u # t
        BY <2>1, <3>2, <4>1 DEF RunInv, SingleExecution
      <4> QED BY <1>i, <2>1, <2>4, <3>0, <4>1, <4>2
    <3> QED BY <3>1, <3>2
  <2>9. Status(t) \in {"running", "absent"} /\ starts[t] # 0
    BY <2>1 DEF RunInv
  <2>10. \A u \in Tasks : Verdict(task'[u], seen'[u], results'[u], steady'[u])
    <3>1. Verdict(task[t], seen'[t], results'[t], steady[t])
      BY <2>9 DEF Verdict, Final, Status
    <3> QED BY <1>i, <2>1, <2>4, <3>1
  <2>11. \A u \in Tasks : starts'[u] = 0 => results'[u] = {}
    BY <1>i, <2>1, <2>4, <2>9
  <2>12. \A v \in Workers : exec'[v].pc = "start" => Blank(exec'[v])
    BY <1>i, <2>5, <2>6
  <2> QED
    BY <1>i, <2>1, <2>8, <2>10, <2>11, <2>12 DEF WorkInv
<1>8. ASSUME NEW w \in Workers, FinishTask(w) PROVE WorkInv'
  <2> DEFINE e == exec[w]
             t == exec[w].task
             done == [status |-> IF e.broken THEN "failed"
                                 ELSE ResolveTaskStatus(e.total, e.fail),
                      total |-> e.total, hitArticles |-> e.hitArticles,
                      hitCount |-> e.hitCount, fail |-> e.fail]
  <2>1. /\ e.pc = "finish" /\ t \in Tasks /\ Executing(w, t) /\ e \in Executor
        /\ UNCHANGED <<results, eligible, starts, seen, steady>>
    BY <1>8, <1>l DEF FinishTask, Executing, history
  <2>2. /\ exec'[w].pc = "idle"
        /\ \A v \in Workers : v # w => exec'[v] = exec[v]
    BY <1>8, Moves DEF FinishTask, FinishError
  <2>3. task' = task \/ (Status(t) # "absent" /\ task' = [task EXCEPT ![t] = done])
    BY <1>8 DEF FinishTask
  <2>4. CASE task' = task
    BY <1>w, <2>1, <2>2, <2>4
  <2>5. CASE Status(t) # "absent" /\ task' = [task EXCEPT ![t] = done]
    <3>1. steady[t] \in SUBSET Articles
      BY <1>r, <2>1
    <3>2. Account(e, seen[t], results[t], steady[t])
      BY <1>i, <2>1, <2>5
    <3>3. Verdict(done, seen[t], results[t], steady[t])
      BY <2>1, <3>1, <3>2, VerdictTrue
    <3> HIDE DEF done
    <3>4. task'[t] = done /\ \A u \in Tasks : u # t => task'[u] = task[u]
      BY <1>r, <2>1, <2>5
    <3>5. \A u \in Tasks : Verdict(task'[u], seen[u], results[u], steady[u])
      BY <1>i, <3>3, <3>4
    <3>6. ASSUME NEW v \in Workers, NEW u \in Tasks, Executing(v, u)',
                 Status(u)' # "absent"
          PROVE  Account(exec'[v], seen[u], results[u], steady[u])
      <4>1. v # w
        BY <2>2, <3>6 DEF Executing
      <4>2. Executing(v, u) /\ exec'[v] = exec[v]
        BY <2>2, <3>6, <4>1 DEF Executing
      <4>3. u # t
        BY <2>1, <4>1, <4>2 DEF RunInv, SingleExecution
      <4>4. Status(u) # "absent"
        BY <3>4, <3>6, <4>3 DEF Status
      <4> QED BY <1>i, <4>2, <4>4
    <3>7. \A v \in Workers : exec'[v].pc = "start" => Blank(exec'[v])
      BY <1>i, <2>2
    <3> QED
      BY <1>i, <2>1, <3>5, <3>6, <3>7 DEF WorkInv
  <2> QED BY <2>3, <2>4, <2>5
<1>9. ASSUME NEW w \in Workers, Crash(w) PROVE WorkInv'
  <2>1. exec'[w].pc = "idle" /\ \A v \in Workers : v # w => exec'[v] = exec[v]
    BY <1>9, Moves DEF Crash, Idle
  <2> QED
    BY <1>9, <1>w, <2>1 DEF Crash, history
<1>10. ASSUME NEW d \in Deleters, NEW t \in Tasks, DeleteCheck(d, t) PROVE WorkInv'
  BY <1>10, <1>u DEF DeleteCheck, history
<1>11. ASSUME NEW d \in Deleters, deleteTaskGraph(d) PROVE WorkInv'
  <2> DEFINE t == deleting[d]
  <2>1. t \in Tasks /\ UNCHANGED <<exec, eligible, starts, seen, steady>>
    BY <1>11, <1>t DEF deleteTaskGraph, RowsTypeOK, history
  <2>2. CASE Status(t) = "absent"
    BY <1>11, <1>u, <2>1, <2>2 DEF deleteTaskGraph
  <2>3. CASE Status(t) # "absent"
    <3>1. /\ task'[t] = NoTask /\ results'[t] = {}
          /\ \A u \in Tasks : u # t => task'[u] = task[u] /\ results'[u] = results[u]
      BY <1>11, <1>r, <2>1, <2>3 DEF deleteTaskGraph
    <3>2. NoTask.status = "absent"
      BY DEF NoTask
    <3>3. \A u \in Tasks : Verdict(task'[u], seen[u], results'[u], steady[u])
      <4>1. Verdict(task'[t], seen[t], results'[t], steady[t])
        BY <3>1, <3>2 DEF Verdict, Final
      <4> QED BY <1>i, <3>1, <4>1
    <3>4. ASSUME NEW v \in Workers, NEW u \in Tasks, Executing(v, u)',
                 Status(u)' # "absent"
          PROVE  Account(exec[v], seen[u], results'[u], steady[u])
      <4>1. u # t
        BY <3>1, <3>2, <3>4 DEF Status
      <4>2. Executing(v, u) /\ Status(u) # "absent"
        BY <2>1, <3>1, <3>4, <4>1 DEF Executing, Status
      <4> QED BY <1>i, <3>1, <4>1, <4>2
    <3>5. \A u \in Tasks : starts[u] = 0 => results'[u] = {}
      BY <1>i, <3>1
    <3> QED
      BY <1>i, <2>1, <3>3, <3>4, <3>5 DEF WorkInv
  <2> QED BY <2>2, <2>3
<1>12. ASSUME NEW a \in Articles, Edit(a) PROVE WorkInv'
  <2>1. UNCHANGED <<task, results, exec, starts, seen>>
    BY <1>12 DEF Edit
  <2>2. \A t \in Tasks : steady'[t] \in SUBSET steady[t] /\ steady'[t] \subseteq eligible'
    <3>1. CASE a \in eligible
      <4>1. eligible' = eligible \ {a} /\ steady' = [t \in Tasks |-> steady[t] \ {a}]
        BY <1>12, <3>1 DEF Edit
      <4> QED BY <1>i, <4>1
    <3>2. CASE a \notin eligible
      <4>1. eligible' = eligible \cup {a} /\ steady' = steady
        BY <1>12, <3>2 DEF Edit
      <4> QED BY <1>i, <4>1
    <3> QED BY <3>1, <3>2
  <2>3. \A t \in Tasks : Verdict(task[t], seen[t], results[t], steady'[t])
    BY <1>i, <2>2, FewerStay
  <2>4. \A w \in Workers : \A t \in Tasks : Executing(w, t) /\ Status(t) # "absent" =>
          Account(exec[w], seen[t], results[t], steady'[t])
    BY <1>i, <2>2, FewerStay
  <2> QED
    BY <1>i, <2>1, <2>2, <2>3, <2>4 DEF WorkInv, Executing, Status
<1>13. CASE UNCHANGED vars
  BY <1>13, <1>u DEF vars, history
<1> QED
  BY <1>1, <1>2, <1>3, <1>4, <1>5, <1>6, <1>7, <1>8, <1>9, <1>10, <1>11, <1>12,
     <1>13
  DEF Next, WorkerStep

LEMMA WorkHolds == Spec => []WorkInv
<1>1. Init => ScanInv
  BY DEF Init, ScanInv, ScannedOnce, Behind, Idle
<1>2. Init => WorkInv
  BY DEF Init, WorkInv, Idle, Executing, Verdict, NoTask, Final
<1> QED
  BY <1>1, <1>2, RunInit, TypeCorrect, RunInductive, ScanInductive, WorkInductive,
     PTL DEF Spec

(* For any articles, page size, edits, failures and workers: a task whose   *)
(* verdict is success has scanned every article that was there from its     *)
(* start to its end, without error, and has the rows of those with hits     *)
(* (the loop of executor.go:66-108 and the page of ListCandidateArticles).  *)
THEOREM SuccessIsCompleteHolds == Spec => []SuccessIsComplete
<1>1. ASSUME WorkInv PROVE SuccessIsComplete
  <2>1. \A t \in Tasks : Verdict(task[t], seen[t], results[t], steady[t])
    BY <1>1 DEF WorkInv
  <2>2. ASSUME NEW t \in Tasks, Status(t) = "success", NEW a \in steady[t]
        PROVE  /\ seen[t][a] > 0 /\ Scan[a] # ScanError
               /\ Scan[a] > 0 => a \in results[t]
    <3>1. Verdict(task[t], seen[t], results[t], steady[t]) /\ task[t].status = "success"
      BY <2>1, <2>2 DEF Status
    <3> QED
      BY <2>2, <3>1 DEF Verdict
  <2> QED
    BY <2>2 DEF SuccessIsComplete
<1> QED
  BY <1>1, WorkHolds, PTL

(* For any articles, failures and redeliveries, the counts that finishTask  *)
(* writes agree with the result rows of the task (executor.go:83-99).       *)
THEOREM CountsAgreeHolds == Spec => []CountsAgree
<1>1. WorkInv => CountsAgree
  BY DEF WorkInv, CountsAgree, Verdict, Balanced, Status
<1> QED
  BY <1>1, WorkHolds, PTL
=============================================================================
