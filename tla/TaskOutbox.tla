----------------------------- MODULE TaskOutbox -----------------------------
(***************************************************************************)
(* The transactional outbox between task creation (tasks/service.go) and   *)
(* the asynq queue: the rows of xt_article_inspect_task_outbox, the relays *)
(* that claim and dispatch them (outbox/relay.go), the cleanup job         *)
(* (outbox/cleanup.go) and the operator's recovery script                  *)
(* (scripts/articleinspect_outbox_requeue.sql).                            *)
(*                                                                         *)
(* Each SQL statement or transaction is one action; everything a process   *)
(* remembers between two statements (the row it read, the `now` it took)   *)
(* is a variable of its own.  A relay is one run of DispatchMessage or     *)
(* DispatchPending: in the HTTP server after a create, or in the scheduler *)
(* (cron starts a new run even when the last one is still going).          *)
(* The unit of time is 15 seconds.                                         *)
(***************************************************************************)
EXTENDS Integers, FiniteSets

CONSTANTS
  Tasks,                \* task ids; CreateWithOutbox writes one row per task
  Poison,               \* tasks whose row has a bad payload or message type
  Relays, Cleaners,     \* concurrent runs of the relay and the cleanup job
  LeaseDuration, MaxAttempts, DispatchedRetention, DeadLetterRetention,
  RelayLimit, CleanupLimit,         \* batch sizes of the two jobs
  Pace,                 \* what is assumed of relays against the clock: Tick
  MaxTime, LastCreate,              \* bounds: the clock, the last create
  MaxCrashes, MaxScripts            \* bounds: crashes, operator updates

Paces == {"free", "lease", "round"}

ASSUME SettingsAssumption ==
  /\ Tasks \subseteq Nat /\ Poison \subseteq Tasks
  /\ LeaseDuration \in Nat /\ MaxAttempts \in Nat \ {0}
  /\ DispatchedRetention \in Nat /\ DeadLetterRetention \in Nat
  /\ RelayLimit \in Nat \ {0} /\ CleanupLimit \in Nat \ {0}
  /\ Pace \in Paces
  /\ MaxTime \in Nat /\ LastCreate \in Nat
  /\ MaxCrashes \in Nat /\ MaxScripts \in Nat

VARIABLES
  clock,
  row,          \* the outbox table, by task
  task,         \* "none" before the create request, then "live" or "deleted"
  queue,        \* tasks asynq holds under the id articleinspect-task-<id>
  relay,        \* control point and locals of each relay run
  pick,         \* cleanup: ids it selected and is about to delete
  (* history *)
  enqueued,     \* tasks asynq accepted at least once
  buried,       \* tasks dead-lettered at least once
  scripted,     \* tasks whose row an operator script wrote
  calls,        \* dispatcher calls made per task
  crashes, scripts

rowVars == <<row, task>>
history == <<enqueued, buried, scripted, calls, crashes, scripts>>
vars    == <<clock, rowVars, queue, relay, pick, history>>

-----------------------------------------------------------------------------
(* Rows *)

Null == -1              \* a NULL timestamp column
Time == Nat \cup {Null}
Statuses == {"absent", "pending", "claimed", "dispatched", "dead_letter"}
Terminal == {"dispatched", "dead_letter"}

Row == [status : Statuses, attempts : Nat,
        nextAttempt : Time, claimUntil : Time, retained : Time]
NoRow  == [status |-> "absent", attempts |-> 0,
           nextAttempt |-> Null, claimUntil |-> Null, retained |-> Null]
NewRow == [NoRow EXCEPT !.status = "pending"]

Present(t) == row[t].status # "absent"

isDispatchableDead(m, now) ==           \* bug: dead letters are taken up again
  \/ /\ m.status \in {"pending", "dead_letter"}
     /\ (m.nextAttempt = Null \/ m.nextAttempt <= now)
  \/ m.status = "claimed" /\ (m.claimUntil = Null \/ m.claimUntil < now)
isDispatchableOnce(m, now) ==           \* bug: an expired claim is not taken over
  m.status = "pending" /\ (m.nextAttempt = Null \/ m.nextAttempt <= now)

isDispatchable(m, now) ==
  \/ m.status = "pending" /\ (m.nextAttempt = Null \/ m.nextAttempt <= now)
  \/ m.status = "claimed" /\ (m.claimUntil = Null \/ m.claimUntil < now)

backoffForAttempt(n) == IF n <= 3 THEN 1 ELSE IF n <= 10 THEN 4 ELSE 20

(* UPDATE ... WHERE id = t: no other condition, no effect without the row. *)
Update(t, r) == row' = IF Present(t) THEN [row EXCEPT ![t] = r] ELSE row

(* What the three closing updates write, from the copy m and the stamp n.  *)
DispatchedRow(m, n) ==
  [status |-> "dispatched", attempts |-> m.attempts + 1, nextAttempt |-> Null,
   claimUntil |-> Null, retained |-> n + DispatchedRetention]
DeadLetterRow(m, n) ==
  [status |-> "dead_letter", attempts |-> m.attempts + 1, nextAttempt |-> Null,
   claimUntil |-> Null, retained |-> n + DeadLetterRetention]
RetryRowUncounted(t, m, n) ==           \* bug: the attempt is not counted
  [status |-> "pending", attempts |-> m.attempts,
   nextAttempt |-> n + backoffForAttempt(m.attempts + 1),
   claimUntil |-> Null, retained |-> row[t].retained]

RetryRow(t, m, n) ==              \* leaves retained_until as it is in the row
  [status |-> "pending", attempts |-> m.attempts + 1,
   nextAttempt |-> n + backoffForAttempt(m.attempts + 1),
   claimUntil |-> Null, retained |-> row[t].retained]

shouldDeadLetter(m) == m.attempts + 1 >= MaxAttempts

(* ORDER BY the key, then id, LIMIT n: the first n members of S. *)
FirstBy(S, key, n) ==
  LET Precedes(a, b) == key[a] < key[b] \/ (key[a] = key[b] /\ a < b)
  IN  {a \in S : Cardinality({b \in S : Precedes(b, a)}) < n}

-----------------------------------------------------------------------------
(* Relay runs.  todo: the rest of the batch; cur: the id in hand; mem: the *)
(* copy of its row; stamp: the `now` DispatchMessage takes once and reuses *)
(* in every update that follows.                                           *)

PCs == {"idle", "next", "read", "stamped", "claimed", "sent", "failed",
        "recheck"}
IdleRelay == [pc |-> "idle", todo |-> {}, cur |-> Null, mem |-> NoRow,
              stamp |-> 0]

Become(r, x) == relay' = [relay EXCEPT ![r] = x]
Goto(r, label) == Become(r, [relay[r] EXCEPT !.pc = label])

(* DispatchMessage returns; its locals are gone. *)
ReturnForgetful(r, t, rest) ==          \* bug: the loop loses item.ID
  Become(r, [IdleRelay EXCEPT !.pc = "recheck", !.todo = rest])

Return(r, t, rest) ==
  Become(r, [IdleRelay EXCEPT !.pc = "recheck", !.cur = t, !.todo = rest])

(* CreateAndEnqueue: task, keywords and outbox row in one transaction, then *)
(* the request's own relay r starts on the new row.                         *)
CreateAndEnqueue(r, t) ==
  /\ task[t] = "none" /\ relay[r].pc = "idle" /\ clock <= LastCreate
  /\ task' = [task EXCEPT ![t] = "live"]
  /\ row' = [row EXCEPT ![t] = NewRow]
  /\ Become(r, [relay[r] EXCEPT !.pc = "next",
                                !.todo = {[id |-> t, attempts |-> 0]}])
  /\ UNCHANGED <<clock, queue, pick, history>>

(* The deleteTaskGraph transaction, as far as this table goes. *)
DeleteTask(t) ==
  /\ task[t] = "live"
  /\ task' = [task EXCEPT ![t] = "deleted"]
  /\ row' = [row EXCEPT ![t] = NoRow]
  /\ UNCHANGED <<clock, queue, relay, pick, history>>

(* DispatchPending: one SELECT fixes the batch and its order. *)
SelectPending(r) ==
  LET due == {t \in Tasks : isDispatchable(row[t], clock)}
      attempts == [t \in Tasks |-> row[t].attempts]
  IN  /\ relay[r].pc = "idle" /\ due # {}
      /\ Become(r, [relay[r] EXCEPT !.pc = "next",
                     !.todo = {[id |-> t, attempts |-> attempts[t]] :
                                 t \in FirstBy(due, attempts, RelayLimit)}])
      /\ UNCHANGED <<clock, rowVars, queue, pick, history>>

(* The next item of the batch: DispatchMessage reads the row again. *)
ReadMessage(r) ==
  /\ relay[r].pc = "next"
  /\ \E i \in relay[r].todo :
       /\ \A j \in relay[r].todo : \/ i.attempts < j.attempts
                                   \/ i.attempts = j.attempts /\ i.id <= j.id
       /\ IF Present(i.id)
            THEN Become(r, [relay[r] EXCEPT !.pc = "read", !.cur = i.id,
                              !.mem = row[i.id], !.todo = @ \ {i}])
            ELSE Return(r, i.id, relay[r].todo \ {i})
  /\ UNCHANGED <<clock, rowVars, queue, pick, history>>

(* now := time.Now(), then isDispatchableMessage on the copy. *)
TakeNow(r) ==
  /\ relay[r].pc = "read"
  /\ IF isDispatchable(relay[r].mem, clock)
       THEN Become(r, [relay[r] EXCEPT !.pc = "stamped", !.stamp = clock])
       ELSE Return(r, relay[r].cur, relay[r].todo)
  /\ UNCHANGED <<clock, rowVars, queue, pick, history>>

(* claimMessage: the conditional UPDATE decides on the row as it is now. *)
ClaimableById(t, m, now) == Present(t)  \* bug: the UPDATE looks at the id only

Claimable(t, m, now) == row[t].status = m.status /\ isDispatchable(row[t], now)

ClaimedRow(t, now) == [row[t] EXCEPT !.status = "claimed",
                                     !.claimUntil = now + LeaseDuration]

ClaimMessage(r) ==
  LET t == relay[r].cur
  IN  /\ relay[r].pc = "stamped"
      /\ IF Claimable(t, relay[r].mem, relay[r].stamp)
           THEN /\ row' = [row EXCEPT ![t] = ClaimedRow(t, relay[r].stamp)]
                /\ Goto(r, "claimed")
           ELSE Return(r, t, relay[r].todo) /\ UNCHANGED row
      /\ UNCHANGED <<clock, task, queue, pick, history>>

(* DispatchArticleInspectTask.  asynq refuses an id it still holds and the  *)
(* dispatcher reports that as success; an error may be reported although    *)
(* the task reached Redis.                                                  *)
DispatchUnchecked(r) ==                 \* bug: the dispatcher's error is dropped
  LET t == relay[r].cur
  IN  /\ relay[r].pc = "claimed" /\ t \notin Poison
      /\ \E reached \in BOOLEAN :
           /\ queue' = IF reached THEN queue \cup {t} ELSE queue
           /\ enqueued' = IF reached THEN enqueued \cup {t} ELSE enqueued
      /\ Goto(r, "sent")
      /\ calls' = [calls EXCEPT ![t] = @ + 1]
      /\ UNCHANGED <<clock, rowVars, pick, buried, scripted, crashes, scripts>>

Dispatch(r) ==
  LET t == relay[r].cur
  IN  /\ relay[r].pc = "claimed" /\ t \notin Poison
      /\ \E ok, reached \in BOOLEAN :
           /\ ok => reached
           /\ queue' = IF reached THEN queue \cup {t} ELSE queue
           /\ enqueued' = IF reached THEN enqueued \cup {t} ELSE enqueued
           /\ Goto(r, IF ok THEN "sent" ELSE "failed")
      /\ calls' = [calls EXCEPT ![t] = @ + 1]
      /\ UNCHANGED <<clock, rowVars, pick, buried, scripted, crashes, scripts>>

(* The three closing updates. *)
markDispatched(r) ==
  /\ Update(relay[r].cur, DispatchedRow(relay[r].mem, relay[r].stamp))
  /\ UNCHANGED buried

scheduleRetry(r) ==
  /\ Update(relay[r].cur,
            RetryRow(relay[r].cur, relay[r].mem, relay[r].stamp))
  /\ UNCHANGED buried

moveToDeadLetter(r) ==
  /\ Update(relay[r].cur, DeadLetterRow(relay[r].mem, relay[r].stamp))
  /\ buried' = IF Present(relay[r].cur) THEN buried \cup {relay[r].cur}
                                       ELSE buried

(* Which of them ends DispatchMessage: a payload that does not decode or an *)
(* unknown message type never reaches the dispatcher.                       *)
Close(r) ==
  /\ \/ relay[r].pc = "claimed" /\ relay[r].cur \in Poison /\ moveToDeadLetter(r)
     \/ relay[r].pc = "sent" /\ markDispatched(r)
     \/ /\ relay[r].pc = "failed" /\ shouldDeadLetter(relay[r].mem)
        /\ moveToDeadLetter(r)
     \/ /\ relay[r].pc = "failed" /\ ~shouldDeadLetter(relay[r].mem)
        /\ scheduleRetry(r)
  /\ Return(r, relay[r].cur, relay[r].todo)
  /\ UNCHANGED <<clock, task, queue, pick,
                 enqueued, scripted, calls, crashes, scripts>>

(* DispatchPending reads the row back for its report and gives up the rest *)
(* of the batch when the row is gone.                                      *)
Recheck(r) ==
  /\ relay[r].pc = "recheck"
  /\ IF Present(relay[r].cur) /\ relay[r].todo # {}
       THEN Goto(r, "next")
       ELSE Become(r, IdleRelay)
  /\ UNCHANGED <<clock, rowVars, queue, pick, history>>

(* The process dies, its context is cancelled, or a statement fails: the   *)
(* run ends where it is and what it wrote stays.                           *)
Crash(r) ==
  /\ relay[r].pc # "idle" /\ crashes < MaxCrashes
  /\ crashes' = crashes + 1
  /\ Become(r, IdleRelay)
  /\ UNCHANGED <<clock, rowVars, queue, pick,
                 enqueued, buried, scripted, calls, scripts>>

-----------------------------------------------------------------------------
(* Cleanup: one SELECT of expired terminal rows, then DELETE by id only. *)

ExpiredAnyStatus(t) ==                  \* bug: neither status nor NULL checked
  Present(t) /\ row[t].retained < clock
ExpiredToday(t) ==                      \* bug: retained_until <= now
  /\ row[t].status \in Terminal
  /\ row[t].retained # Null /\ row[t].retained <= clock

Expired(t) == /\ row[t].status \in Terminal
              /\ row[t].retained # Null /\ row[t].retained < clock

CleanupSelect(c) ==
  LET expired == {t \in Tasks : Expired(t)}
  IN  /\ pick[c] = {} /\ expired # {}
      /\ pick' = [pick EXCEPT ![c] =
           FirstBy(expired, [t \in Tasks |-> row[t].retained], CleanupLimit)]
      /\ UNCHANGED <<clock, rowVars, queue, relay, history>>

CleanupDelete(c) ==
  /\ pick[c] # {}
  /\ row' = [t \in Tasks |-> IF t \in pick[c] THEN NoRow ELSE row[t]]
  /\ pick' = [pick EXCEPT ![c] = {}]
  /\ UNCHANGED <<clock, task, queue, relay, history>>

-----------------------------------------------------------------------------
(* The operator's script: three UPDATEs run by hand on one message. *)

Script(t, cond, r) ==
  /\ scripts < MaxScripts /\ Present(t) /\ cond
  /\ scripts' = scripts + 1
  /\ scripted' = scripted \cup {t}
  /\ row' = [row EXCEPT ![t] = r]
  /\ UNCHANGED <<clock, task, queue, relay, pick,
                 enqueued, buried, calls, crashes>>

RequeuedRow(t) == [row[t] EXCEPT !.status = "pending", !.claimUntil = Null,
                                 !.nextAttempt = clock, !.retained = Null]

RequeueById(t) == Script(t, TRUE, RequeuedRow(t))

RequeueByTask(t) ==
  Script(t, row[t].status \in {"pending", "claimed", "dead_letter"},
         RequeuedRow(t))

ClearLease(t) ==
  Script(t, row[t].status = "claimed",
         [RequeuedRow(t) EXCEPT !.retained = row[t].retained])

-----------------------------------------------------------------------------
(* The environment *)

(* A worker took the task and asynq dropped it: the id is free again. *)
Consume(t) ==
  /\ t \in queue
  /\ queue' = queue \ {t}
  /\ UNCHANGED <<clock, rowVars, relay, pick, history>>

(* Relay r holds a claim; from its stamp on it works on borrowed time. *)
Holds(r, t) == relay[r].pc \in {"claimed", "sent", "failed"} /\ relay[r].cur = t
Working(r)  == relay[r].pc \in {"stamped", "claimed", "sent", "failed"}

(* "free":  relays may be arbitrarily slow.                                *)
(* "lease": no relay is slower than its lease (30s against one Redis call  *)
(*          and two SQL statements).                                       *)
(* "round": a unit is one period of the relay job ("@every 15s"), and in   *)
(*          each period the job gets through what is due.                  *)
Tick ==
  /\ clock < MaxTime
  /\ Pace = "lease" =>
       \A r \in Relays : Working(r) => clock < relay[r].stamp + LeaseDuration
  /\ Pace = "round" =>
       /\ \A r \in Relays : relay[r].pc = "idle"
       /\ \A t \in Tasks : ~isDispatchable(row[t], clock)
  /\ clock' = clock + 1
  /\ UNCHANGED <<rowVars, queue, relay, pick, history>>

-----------------------------------------------------------------------------
Init ==
  /\ clock = 0
  /\ row = [t \in Tasks |-> NoRow]
  /\ task = [t \in Tasks |-> "none"]
  /\ queue = {}
  /\ relay = [r \in Relays |-> IdleRelay]
  /\ pick = [c \in Cleaners |-> {}]
  /\ enqueued = {} /\ buried = {} /\ scripted = {}
  /\ calls = [t \in Tasks |-> 0]
  /\ crashes = 0 /\ scripts = 0

RelayStep(r) ==
  \/ ReadMessage(r) \/ TakeNow(r) \/ ClaimMessage(r)
  \/ Dispatch(r) \/ Close(r) \/ Recheck(r)

Next ==
  \/ \E r \in Relays :
       \/ \E t \in Tasks : CreateAndEnqueue(r, t)
       \/ SelectPending(r) \/ RelayStep(r) \/ Crash(r)
  \/ \E t \in Tasks :
       \/ DeleteTask(t) \/ Consume(t)
       \/ RequeueById(t) \/ RequeueByTask(t) \/ ClearLease(t)
  \/ \E c \in Cleaners : CleanupSelect(c) \/ CleanupDelete(c)
  \/ Tick

Spec == Init /\ [][Next]_vars

(* The relay job fires every 15 seconds and a run that does not crash goes  *)
(* on to its end; time passes.                                              *)
Fairness == /\ \A r \in Relays : WF_vars(SelectPending(r)) /\ WF_vars(RelayStep(r))
            /\ WF_vars(Tick)

FairSpec == Spec /\ Fairness

-----------------------------------------------------------------------------
(* Properties *)

Relay == [pc : PCs, todo : SUBSET [id : Tasks, attempts : Nat],
          cur : Tasks \cup {Null}, mem : Row, stamp : Nat]

TableTypeOK == /\ row \in [Tasks -> Row]
               /\ task \in [Tasks -> {"none", "live", "deleted"}]
               /\ queue \in SUBSET Tasks
               /\ pick \in [Cleaners -> SUBSET Tasks]

RelayTypeOK ==
  /\ relay \in [Relays -> Relay]
  /\ \A r \in Relays : relay[r].pc \notin {"idle", "next"} => relay[r].cur \in Tasks

HistoryTypeOK == /\ enqueued \in SUBSET Tasks /\ buried \in SUBSET Tasks
                 /\ scripted \in SUBSET Tasks /\ calls \in [Tasks -> Nat]
                 /\ crashes \in Nat /\ scripts \in Nat

(* Types; and a relay past its read has a row id in hand (relay.go:74-192). *)
TypeOK == clock \in Nat /\ TableTypeOK /\ RelayTypeOK /\ HistoryTypeOK

(* A row says dispatched only if the queue really accepted the task, under  *)
(* any interleaving of slow relays, crashes, cleanup and operator updates:  *)
(* markDispatched (relay.go:132) runs after the enqueue, never before.      *)
DispatchedReachedQueue ==
  \A t \in Tasks : row[t].status = "dispatched" => t \in enqueued

(* No accepted task is lost without a trace: as long as it is not deleted,  *)
(* was never accepted by the queue and never dead-lettered, its row is      *)
(* there and still relayable.  The cleanup's DELETE by id (cleanup.go:38)   *)
(* and the unconditional closing updates (relay.go:252-318) must not break  *)
(* this.                                                                    *)
NoSilentLoss ==
  \A t \in Tasks :
    task[t] = "live" /\ t \notin enqueued /\ t \notin buried
      => row[t].status \in {"pending", "claimed"}

(* The lease is a lock (claimMessage, relay.go:211-250): while no relay     *)
(* outlives its lease and no operator interferes, two relays never hold the *)
(* same message between claim and closing update.                           *)
ExclusiveClaim ==
  \A r, s \in Relays : \A t \in Tasks \ scripted :
    Holds(r, t) /\ Holds(s, t) => r = s

(* MaxAttempts bounds the dispatcher calls for a message, up to one extra   *)
(* call per crash between the dispatch and its closing update (the crash    *)
(* loses the attempt_count increment, relay.go:117-132), as long as every   *)
(* relay run ends within the period it started in.                          *)
RetryBudget ==
  \A t \in Tasks \ scripted : calls[t] <= MaxAttempts + crashes

(* What cleanup deletes is settled and past its retention at the moment of  *)
(* the DELETE, although only the earlier SELECT looked (cleanup.go:20-38).  *)
CleanupSparesLive ==
  [][\A t \in Tasks \ scripted :
       Present(t) /\ row'[t].status = "absent" /\ task'[t] = "live"
         => row[t].status \in Terminal /\ row[t].retained < clock]_vars

(* The outbox implements the documented message life cycle.                 *)
Lifecycle == INSTANCE OutboxLifecycle
               WITH Messages <- Tasks, handed <- enqueued,
                    status <- [t \in Tasks |-> row[t].status]
ImplementsLifecycle == Lifecycle!Spec

(* Every message is eventually dispatched, dead-lettered, or deleted with   *)
(* its task: an expired claim is taken over, retries end (relay.go:74-192). *)
Settles ==
  \A t \in Tasks : Present(t) ~> ~(row[t].status \in {"pending", "claimed"})
=============================================================================
