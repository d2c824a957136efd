-------------------------- MODULE TaskOutboxProofs --------------------------
(* Proofs about TaskOutbox, for every value of its constants. *)
EXTENDS TaskOutbox, TLAPS

(* The rows the code writes have the columns' types. *)
LEMMA RowTypes ==
  ASSUME TableTypeOK, clock \in Nat
  PROVE  /\ NoRow \in Row /\ NewRow \in Row
         /\ \A m \in Row, n \in Nat : DispatchedRow(m, n) \in Row
                                      /\ DeadLetterRow(m, n) \in Row
         /\ \A t \in Tasks, m \in Row, n \in Nat : RetryRow(t, m, n) \in Row
         /\ \A t \in Tasks : RequeuedRow(t) \in Row
<1>1. NoRow \in Row /\ NewRow \in Row
  BY DEF Row, NoRow, NewRow, Statuses, Time, Null
<1>2. ASSUME NEW m \in Row, NEW n \in Nat
      PROVE  DispatchedRow(m, n) \in Row /\ DeadLetterRow(m, n) \in Row
  BY SettingsAssumption DEF Row, DispatchedRow, DeadLetterRow, Statuses, Time, Null
<1>3. ASSUME NEW t \in Tasks, NEW m \in Row, NEW n \in Nat
      PROVE  RetryRow(t, m, n) \in Row
  BY SMTT(30) DEF TableTypeOK, Row, RetryRow, backoffForAttempt, Statuses, Time, Null
<1>4. ASSUME NEW t \in Tasks PROVE RequeuedRow(t) \in Row
  BY DEF TableTypeOK, Row, RequeuedRow, Statuses, Time, Null
<1> QED
  BY <1>1, <1>2, <1>3, <1>4

LEMMA IdleType == IdleRelay \in Relay
  BY DEF IdleRelay, Relay, PCs, Row, NoRow, Statuses, Time, Null

(* A relay run that moves to a well-formed x keeps the runs well-formed. *)
LEMMA BecomeType ==
  ASSUME RelayTypeOK, NEW r \in Relays, NEW x \in Relay, Become(r, x),
         x.pc \notin {"idle", "next"} => x.cur \in Tasks
  PROVE  RelayTypeOK'
  BY DEF RelayTypeOK, Become

LEMMA GotoType ==
  ASSUME RelayTypeOK, NEW r \in Relays, NEW label \in PCs, Goto(r, label),
         relay[r].pc \notin {"idle", "next"} \/ label = "next"
  PROVE  RelayTypeOK'
<1> DEFINE x == [relay[r] EXCEPT !.pc = label]
<1>1. x \in Relay /\ (x.pc \notin {"idle", "next"} => x.cur \in Tasks)
  BY DEF RelayTypeOK, Relay
<1> QED
  BY <1>1, BecomeType DEF Goto

LEMMA ReturnType ==
  ASSUME RelayTypeOK, NEW r \in Relays, NEW t \in Tasks,
         NEW rest \in SUBSET [id : Tasks, attempts : Nat], Return(r, t, rest)
  PROVE  RelayTypeOK'
<1> DEFINE x == [IdleRelay EXCEPT !.pc = "recheck", !.cur = t, !.todo = rest]
<1>1. x \in Relay /\ x.cur = t
  BY IdleType DEF IdleRelay, Relay, PCs
<1> QED
  BY <1>1, BecomeType DEF Return

(* Types are inductive: every statement the relays, the cleanup job, the   *)
(* create and delete requests and the operator script run keeps the        *)
(* table's columns and the runs' locals well-formed, for any number of     *)
(* tasks, relays and cleaners.                                             *)
LEMMA TypeInductive == TypeOK /\ [Next]_vars => TypeOK'
<1> SUFFICES ASSUME TypeOK, [Next]_vars PROVE TypeOK'
  OBVIOUS
<1>t. clock \in Nat /\ TableTypeOK /\ RelayTypeOK /\ HistoryTypeOK
  BY DEF TypeOK
<1>r. /\ NoRow \in Row /\ NewRow \in Row
      /\ \A m \in Row, n \in Nat : DispatchedRow(m, n) \in Row
                                   /\ DeadLetterRow(m, n) \in Row
      /\ \A t \in Tasks, m \in Row, n \in Nat : RetryRow(t, m, n) \in Row
      /\ \A t \in Tasks : RequeuedRow(t) \in Row
  BY <1>t, RowTypes
<1>l. ASSUME NEW r \in Relays
      PROVE  /\ relay[r] \in Relay /\ relay[r].mem \in Row /\ relay[r].stamp \in Nat
             /\ relay[r].todo \in SUBSET [id : Tasks, attempts : Nat]
             /\ relay[r].pc \notin {"idle", "next"} => relay[r].cur \in Tasks
  BY <1>t DEF RelayTypeOK, Relay
<1>1. ASSUME NEW r \in Relays, NEW t \in Tasks, CreateAndEnqueue(r, t)
      PROVE  TypeOK'
  <2> DEFINE B == {[id |-> t, attempts |-> 0]}
             x == [relay[r] EXCEPT !.pc = "next", !.todo = B]
  <2>0. B \in SUBSET [id : Tasks, attempts : Nat]
    OBVIOUS
  <2>1. x \in Relay /\ x.pc = "next"
    <3> HIDE DEF B
    <3> QED BY <1>l, <2>0 DEF Relay, PCs
  <2>2. RelayTypeOK'
    BY <1>1, <1>t, <2>1, BecomeType DEF CreateAndEnqueue
  <2> QED
    BY <1>1, <1>t, <1>r, <2>2
    DEF CreateAndEnqueue, TypeOK, TableTypeOK, HistoryTypeOK, history
<1>2. ASSUME NEW r \in Relays, SelectPending(r) PROVE TypeOK'
  <2> DEFINE due == {t \in Tasks : isDispatchable(row[t], clock)}
             attempts == [t \in Tasks |-> row[t].attempts]
             B == {[id |-> t, attempts |-> attempts[t]] :
                     t \in FirstBy(due, attempts, RelayLimit)}
             x == [relay[r] EXCEPT !.pc = "next", !.todo = B]
  <2>0. /\ \A t \in Tasks : attempts[t] \in Nat
        /\ FirstBy(due, attempts, RelayLimit) \subseteq Tasks
    BY <1>t DEF FirstBy, TableTypeOK, Row
  <2>1. B \in SUBSET [id : Tasks, attempts : Nat]
    <3> HIDE DEF attempts, due
    <3> QED BY <2>0
  <2>2. x \in Relay /\ x.pc = "next"
    <3> HIDE DEF B
    <3> QED BY <1>l, <2>1 DEF Relay, PCs
  <2>3. RelayTypeOK'
    BY <1>2, <1>t, <2>2, BecomeType DEF SelectPending
  <2> QED
    BY <1>2, <1>t, <2>3
    DEF SelectPending, TypeOK, TableTypeOK, HistoryTypeOK, rowVars, history
<1>3. ASSUME NEW r \in Relays, ReadMessage(r) PROVE TypeOK'
  <2>1. PICK i \in relay[r].todo :
          IF Present(i.id)
            THEN Become(r, [relay[r] EXCEPT !.pc = "read", !.cur = i.id,
                              !.mem = row[i.id], !.todo = @ \ {i}])
            ELSE Return(r, i.id, relay[r].todo \ {i})
    BY <1>3 DEF ReadMessage
  <2>2. i.id \in Tasks /\ row[i.id] \in Row
        /\ relay[r].todo \ {i} \in SUBSET [id : Tasks, attempts : Nat]
    BY <1>l, <1>t DEF TableTypeOK
  <2> DEFINE x == [relay[r] EXCEPT !.pc = "read", !.cur = i.id,
                     !.mem = row[i.id], !.todo = @ \ {i}]
  <2>3. x \in Relay /\ x.cur = i.id
    BY <1>l, <2>2 DEF Relay, PCs
  <2>4. RelayTypeOK'
    BY <1>t, <2>1, <2>2, <2>3, BecomeType, ReturnType
  <2> QED
    BY <1>3, <1>t, <2>4
    DEF ReadMessage, TypeOK, TableTypeOK, HistoryTypeOK, rowVars, history
<1>4. ASSUME NEW r \in Relays, TakeNow(r) PROVE TypeOK'
  <2> DEFINE x == [relay[r] EXCEPT !.pc = "stamped", !.stamp = clock]
  <2>1. relay[r].cur \in Tasks
    BY <1>4, <1>l DEF TakeNow
  <2>2. x \in Relay /\ x.cur = relay[r].cur
    BY <1>l, <1>t DEF Relay, PCs
  <2>3. RelayTypeOK'
    BY <1>4, <1>l, <1>t, <2>1, <2>2, BecomeType, ReturnType DEF TakeNow
  <2> QED
    BY <1>4, <1>t, <2>3
    DEF TakeNow, TypeOK, TableTypeOK, HistoryTypeOK, rowVars, history
<1>5. ASSUME NEW r \in Relays, ClaimMessage(r) PROVE TypeOK'
  <2>1. relay[r].cur \in Tasks /\ relay[r].pc = "stamped"
    BY <1>5, <1>l DEF ClaimMessage
  <2>2. RelayTypeOK'
    BY <1>5, <1>l, <1>t, <2>1, GotoType, ReturnType DEF ClaimMessage, PCs
  <2>x. ClaimedRow(relay[r].cur, relay[r].stamp) \in Row
    <3>1. row[relay[r].cur] \in Row
      BY <1>t, <2>1 DEF TableTypeOK
    <3>2. relay[r].stamp \in Nat /\ LeaseDuration \in Nat
      BY <1>l, SettingsAssumption
    <3>3. relay[r].stamp + LeaseDuration \in Time
      BY <3>2 DEF Time
    <3> QED
      BY <3>1, <3>3 DEF ClaimedRow, Row, Statuses
  <2>3. row' \in [Tasks -> Row]
    <3>1. CASE Claimable(relay[r].cur, relay[r].mem, relay[r].stamp)
      BY <1>5, <1>t, <2>1, <2>x, <3>1 DEF ClaimMessage, TableTypeOK
    <3>2. CASE ~Claimable(relay[r].cur, relay[r].mem, relay[r].stamp)
      BY <1>5, <1>t, <3>2 DEF ClaimMessage, TableTypeOK
    <3> QED BY <3>1, <3>2
  <2> QED
    BY <1>5, <1>t, <2>2, <2>3
    DEF ClaimMessage, TypeOK, TableTypeOK, HistoryTypeOK, history
<1>6. ASSUME NEW r \in Relays, Dispatch(r) PROVE TypeOK'
  <2>1. relay[r].cur \in Tasks /\ relay[r].pc = "claimed"
    BY <1>6, <1>l DEF Dispatch
  <2>2. RelayTypeOK'
    BY <1>6, <1>t, <2>1, GotoType DEF Dispatch, PCs
  <2> QED
    BY <1>6, <1>t, <2>1, <2>2
    DEF Dispatch, TypeOK, TableTypeOK, HistoryTypeOK, rowVars
<1>7. ASSUME NEW r \in Relays, Close(r) PROVE TypeOK'
  <2>1. relay[r].cur \in Tasks
    BY <1>7, <1>l DEF Close
  <2>2. RelayTypeOK'
    BY <1>7, <1>l, <1>t, <2>1, ReturnType DEF Close
  <2>u. ASSUME NEW x \in Row, Update(relay[r].cur, x)
        PROVE  row' \in [Tasks -> Row]
    BY <2>u, <2>1, <1>t DEF Update, TableTypeOK
  <2>3. row' \in [Tasks -> Row]
    BY <1>7, <1>l, <1>r, <2>1, <2>u
    DEF Close, markDispatched, scheduleRetry, moveToDeadLetter
  <2>4. buried' \in SUBSET Tasks
    BY <1>7, <1>t, <2>1
    DEF Close, markDispatched, scheduleRetry, moveToDeadLetter, HistoryTypeOK
  <2> QED
    BY <1>7, <1>t, <2>2, <2>3, <2>4 DEF Close, TypeOK, TableTypeOK, HistoryTypeOK
<1>8. ASSUME NEW r \in Relays, Recheck(r) PROVE TypeOK'
  <2>1. RelayTypeOK'
    BY <1>8, <1>t, GotoType, BecomeType, IdleType DEF Recheck, PCs, IdleRelay
  <2> QED
    BY <1>8, <1>t, <2>1
    DEF Recheck, TypeOK, TableTypeOK, HistoryTypeOK, rowVars, history
<1>9. ASSUME NEW r \in Relays, Crash(r) PROVE TypeOK'
  <2>1. RelayTypeOK'
    BY <1>9, <1>t, BecomeType, IdleType DEF Crash, IdleRelay
  <2> QED
    BY <1>9, <1>t, <2>1
    DEF Crash, TypeOK, TableTypeOK, HistoryTypeOK, rowVars
<1>10. ASSUME NEW t \in Tasks, DeleteTask(t) PROVE TypeOK'
  BY <1>10, <1>t, <1>r
  DEF DeleteTask, TypeOK, TableTypeOK, RelayTypeOK, HistoryTypeOK, history
<1>11. ASSUME NEW t \in Tasks, Consume(t) PROVE TypeOK'
  BY <1>11, <1>t
  DEF Consume, TypeOK, TableTypeOK, RelayTypeOK, HistoryTypeOK, rowVars, history
<1>12. ASSUME NEW t \in Tasks, NEW x \in Row, NEW cond, Script(t, cond, x)
       PROVE  TypeOK'
  BY <1>12, <1>t
  DEF Script, TypeOK, TableTypeOK, RelayTypeOK, HistoryTypeOK
<1>13. ASSUME NEW t \in Tasks, RequeueById(t) \/ RequeueByTask(t) \/ ClearLease(t)
       PROVE  TypeOK'
  <2>1. [RequeuedRow(t) EXCEPT !.retained = row[t].retained] \in Row
    BY <1>r, <1>t DEF TableTypeOK, Row
  <2> QED
    BY <1>13, <1>12, <1>r, <2>1 DEF RequeueById, RequeueByTask, ClearLease
<1>14. ASSUME NEW c \in Cleaners, CleanupSelect(c) PROVE TypeOK'
  BY <1>14, <1>t
  DEF CleanupSelect, FirstBy, TypeOK, TableTypeOK, RelayTypeOK, HistoryTypeOK,
      rowVars, history
<1>15. ASSUME NEW c \in Cleaners, CleanupDelete(c) PROVE TypeOK'
  BY <1>15, <1>t, <1>r
  DEF CleanupDelete, TypeOK, TableTypeOK, RelayTypeOK, HistoryTypeOK, history
<1>16. CASE Tick
  BY <1>16, <1>t
  DEF Tick, TypeOK, TableTypeOK, RelayTypeOK, HistoryTypeOK, rowVars, history
<1>17. CASE UNCHANGED vars
  BY <1>17, <1>t
  DEF vars, TypeOK, TableTypeOK, RelayTypeOK, HistoryTypeOK, rowVars, history
<1> QED
  BY <1>1, <1>2, <1>3, <1>4, <1>5, <1>6, <1>7, <1>8, <1>9, <1>10, <1>11,
     <1>13, <1>14, <1>15, <1>16, <1>17
  DEF Next, RelayStep

(* The outbox is well-typed in every reachable state. *)
THEOREM TypeCorrect == Spec => []TypeOK
<1>1. Init => TypeOK
  BY IdleType
  DEF Init, TypeOK, TableTypeOK, RelayTypeOK, HistoryTypeOK, Row, NoRow,
      IdleRelay, Statuses, Time, Null
<1> QED
  BY <1>1, TypeInductive, PTL DEF Spec
-----------------------------------------------------------------------------
(* What a move of relay r leaves behind. *)
LEMMA Moves ==
  ASSUME RelayTypeOK, NEW r \in Relays
  PROVE  /\ \A x : Become(r, x) =>
              relay'[r] = x /\ \A s \in Relays : s # r => relay'[s] = relay[s]
         /\ \A label : Goto(r, label) =>
              /\ relay'[r].pc = label /\ relay'[r].cur = relay[r].cur
              /\ relay'[r].mem = relay[r].mem /\ relay'[r].stamp = relay[r].stamp
              /\ \A s \in Relays : s # r => relay'[s] = relay[s]
         /\ \A t, rest : Return(r, t, rest) =>
              /\ relay'[r].pc = "recheck"
              /\ \A s \in Relays : s # r => relay'[s] = relay[s]
<1>1. ASSUME NEW x, Become(r, x)
      PROVE  relay'[r] = x /\ \A s \in Relays : s # r => relay'[s] = relay[s]
  BY <1>1 DEF Become, RelayTypeOK
<1>2. ASSUME NEW label, Goto(r, label)
      PROVE  /\ relay'[r].pc = label /\ relay'[r].cur = relay[r].cur
             /\ relay'[r].mem = relay[r].mem /\ relay'[r].stamp = relay[r].stamp
             /\ \A s \in Relays : s # r => relay'[s] = relay[s]
  <2>1. relay'[r] = [relay[r] EXCEPT !.pc = label]
    BY <1>2, <1>1 DEF Goto
  <2>2. relay[r] \in Relay
    BY DEF RelayTypeOK
  <2> QED
    BY <1>1, <1>2, <2>1, <2>2 DEF Goto, Relay
<1>3. ASSUME NEW t, NEW rest, Return(r, t, rest)
      PROVE  /\ relay'[r].pc = "recheck"
             /\ \A s \in Relays : s # r => relay'[s] = relay[s]
  <2>1. relay'[r] = [IdleRelay EXCEPT !.pc = "recheck", !.cur = t, !.todo = rest]
    BY <1>3, <1>1 DEF Return
  <2> QED
    BY <1>1, <1>3, <2>1 DEF Return, IdleRelay
<1> QED
  BY <1>1, <1>2, <1>3

(* Strengthening for the hand-over: where a task that is no longer         *)
(* relayable must have been before.                                        *)
HandOverInv ==
  /\ DispatchedReachedQueue
  /\ \A t \in Tasks : row[t].status = "dead_letter" => t \in buried
  /\ \A r \in Relays : relay[r].pc = "sent" => relay[r].cur \in enqueued
  /\ \A c \in Cleaners : pick[c] \subseteq enqueued \cup buried
  /\ NoSilentLoss


LEMMA HandOverInductive ==
  TypeOK /\ HandOverInv /\ [Next]_vars => HandOverInv'
<1> SUFFICES ASSUME TypeOK, HandOverInv, [Next]_vars PROVE HandOverInv'
  OBVIOUS
<1> USE DEF DispatchedReachedQueue, NoSilentLoss
<1>t. TableTypeOK /\ RelayTypeOK /\ HistoryTypeOK
  BY DEF TypeOK
<1>l. ASSUME NEW r \in Relays PROVE relay[r].pc \notin {"idle", "next"} => relay[r].cur \in Tasks
  BY <1>t DEF RelayTypeOK
<1>n. NoRow.status = "absent" /\ NewRow.status = "pending"
      /\ IdleRelay.pc = "idle"
  BY DEF NoRow, NewRow, IdleRelay
(* A step that leaves the table and the history alone. *)
<1>q. ASSUME UNCHANGED <<row, task, pick, enqueued, buried>>,
             \A r \in Relays : relay'[r].pc = "sent" => relay[r].pc = "sent"
                                                      /\ relay'[r].cur = relay[r].cur
      PROVE  HandOverInv'
  BY <1>q DEF HandOverInv
<1>1. ASSUME NEW r \in Relays, NEW t \in Tasks, CreateAndEnqueue(r, t)
      PROVE  HandOverInv'
  <2>1. \A s \in Relays : relay'[s].pc = "sent" => relay[s].pc = "sent"
                                                  /\ relay'[s].cur = relay[s].cur
    <3> DEFINE x == [relay[r] EXCEPT !.pc = "next",
                                     !.todo = {[id |-> t, attempts |-> 0]}]
    <3>1. x.pc = "next"
      BY <1>t DEF RelayTypeOK, Relay
    <3>2. Become(r, x)
      BY <1>1 DEF CreateAndEnqueue
    <3> HIDE DEF x
    <3> QED
      BY <1>t, <3>1, <3>2, Moves
  <2> QED
    BY <1>1, <1>t, <1>n, <2>1 DEF CreateAndEnqueue, HandOverInv, TableTypeOK, history
<1>2. ASSUME NEW r \in Relays, SelectPending(r) PROVE HandOverInv'
  <2>1. PICK B : Become(r, [relay[r] EXCEPT !.pc = "next", !.todo = B])
    BY <1>2 DEF SelectPending
  <2>2. [relay[r] EXCEPT !.pc = "next", !.todo = B].pc = "next"
    BY <1>t DEF RelayTypeOK, Relay
  <2>3. relay'[r].pc = "next" /\ \A s \in Relays : s # r => relay'[s] = relay[s]
    BY <1>t, <2>1, <2>2, Moves
  <2> QED
    BY <1>2, <1>q, <2>3 DEF SelectPending, rowVars, history
<1>3. ASSUME NEW r \in Relays, ReadMessage(r) PROVE HandOverInv'
  <2>1. PICK i : \/ Become(r, [relay[r] EXCEPT !.pc = "read", !.cur = i.id,
                                 !.mem = row[i.id], !.todo = @ \ {i}])
                 \/ Return(r, i.id, relay[r].todo \ {i})
    BY <1>3 DEF ReadMessage
  <2>2. [relay[r] EXCEPT !.pc = "read", !.cur = i.id,
                         !.mem = row[i.id], !.todo = @ \ {i}].pc = "read"
    BY <1>t DEF RelayTypeOK, Relay
  <2>3. /\ relay'[r].pc \in {"read", "recheck"}
        /\ \A s \in Relays : s # r => relay'[s] = relay[s]
    BY <1>t, <2>1, <2>2, Moves
  <2> QED
    BY <1>3, <1>q, <2>3 DEF ReadMessage, rowVars, history
<1>4. ASSUME NEW r \in Relays, TakeNow(r) PROVE HandOverInv'
  <2>1. [relay[r] EXCEPT !.pc = "stamped", !.stamp = clock].pc = "stamped"
    BY <1>t DEF RelayTypeOK, Relay
  <2> QED
    BY <1>4, <1>t, <1>q, <2>1, Moves DEF TakeNow, rowVars, history
<1>5. ASSUME NEW r \in Relays, ClaimMessage(r) PROVE HandOverInv'
  <2> DEFINE t == relay[r].cur
  <2>1. \A s \in Relays : relay'[s].pc = "sent" => relay[s].pc = "sent"
                                                  /\ relay'[s].cur = relay[s].cur
    BY <1>5, <1>t, Moves DEF ClaimMessage
  <2>2. CASE Claimable(t, relay[r].mem, relay[r].stamp)
    <3>1. t \in Tasks /\ row' = [row EXCEPT ![t] = ClaimedRow(t, relay[r].stamp)]
      BY <1>5, <1>l, <2>2 DEF ClaimMessage
    <3>2. ClaimedRow(t, relay[r].stamp).status = "claimed"
      BY <3>1, <1>t DEF ClaimedRow, TableTypeOK, Row
    <3> QED
      BY <1>5, <1>t, <2>1, <3>1, <3>2 DEF ClaimMessage, HandOverInv, TableTypeOK, history
  <2>3. CASE ~Claimable(t, relay[r].mem, relay[r].stamp)
    BY <1>5, <1>q, <2>1, <2>3 DEF ClaimMessage, history
  <2> QED
    BY <2>2, <2>3
<1>6. ASSUME NEW r \in Relays, Dispatch(r) PROVE HandOverInv'
  <2>1. PICK ok \in BOOLEAN, reached \in BOOLEAN :
          /\ ok => reached
          /\ enqueued' = IF reached THEN enqueued \cup {relay[r].cur} ELSE enqueued
          /\ Goto(r, IF ok THEN "sent" ELSE "failed")
    BY <1>6 DEF Dispatch
  <2>2. /\ enqueued \subseteq enqueued'
        /\ \A s \in Relays : relay'[s].pc = "sent" => relay'[s].cur \in enqueued'
    BY <1>t, <2>1, Moves DEF HandOverInv
  <2> QED
    BY <1>6, <2>2 DEF Dispatch, HandOverInv, rowVars
<1>7. ASSUME NEW r \in Relays, Close(r) PROVE HandOverInv'
  <2> DEFINE t == relay[r].cur
  <2>1. \A s \in Relays : relay'[s].pc = "sent" => relay[s].pc = "sent"
                                                  /\ relay'[s].cur = relay[s].cur
    BY <1>7, <1>t, Moves DEF Close
  <2>2. t \in Tasks
    BY <1>7, <1>l DEF Close
  <2> DEFINE m == relay[r].mem
             n == relay[r].stamp
  <2>3. /\ buried \subseteq buried'
        /\ \/ row' = row
           \/ row' = [row EXCEPT ![t] = DispatchedRow(m, n)] /\ t \in enqueued
           \/ row' = [row EXCEPT ![t] = DeadLetterRow(m, n)] /\ t \in buried'
           \/ row' = [row EXCEPT ![t] = RetryRow(t, m, n)]
    BY <1>7 DEF Close, markDispatched, moveToDeadLetter, scheduleRetry, Update,
                HandOverInv
  <2>4. /\ DispatchedRow(m, n).status = "dispatched"
        /\ DeadLetterRow(m, n).status = "dead_letter"
        /\ RetryRow(t, m, n).status = "pending"
    BY DEF DispatchedRow, DeadLetterRow, RetryRow
  <2> QED
    BY <1>7, <1>t, <2>1, <2>2, <2>3, <2>4 DEF Close, HandOverInv, TableTypeOK
<1>8. ASSUME NEW r \in Relays, Recheck(r) PROVE HandOverInv'
  BY <1>8, <1>t, <1>n, <1>q, Moves DEF Recheck, rowVars, history
<1>9. ASSUME NEW r \in Relays, Crash(r) PROVE HandOverInv'
  BY <1>9, <1>t, <1>n, <1>q, Moves DEF Crash, rowVars
<1>10. ASSUME NEW t \in Tasks, DeleteTask(t) PROVE HandOverInv'
  BY <1>10, <1>t, <1>n DEF DeleteTask, HandOverInv, TableTypeOK, history
<1>11. ASSUME NEW t \in Tasks, Consume(t) PROVE HandOverInv'
  BY <1>11, <1>q DEF Consume, rowVars, history
<1>12. ASSUME NEW t \in Tasks, NEW x, NEW cond, x.status = "pending", Script(t, cond, x)
       PROVE  HandOverInv'
  BY <1>12, <1>t DEF Script, HandOverInv, TableTypeOK
<1>13. ASSUME NEW t \in Tasks, RequeueById(t) \/ RequeueByTask(t) \/ ClearLease(t)
       PROVE  HandOverInv'
  <2>1. /\ RequeuedRow(t).status = "pending"
        /\ [RequeuedRow(t) EXCEPT !.retained = row[t].retained].status = "pending"
    BY <1>t DEF RequeuedRow, TableTypeOK, Row
  <2> QED
    BY <1>13, <1>12, <2>1 DEF RequeueById, RequeueByTask, ClearLease
<1>14. ASSUME NEW c \in Cleaners, CleanupSelect(c) PROVE HandOverInv'
  <2>1. PICK S \in SUBSET {t \in Tasks : Expired(t)} : pick' = [pick EXCEPT ![c] = S]
    BY <1>14 DEF CleanupSelect, FirstBy
  <2>2. S \subseteq enqueued \cup buried
    BY <1>t DEF Expired, Terminal, HandOverInv
  <2> QED
    BY <1>14, <1>t, <2>1, <2>2 DEF CleanupSelect, HandOverInv, TableTypeOK, rowVars, history
<1>15. ASSUME NEW c \in Cleaners, CleanupDelete(c) PROVE HandOverInv'
  BY <1>15, <1>t, <1>n DEF CleanupDelete, HandOverInv, TableTypeOK, history
<1>16. CASE Tick
  BY <1>16, <1>q DEF Tick, rowVars, history
<1>17. CASE UNCHANGED vars
  BY <1>17, <1>q DEF vars, rowVars, history
<1> QED
  BY <1>1, <1>2, <1>3, <1>4, <1>5, <1>6, <1>7, <1>8, <1>9, <1>10, <1>11,
     <1>13, <1>14, <1>15, <1>16, <1>17
  DEF Next, RelayStep

(* The hand-over invariant holds throughout: relays may be arbitrarily slow *)
(* or crash, cleanup deletes by id, operators requeue at any time.          *)
THEOREM HandOverSafe == Spec => []HandOverInv
<1>1. Init => HandOverInv
  BY DEF Init, HandOverInv, DispatchedReachedQueue, NoSilentLoss, NoRow, IdleRelay
<1> QED
  BY <1>1, TypeCorrect, HandOverInductive, PTL DEF Spec

(* A row says dispatched only if the queue accepted the task: no relay,     *)
(* however slow, and no operator marks a message the queue never got.       *)
THEOREM DispatchedReachedQueueHolds == Spec => []DispatchedReachedQueue
<1>1. HandOverInv => DispatchedReachedQueue
  BY DEF HandOverInv
<1> QED
  BY <1>1, HandOverSafe, PTL

(* No task disappears from the outbox before the queue accepted it or it    *)
(* was dead-lettered, although cleanup deletes by id and the closing        *)
(* updates overwrite whatever they find.                                    *)
THEOREM NoSilentLossHolds == Spec => []NoSilentLoss
<1>1. HandOverInv => NoSilentLoss
  BY DEF HandOverInv
<1> QED
  BY <1>1, HandOverSafe, PTL

-----------------------------------------------------------------------------
(* Strengthening for the lease: only live tasks have rows; a working relay  *)
(* is within its lease; a message it holds is claimed until exactly the end *)
(* of that lease, unless the row was deleted; what cleanup has selected     *)
(* stays settled and expired.                                               *)
LiveRows == \A t \in Tasks : Present(t) => task[t] = "live"

InLease ==
  \A r \in Relays :
    /\ relay[r].pc = "read" \/ Working(r) => task[relay[r].cur] # "none"
    /\ Working(r) => /\ relay[r].stamp <= clock
                     /\ clock <= relay[r].stamp + LeaseDuration

HeldRows ==
  \A r \in Relays : \A t \in Tasks \ scripted :
    Holds(r, t) => \/ row[t].status = "absent"
                   \/ /\ row[t].status = "claimed"
                      /\ row[t].claimUntil = relay[r].stamp + LeaseDuration

PickedRows ==
  \A c \in Cleaners : \A t \in pick[c] \ scripted :
    /\ task[t] # "none"
    /\ Present(t) => row[t].status \in Terminal /\ row[t].retained < clock

LeaseInv == LiveRows /\ InLease /\ HeldRows /\ ExclusiveClaim /\ PickedRows

(* Relay r gives up the message it worked on, if any. *)
LetsGo(r) == /\ relay'[r].pc \in {"idle", "next", "recheck"}
             /\ \A s \in Relays : s # r => relay'[s] = relay[s]

LEMMA LetsGoSteps ==
  ASSUME RelayTypeOK, NEW r \in Relays
  PROVE  /\ \A t \in Tasks : CreateAndEnqueue(r, t) => LetsGo(r)
         /\ SelectPending(r) \/ Close(r) \/ Recheck(r) \/ Crash(r) => LetsGo(r)
         /\ \A t, rest : Return(r, t, rest) => LetsGo(r)
<1>1. ASSUME NEW B, Become(r, [relay[r] EXCEPT !.pc = "next", !.todo = B])
      PROVE  LetsGo(r)
  <2>1. [relay[r] EXCEPT !.pc = "next", !.todo = B].pc = "next"
    BY DEF RelayTypeOK, Relay
  <2> QED
    BY <1>1, <2>1, Moves DEF LetsGo
<1>2. IdleRelay.pc = "idle"
  BY DEF IdleRelay
<1>3. \A t, rest : Return(r, t, rest) => LetsGo(r)
  BY Moves DEF LetsGo
<1>4. ASSUME NEW t \in Tasks, CreateAndEnqueue(r, t) PROVE LetsGo(r)
  BY <1>1, <1>4 DEF CreateAndEnqueue
<1>5. SelectPending(r) => LetsGo(r)
  BY <1>1 DEF SelectPending
<1>6. Close(r) \/ Recheck(r) \/ Crash(r) => LetsGo(r)
  BY <1>2, <1>3, Moves DEF Close, Recheck, Crash, LetsGo
<1> QED
  BY <1>3, <1>4, <1>5, <1>6

(* The closing update of relay r, or nothing if the row is gone. *)
LEMMA CloseWrites ==
  ASSUME TypeOK, NEW r \in Relays, Close(r)
  PROVE  /\ Holds(r, relay[r].cur) /\ relay[r].cur \in Tasks
         /\ \/ row' = row
            \/ /\ Present(relay[r].cur)
               /\ \E x : /\ row' = [row EXCEPT ![relay[r].cur] = x]
                         /\ x.status \in {"pending", "dispatched", "dead_letter"}
         /\ Present(relay[r].cur) => row'[relay[r].cur].status # "claimed"
<1> DEFINE t == relay[r].cur
           m == relay[r].mem
           n == relay[r].stamp
<1>1. Holds(r, t) /\ t \in Tasks
  BY DEF Close, Holds, TypeOK, RelayTypeOK
<1>2. ASSUME NEW x, x.status \in {"pending", "dispatched", "dead_letter"}, Update(t, x)
      PROVE  /\ \/ row' = row
                \/ /\ Present(t)
                   /\ \E y : /\ row' = [row EXCEPT ![t] = y]
                             /\ y.status \in {"pending", "dispatched", "dead_letter"}
             /\ Present(t) => row'[t].status # "claimed"
  BY <1>1, <1>2 DEF Update, TypeOK, TableTypeOK
<1>3. /\ DispatchedRow(m, n).status = "dispatched"
      /\ DeadLetterRow(m, n).status = "dead_letter"
      /\ RetryRow(t, m, n).status = "pending"
  BY DEF DispatchedRow, DeadLetterRow, RetryRow
<1>4. Update(t, DispatchedRow(m, n)) \/ Update(t, DeadLetterRow(m, n))
      \/ Update(t, RetryRow(t, m, n))
  BY DEF Close, markDispatched, moveToDeadLetter, scheduleRetry
<1> QED
  BY <1>1, <1>2, <1>3, <1>4

LEMMA LeaseInductive ==
  ASSUME Pace = "lease"
  PROVE  TypeOK /\ LeaseInv /\ [Next]_vars => LeaseInv'
<1> SUFFICES ASSUME TypeOK, LeaseInv, [Next]_vars PROVE LeaseInv'
  OBVIOUS
<1> USE DEF Present
<1>i. LiveRows /\ InLease /\ HeldRows /\ ExclusiveClaim /\ PickedRows
  BY DEF LeaseInv
<1>t. clock \in Nat /\ TableTypeOK /\ RelayTypeOK /\ HistoryTypeOK
      /\ LeaseDuration \in Nat
  BY SettingsAssumption DEF TypeOK
<1>l. ASSUME NEW r \in Relays
      PROVE  /\ relay[r] \in Relay /\ relay[r].stamp \in Nat
             /\ relay[r].pc \notin {"idle", "next"} => relay[r].cur \in Tasks
  BY <1>t DEF RelayTypeOK, Relay
<1>p. \A c \in Cleaners : pick[c] \subseteq Tasks
  BY <1>t DEF TableTypeOK
<1>n. NoRow.status = "absent" /\ NewRow.status = "pending"
  BY DEF NoRow, NewRow
(* A step that leaves the table alone and in which r stops working. *)
<1>q. ASSUME NEW r \in Relays, LetsGo(r),
             UNCHANGED <<clock, row, task, pick, scripted>>
      PROVE  LeaseInv'
  <2>1. LiveRows' /\ PickedRows'
    BY <1>i, <1>q DEF LiveRows, PickedRows
  <2>2. InLease' /\ HeldRows' /\ ExclusiveClaim'
    BY <1>i, <1>q DEF LetsGo, InLease, HeldRows, ExclusiveClaim, Holds, Working
  <2> QED
    BY <2>1, <2>2 DEF LeaseInv
(* A step in which no relay moves. *)
<1>u. ASSUME UNCHANGED <<clock, row, task, relay, pick, scripted>>
      PROVE  LeaseInv'
  BY <1>i, <1>u
  DEF LeaseInv, LiveRows, InLease, HeldRows, ExclusiveClaim, PickedRows, Holds, Working
<1>1. ASSUME NEW r \in Relays, NEW t \in Tasks, CreateAndEnqueue(r, t)
      PROVE  LeaseInv'
  <2>1. LetsGo(r)
    BY <1>1, <1>t, LetsGoSteps
  <2>2. /\ row' = [row EXCEPT ![t] = NewRow] /\ task' = [task EXCEPT ![t] = "live"]
        /\ UNCHANGED <<clock, pick, scripted>> /\ task[t] = "none"
    BY <1>1 DEF CreateAndEnqueue, history
  <2>3. \A s \in Relays : ~Holds(s, t)
    BY <1>i, <2>2 DEF InLease, Holds, Working
  <2>4. \A c \in Cleaners : t \notin pick[c] \ scripted
    BY <1>i, <2>2 DEF PickedRows
  <2>5. LiveRows'
    BY <1>i, <1>t, <2>2 DEF LiveRows, TableTypeOK
  <2>6. InLease'
    BY <1>i, <1>t, <1>l, <2>1, <2>2 DEF InLease, TableTypeOK, LetsGo, Working
  <2>7. HeldRows'
    BY <1>i, <1>t, <2>1, <2>2, <2>3 DEF HeldRows, TableTypeOK, LetsGo, Holds
  <2>8. ExclusiveClaim'
    BY <1>i, <2>1, <2>2 DEF ExclusiveClaim, LetsGo, Holds
  <2>9. PickedRows'
    BY <1>i, <1>t, <1>p, <2>2, <2>4 DEF PickedRows, TableTypeOK
  <2> QED
    BY <2>5, <2>6, <2>7, <2>8, <2>9 DEF LeaseInv
<1>2. ASSUME NEW r \in Relays, SelectPending(r) PROVE LeaseInv'
  BY <1>2, <1>t, <1>q, LetsGoSteps DEF SelectPending, rowVars, history
<1>3. ASSUME NEW r \in Relays, ReadMessage(r) PROVE LeaseInv'
  <2>1. PICK i \in relay[r].todo :
          IF Present(i.id)
            THEN Become(r, [relay[r] EXCEPT !.pc = "read", !.cur = i.id,
                              !.mem = row[i.id], !.todo = @ \ {i}])
            ELSE Return(r, i.id, relay[r].todo \ {i})
    BY <1>3 DEF ReadMessage
  <2>2. UNCHANGED <<clock, row, task, pick, scripted>>
    BY <1>3 DEF ReadMessage, rowVars, history
  <2>3. CASE ~Present(i.id)
    BY <1>t, <1>q, <2>1, <2>2, <2>3, LetsGoSteps
  <2>4. CASE Present(i.id)
    <3> DEFINE x == [relay[r] EXCEPT !.pc = "read", !.cur = i.id,
                       !.mem = row[i.id], !.todo = @ \ {i}]
    <3>1. x.pc = "read" /\ x.cur = i.id
      BY <1>l DEF Relay
    <3>2. i.id \in Tasks
      BY <1>l DEF Relay
    <3>3. /\ relay'[r].pc = "read" /\ relay'[r].cur = i.id
          /\ \A s \in Relays : s # r => relay'[s] = relay[s]
      <4>1. Become(r, x)
        BY <2>1, <2>4
      <4> HIDE DEF x
      <4> QED
        BY <1>t, <3>1, <4>1, Moves
    <3>4. LiveRows' /\ PickedRows'
      BY <1>i, <2>2 DEF LiveRows, PickedRows
    <3>5. task[i.id] = "live"
      BY <1>i, <2>4, <3>2 DEF LiveRows
    <3>6. InLease' /\ HeldRows' /\ ExclusiveClaim'
      BY <1>i, <2>2, <3>3, <3>5 DEF InLease, HeldRows, ExclusiveClaim, Holds, Working
    <3> QED
      BY <3>4, <3>6 DEF LeaseInv
  <2> QED
    BY <2>3, <2>4
<1>4. ASSUME NEW r \in Relays, TakeNow(r) PROVE LeaseInv'
  <2>2. UNCHANGED <<clock, row, task, pick, scripted>> /\ relay[r].pc = "read"
    BY <1>4 DEF TakeNow, rowVars, history
  <2>3. CASE ~isDispatchable(relay[r].mem, clock)
    BY <1>4, <1>t, <1>q, <2>2, <2>3, LetsGoSteps DEF TakeNow
  <2>4. CASE isDispatchable(relay[r].mem, clock)
    <3> DEFINE x == [relay[r] EXCEPT !.pc = "stamped", !.stamp = clock]
    <3>1. x.pc = "stamped" /\ x.stamp = clock /\ x.cur = relay[r].cur
      BY <1>l DEF Relay
    <3>2. /\ relay'[r].pc = "stamped" /\ relay'[r].stamp = clock
          /\ relay'[r].cur = relay[r].cur
          /\ \A s \in Relays : s # r => relay'[s] = relay[s]
      BY <1>4, <1>t, <2>4, <3>1, Moves DEF TakeNow
    <3>3. LiveRows' /\ PickedRows'
      BY <1>i, <2>2 DEF LiveRows, PickedRows
    <3>4. InLease'
      BY <1>i, <1>t, <2>2, <3>2 DEF InLease, Working
    <3>5. HeldRows' /\ ExclusiveClaim'
      BY <1>i, <2>2, <3>2 DEF HeldRows, ExclusiveClaim, Holds
    <3> QED
      BY <3>3, <3>4, <3>5 DEF LeaseInv
  <2> QED
    BY <2>3, <2>4
<1>5. ASSUME NEW r \in Relays, ClaimMessage(r) PROVE LeaseInv'
  <2> DEFINE t == relay[r].cur
             n == relay[r].stamp
  <2>1. UNCHANGED <<clock, task, pick, scripted>> /\ relay[r].pc = "stamped" /\ t \in Tasks
    BY <1>5, <1>l DEF ClaimMessage, history
  <2>2. CASE ~Claimable(t, relay[r].mem, n)
    BY <1>5, <1>t, <1>q, <2>1, <2>2, LetsGoSteps DEF ClaimMessage
  <2>3. CASE Claimable(t, relay[r].mem, n)
    <3>1. row' = [row EXCEPT ![t] = ClaimedRow(t, n)] /\ Goto(r, "claimed")
      BY <1>5, <2>3 DEF ClaimMessage
    <3>2. /\ relay'[r].pc = "claimed" /\ relay'[r].cur = t /\ relay'[r].stamp = n
          /\ \A s \in Relays : s # r => relay'[s] = relay[s]
      BY <1>t, <3>1, Moves
    <3>3. ClaimedRow(t, n).status = "claimed" /\ ClaimedRow(t, n).claimUntil = n + LeaseDuration
      BY <1>t, <2>1 DEF ClaimedRow, TableTypeOK, Row
    <3>4. row[t].status \in {"pending", "claimed"}
          /\ (row[t].status = "claimed" => row[t].claimUntil = Null \/ row[t].claimUntil < n)
      BY <2>3 DEF Claimable, isDispatchable
    (* Nobody else is within a lease on t. *)
    <3>5. ASSUME NEW s \in Relays, t \notin scripted PROVE ~Holds(s, t)
      <4> SUFFICES ASSUME Holds(s, t) PROVE FALSE
        OBVIOUS
      <4>1. row[t].status = "claimed" /\ row[t].claimUntil = relay[s].stamp + LeaseDuration
        BY <1>i, <2>1, <3>4, <3>5 DEF HeldRows
      <4>2. clock <= relay[s].stamp + LeaseDuration /\ n <= clock
        BY <1>i, <2>1 DEF InLease, Holds, Working
      <4> QED
        BY <1>t, <1>l, <3>4, <4>1, <4>2 DEF Null
    <3>6. LiveRows'
      BY <1>i, <1>t, <2>1, <3>1, <3>4 DEF LiveRows, TableTypeOK
    <3>7. InLease'
      BY <1>i, <2>1, <3>2 DEF InLease, Working
    <3>8. HeldRows'
      BY <1>i, <1>t, <2>1, <3>1, <3>2, <3>3, <3>5 DEF HeldRows, TableTypeOK, Holds
    <3>9. ExclusiveClaim'
      BY <1>i, <2>1, <3>2, <3>5 DEF ExclusiveClaim, Holds
    <3>10. PickedRows'
      BY <1>i, <1>t, <1>p, <2>1, <3>1, <3>4 DEF PickedRows, TableTypeOK, Terminal
    <3> QED
      BY <3>6, <3>7, <3>8, <3>9, <3>10 DEF LeaseInv
  <2> QED
    BY <2>2, <2>3
<1>6. ASSUME NEW r \in Relays, Dispatch(r) PROVE LeaseInv'
  <2>1. UNCHANGED <<clock, row, task, pick, scripted>> /\ relay[r].pc = "claimed"
    BY <1>6 DEF Dispatch, rowVars
  <2>2. PICK label \in {"sent", "failed"} : Goto(r, label)
    BY <1>6 DEF Dispatch
  <2>3. /\ relay'[r].pc \in {"sent", "failed"} /\ relay'[r].cur = relay[r].cur
        /\ relay'[r].stamp = relay[r].stamp
        /\ \A s \in Relays : s # r => relay'[s] = relay[s]
    BY <1>t, <2>2, Moves
  <2>4. LiveRows' /\ PickedRows'
    BY <1>i, <2>1 DEF LiveRows, PickedRows
  <2>5. \A s \in Relays : /\ (relay'[s].pc = "read") = (relay[s].pc = "read")
                          /\ Working(s)' = Working(s) /\ relay'[s].stamp = relay[s].stamp
                          /\ relay'[s].cur = relay[s].cur
                          /\ \A t \in Tasks : Holds(s, t)' = Holds(s, t)
    BY <2>1, <2>3 DEF Working, Holds
  <2>6. InLease' /\ HeldRows' /\ ExclusiveClaim'
    BY <1>i, <2>1, <2>5 DEF InLease, HeldRows, ExclusiveClaim
  <2> QED
    BY <2>4, <2>6 DEF LeaseInv
<1>7. ASSUME NEW r \in Relays, Close(r) PROVE LeaseInv'
  <2> DEFINE t == relay[r].cur
  <2>1. LetsGo(r) /\ UNCHANGED <<clock, task, pick, scripted>>
    BY <1>7, <1>t, LetsGoSteps DEF Close
  <2>2. CASE row' = row
    BY <1>q, <2>1, <2>2
  <2>3. CASE row' # row
    <3>1. PICK x : /\ row' = [row EXCEPT ![t] = x]
                   /\ x.status \in {"pending", "dispatched", "dead_letter"}
      BY <1>7, <2>3, CloseWrites
    <3>2. Present(t) /\ Holds(r, t) /\ t \in Tasks
      BY <1>7, <2>3, CloseWrites
    <3>3. LiveRows'
      BY <1>i, <1>t, <2>1, <3>1, <3>2 DEF LiveRows, TableTypeOK
    <3>4. InLease' /\ ExclusiveClaim'
      BY <1>i, <2>1 DEF InLease, ExclusiveClaim, LetsGo, Holds, Working
    <3>5. \A s \in Relays : s # r /\ t \notin scripted => ~Holds(s, t)
      BY <1>i, <3>2 DEF ExclusiveClaim
    <3>6. HeldRows'
      BY <1>i, <1>t, <2>1, <3>1, <3>2, <3>5 DEF HeldRows, TableTypeOK, LetsGo, Holds
    <3>7. t \in scripted \/ row[t].status \notin Terminal
      BY <1>i, <3>2 DEF HeldRows, Terminal
    <3>8. PickedRows'
      BY <1>i, <1>t, <1>p, <2>1, <3>1, <3>2, <3>7 DEF PickedRows, TableTypeOK
    <3> QED
      BY <3>3, <3>4, <3>6, <3>8 DEF LeaseInv
  <2> QED
    BY <2>2, <2>3
<1>8. ASSUME NEW r \in Relays, Recheck(r) PROVE LeaseInv'
  BY <1>8, <1>t, <1>q, LetsGoSteps DEF Recheck, rowVars, history
<1>9. ASSUME NEW r \in Relays, Crash(r) PROVE LeaseInv'
  BY <1>9, <1>t, <1>q, LetsGoSteps DEF Crash, rowVars
<1>10. ASSUME NEW t \in Tasks, DeleteTask(t) PROVE LeaseInv'
  <2>1. /\ task' = [task EXCEPT ![t] = "deleted"] /\ row' = [row EXCEPT ![t] = NoRow]
        /\ UNCHANGED <<clock, relay, pick, scripted>>
    BY <1>10 DEF DeleteTask, history
  <2>2. LiveRows' /\ PickedRows'
    BY <1>i, <1>t, <1>p, <1>n, <2>1 DEF LiveRows, PickedRows, TableTypeOK
  <2>3. InLease'
    BY <1>i, <1>t, <1>l, <2>1 DEF InLease, Working, TableTypeOK
  <2>4. HeldRows' /\ ExclusiveClaim'
    BY <1>i, <1>t, <1>n, <2>1 DEF HeldRows, ExclusiveClaim, Holds, TableTypeOK
  <2> QED
    BY <2>2, <2>3, <2>4 DEF LeaseInv
<1>11. ASSUME NEW t \in Tasks, Consume(t) PROVE LeaseInv'
  BY <1>11, <1>u DEF Consume, rowVars, history
<1>12. ASSUME NEW t \in Tasks, NEW x, NEW cond, x.status = "pending", Script(t, cond, x)
       PROVE  LeaseInv'
  <2>1. /\ row' = [row EXCEPT ![t] = x] /\ Present(t)
        /\ scripted' = scripted \cup {t}
        /\ UNCHANGED <<clock, task, relay, pick>>
    BY <1>12 DEF Script
  <2>2. LiveRows' /\ PickedRows'
    BY <1>i, <1>t, <1>p, <2>1 DEF LiveRows, PickedRows, TableTypeOK
  <2>3. InLease' /\ HeldRows' /\ ExclusiveClaim'
    BY <1>i, <1>t, <2>1 DEF InLease, HeldRows, ExclusiveClaim, Holds, Working, TableTypeOK
  <2> QED
    BY <2>2, <2>3 DEF LeaseInv
<1>13. ASSUME NEW t \in Tasks, RequeueById(t) \/ RequeueByTask(t) \/ ClearLease(t)
       PROVE  LeaseInv'
  <2>1. /\ RequeuedRow(t).status = "pending"
        /\ [RequeuedRow(t) EXCEPT !.retained = row[t].retained].status = "pending"
    BY <1>t DEF RequeuedRow, TableTypeOK, Row
  <2> QED
    BY <1>13, <1>12, <2>1 DEF RequeueById, RequeueByTask, ClearLease
<1>14. ASSUME NEW c \in Cleaners, CleanupSelect(c) PROVE LeaseInv'
  <2>1. PICK S \in SUBSET {t \in Tasks : Expired(t)} : pick' = [pick EXCEPT ![c] = S]
    BY <1>14 DEF CleanupSelect, FirstBy
  <2>2. UNCHANGED <<clock, row, task, relay, scripted>>
    BY <1>14 DEF CleanupSelect, rowVars, history
  <2>3. \A t \in S : row[t].status \in Terminal /\ row[t].retained < clock /\ task[t] = "live"
    BY <1>i, <2>1 DEF Expired, LiveRows, Terminal
  <2>4. PickedRows'
    BY <1>i, <1>t, <2>1, <2>2, <2>3 DEF PickedRows, TableTypeOK
  <2>5. LiveRows' /\ InLease' /\ HeldRows' /\ ExclusiveClaim'
    BY <1>i, <2>2 DEF LiveRows, InLease, HeldRows, ExclusiveClaim, Holds, Working
  <2> QED
    BY <2>4, <2>5 DEF LeaseInv
<1>15. ASSUME NEW c \in Cleaners, CleanupDelete(c) PROVE LeaseInv'
  <2>1. /\ row' = [t \in Tasks |-> IF t \in pick[c] THEN NoRow ELSE row[t]]
        /\ pick' = [pick EXCEPT ![c] = {}]
        /\ UNCHANGED <<clock, task, relay, scripted>>
    BY <1>15 DEF CleanupDelete, history
  <2>2. LiveRows' /\ PickedRows'
    BY <1>i, <1>t, <1>p, <1>n, <2>1 DEF LiveRows, PickedRows, TableTypeOK
  <2>3. InLease' /\ HeldRows' /\ ExclusiveClaim'
    BY <1>i, <1>t, <1>n, <2>1 DEF InLease, HeldRows, ExclusiveClaim, Holds, Working, TableTypeOK
  <2> QED
    BY <2>2, <2>3 DEF LeaseInv
<1>16. CASE Tick
  <2>1. /\ clock' = clock + 1 /\ UNCHANGED <<row, task, relay, pick, scripted>>
        /\ \A r \in Relays : Working(r) => clock < relay[r].stamp + LeaseDuration
    BY <1>16 DEF Tick, rowVars, history
  <2>2. LiveRows' /\ HeldRows' /\ ExclusiveClaim'
    BY <1>i, <2>1 DEF LiveRows, HeldRows, ExclusiveClaim, Holds
  <2>3. InLease'
    BY <1>i, <1>t, <1>l, <2>1 DEF InLease, Working
  <2>4. \A t \in Tasks : row[t].retained \in Int
    BY <1>t DEF TableTypeOK, Row, Time, Null
  <2>5. PickedRows'
    BY <1>i, <1>t, <1>p, <2>1, <2>4 DEF PickedRows
  <2> QED
    BY <2>2, <2>3, <2>5 DEF LeaseInv
<1>17. CASE UNCHANGED vars
  BY <1>17, <1>u DEF vars, rowVars, history
<1> QED
  BY <1>1, <1>2, <1>3, <1>4, <1>5, <1>6, <1>7, <1>8, <1>9, <1>10, <1>11,
     <1>13, <1>14, <1>15, <1>16, <1>17
  DEF Next, RelayStep

(* The lease is a lock: if every relay finishes within its lease, two       *)
(* relays never hold the same message at once, unless an operator reset it. *)
THEOREM LeaseExcludes ==
  ASSUME Pace = "lease"
  PROVE  Spec => []ExclusiveClaim
<1>1. Init => LeaseInv
  BY DEF Init, LeaseInv, LiveRows, InLease, HeldRows, ExclusiveClaim, PickedRows,
         Holds, Working, Present, NoRow, IdleRelay
<1>2. LeaseInv => ExclusiveClaim
  BY DEF LeaseInv
<1> QED
  BY <1>1, <1>2, TypeCorrect, LeaseInductive, PTL DEF Spec

(* Deleting a row takes a task deletion or the cleanup job. *)
LEMMA WhoDeletes ==
  ASSUME TypeOK, [Next]_vars, NEW t \in Tasks, Present(t), row'[t].status = "absent"
  PROVE  DeleteTask(t) \/ \E c \in Cleaners : CleanupDelete(c) /\ t \in pick[c]
<1> SUFFICES ASSUME ~DeleteTask(t), ~\E c \in Cleaners : CleanupDelete(c) /\ t \in pick[c]
             PROVE  row'[t].status # "absent"
  OBVIOUS
<1> USE DEF Present
<1>t. TableTypeOK /\ RelayTypeOK
  BY DEF TypeOK
<1>q. ASSUME row' = row PROVE row'[t].status # "absent"
  BY <1>q
<1>1. ASSUME NEW r \in Relays, NEW u \in Tasks, CreateAndEnqueue(r, u)
      PROVE  row'[t].status # "absent"
  BY <1>1, <1>t DEF CreateAndEnqueue, TableTypeOK, NewRow, NoRow
<1>2. ASSUME NEW r \in Relays, ClaimMessage(r) PROVE row'[t].status # "absent"
  <2>1. ClaimedRow(t, relay[r].stamp).status = "claimed"
    BY <1>t DEF ClaimedRow, TableTypeOK, Row
  <2>2. \/ row' = row
        \/ row' = [row EXCEPT ![relay[r].cur] = ClaimedRow(relay[r].cur, relay[r].stamp)]
    BY <1>2 DEF ClaimMessage
  <2>3. CASE relay[r].cur = t
    BY <1>t, <1>q, <2>1, <2>2, <2>3 DEF TableTypeOK
  <2>4. CASE relay[r].cur # t
    BY <1>t, <1>q, <2>2, <2>4 DEF TableTypeOK
  <2> QED
    BY <2>3, <2>4
<1>3. ASSUME NEW r \in Relays, Close(r) PROVE row'[t].status # "absent"
  <2>1. \/ row' = row
        \/ \E x : /\ row' = [row EXCEPT ![relay[r].cur] = x]
                  /\ x.status \in {"pending", "dispatched", "dead_letter"}
    BY <1>3, CloseWrites
  <2> QED
    BY <1>t, <1>q, <2>1 DEF TableTypeOK
<1>4. ASSUME NEW u \in Tasks, DeleteTask(u) PROVE row'[t].status # "absent"
  BY <1>4, <1>t DEF DeleteTask, TableTypeOK
<1>5. ASSUME NEW u \in Tasks, NEW x, NEW cond, x.status = "pending", Script(u, cond, x)
      PROVE  row'[t].status # "absent"
  BY <1>5, <1>t DEF Script, TableTypeOK
<1>6. ASSUME NEW u \in Tasks, RequeueById(u) \/ RequeueByTask(u) \/ ClearLease(u)
      PROVE  row'[t].status # "absent"
  <2>1. /\ RequeuedRow(u).status = "pending"
        /\ [RequeuedRow(u) EXCEPT !.retained = row[u].retained].status = "pending"
    BY <1>t DEF RequeuedRow, TableTypeOK, Row
  <2> QED
    BY <1>6, <1>5, <2>1 DEF RequeueById, RequeueByTask, ClearLease
<1>7. ASSUME NEW c \in Cleaners, CleanupDelete(c) PROVE row'[t].status # "absent"
  BY <1>7 DEF CleanupDelete
<1>8. ASSUME NEW r \in Relays,
             \/ SelectPending(r) \/ ReadMessage(r) \/ TakeNow(r)
             \/ Dispatch(r) \/ Recheck(r) \/ Crash(r)
      PROVE  row'[t].status # "absent"
  BY <1>8, <1>q
  DEF SelectPending, ReadMessage, TakeNow, Dispatch, Recheck, Crash, rowVars
<1>9. ASSUME NEW u \in Tasks, Consume(u) PROVE row'[t].status # "absent"
  BY <1>9, <1>q DEF Consume, rowVars
<1>10. ASSUME NEW c \in Cleaners, CleanupSelect(c) PROVE row'[t].status # "absent"
  BY <1>10, <1>q DEF CleanupSelect, rowVars
<1>11. CASE Tick \/ UNCHANGED vars
  BY <1>11, <1>q DEF Tick, vars, rowVars
<1> QED
  BY <1>1, <1>2, <1>3, <1>4, <1>6, <1>7, <1>8, <1>9, <1>10, <1>11
  DEF Next, RelayStep

(* Within the lease assumption, cleanup deletes only settled rows past      *)
(* their retention, although its DELETE does not look at the rows again.    *)
THEOREM CleanupSafe ==
  ASSUME Pace = "lease"
  PROVE  Spec => CleanupSparesLive
<1>1. Init => LeaseInv
  BY DEF Init, LeaseInv, LiveRows, InLease, HeldRows, ExclusiveClaim, PickedRows,
         Holds, Working, Present, NoRow, IdleRelay
<1>2. ASSUME TypeOK, LeaseInv, [Next]_vars
      PROVE  \A t \in Tasks \ scripted :
               Present(t) /\ row'[t].status = "absent" /\ task'[t] = "live"
                 => row[t].status \in Terminal /\ row[t].retained < clock
  <2> SUFFICES ASSUME NEW t \in Tasks \ scripted, Present(t),
                      row'[t].status = "absent", task'[t] = "live"
               PROVE  row[t].status \in Terminal /\ row[t].retained < clock
    OBVIOUS
  <2>1. ~DeleteTask(t)
    BY <1>2 DEF DeleteTask, TypeOK, TableTypeOK
  <2>2. PICK c \in Cleaners : t \in pick[c]
    BY <1>2, <2>1, WhoDeletes
  <2> QED
    BY <1>2, <2>2 DEF LeaseInv, PickedRows
<1>3. TypeOK /\ LeaseInv /\ [Next]_vars
        => [\A t \in Tasks \ scripted :
              Present(t) /\ row'[t].status = "absent" /\ task'[t] = "live"
                => row[t].status \in Terminal /\ row[t].retained < clock]_vars
  BY <1>2
<1> QED
  BY <1>1, <1>3, TypeCorrect, LeaseInductive, PTL DEF Spec, CleanupSparesLive

-----------------------------------------------------------------------------
(* The refinement.  The abstract state of a step that writes one row, or    *)
(* none.                                                                    *)
LEMMA RowWrite ==
  ASSUME TypeOK, enqueued' = enqueued
  PROVE  /\ row' = row => UNCHANGED Lifecycle!vars
         /\ \A t \in Tasks : \A x : row' = [row EXCEPT ![t] = x] =>
              \A from : row[t].status = from => Lifecycle!Move(t, from, x.status)
<1>1. ASSUME row' = row PROVE UNCHANGED Lifecycle!vars
  BY <1>1 DEF Lifecycle!vars
<1>2. ASSUME NEW t \in Tasks, NEW x, row' = [row EXCEPT ![t] = x]
      PROVE  Lifecycle!Move(t, row[t].status, x.status)
  BY <1>2 DEF Lifecycle!Move, TypeOK, TableTypeOK
<1> QED
  BY <1>1, <1>2

(* Without operator updates, every statement of a relay, a request or the  *)
(* cleanup job is a transition of the documented life cycle or leaves the  *)
(* life cycle alone; a take-over of an expired claim is the latter.        *)
LEMMA LifecycleStep ==
  ASSUME TypeOK, HandOverInv, LeaseInv, scripted = {}, MaxScripts = 0, [Next]_vars
  PROVE  [Lifecycle!Next]_(Lifecycle!vars)
<1> USE DEF Present
<1>i. LiveRows /\ HeldRows /\ PickedRows
  BY DEF LeaseInv
<1>t. TableTypeOK /\ RelayTypeOK /\ HistoryTypeOK
  BY DEF TypeOK
<1>l. ASSUME NEW r \in Relays, relay[r].pc \notin {"idle", "next"}
      PROVE  relay[r].cur \in Tasks
  BY <1>t, <1>l DEF RelayTypeOK
<1>n. NoRow.status = "absent" /\ NewRow.status = "pending"
  BY DEF NoRow, NewRow
<1>0. ASSUME row' = row, enqueued' = enqueued PROVE UNCHANGED Lifecycle!vars
  BY <1>0, RowWrite
<1>1. ASSUME NEW r \in Relays, NEW t \in Tasks, CreateAndEnqueue(r, t)
      PROVE  Lifecycle!Next
  <2>1. row' = [row EXCEPT ![t] = NewRow] /\ enqueued' = enqueued /\ task[t] = "none"
    BY <1>1 DEF CreateAndEnqueue, history
  <2>2. row[t].status = "absent"
    BY <1>i, <2>1 DEF LiveRows
  <2>3. Lifecycle!Move(t, "absent", "pending")
    BY <1>n, <2>1, <2>2, RowWrite
  <2> QED
    BY <2>3 DEF Lifecycle!Next, Lifecycle!Insert
<1>2. ASSUME NEW r \in Relays, ClaimMessage(r)
      PROVE  Lifecycle!Next \/ UNCHANGED Lifecycle!vars
  <2> DEFINE t == relay[r].cur
             x == ClaimedRow(t, relay[r].stamp)
  <2>1. enqueued' = enqueued /\ t \in Tasks
    BY <1>2, <1>l DEF ClaimMessage, history
  <2>2. x.status = "claimed"
    BY <1>t, <2>1 DEF ClaimedRow, TableTypeOK, Row
  <2>3. CASE row' = row
    BY <1>0, <2>1, <2>3
  <2>4. CASE row' # row
    <3>1. row' = [row EXCEPT ![t] = x] /\ row[t].status \in {"pending", "claimed"}
      BY <1>2, <2>4 DEF ClaimMessage, Claimable, isDispatchable
    <3>2. Lifecycle!Move(t, row[t].status, "claimed")
      <4> HIDE DEF x
      <4> QED BY <2>1, <2>2, <3>1, RowWrite
    <3>3. CASE row[t].status = "pending"
      BY <2>1, <3>2, <3>3 DEF Lifecycle!Next, Lifecycle!Claim
    <3>4. CASE row[t].status = "claimed"
      BY <2>1, <3>2, <3>4 DEF Lifecycle!Move, Lifecycle!vars
    <3> QED
      BY <3>1, <3>3, <3>4
  <2> QED
    BY <2>3, <2>4
<1>3. ASSUME NEW r \in Relays, Dispatch(r)
      PROVE  Lifecycle!Next \/ UNCHANGED Lifecycle!vars
  <2> DEFINE t == relay[r].cur
  <2>1. /\ relay[r].pc = "claimed" /\ row' = row
        /\ enqueued' = enqueued \/ enqueued' = enqueued \cup {t}
    BY <1>3 DEF Dispatch, rowVars
  <2>2. t \in Tasks /\ Holds(r, t)
    BY <1>l, <2>1 DEF Holds
  <2>3. row[t].status \in {"claimed", "absent"}
    BY <1>i, <2>2 DEF HeldRows
  <2>4. CASE enqueued' = enqueued
    BY <1>0, <2>1, <2>4
  <2>5. CASE enqueued' = enqueued \cup {t}
    <3>1. Lifecycle!HandOver(t)
      BY <2>1, <2>2, <2>3, <2>5 DEF Lifecycle!HandOver
    <3> QED
      BY <2>2, <3>1 DEF Lifecycle!Next
  <2> QED
    BY <2>1, <2>4, <2>5
<1>4. ASSUME NEW r \in Relays, Close(r)
      PROVE  Lifecycle!Next \/ UNCHANGED Lifecycle!vars
  <2> DEFINE t == relay[r].cur
             m == relay[r].mem
             n == relay[r].stamp
  <2>1. t \in Tasks /\ Holds(r, t) /\ enqueued' = enqueued
    BY <1>4, CloseWrites DEF Close
  <2>2. CASE ~Present(t)
    <3>1. row' = row
      BY <1>4, <2>2 DEF Close, markDispatched, scheduleRetry, moveToDeadLetter, Update
    <3> QED BY <1>0, <2>1, <3>1
  <2>3. CASE Present(t)
    <3>1. row[t].status = "claimed"
      BY <1>i, <2>1, <2>3 DEF HeldRows
    <3>2. ASSUME NEW x, Update(t, x) PROVE Lifecycle!Move(t, "claimed", x.status)
      BY <2>1, <2>3, <3>1, <3>2, RowWrite DEF Update
    <3>3. /\ DispatchedRow(m, n).status = "dispatched"
          /\ DeadLetterRow(m, n).status = "dead_letter"
          /\ RetryRow(t, m, n).status = "pending"
      BY DEF DispatchedRow, DeadLetterRow, RetryRow
    <3>4. ASSUME moveToDeadLetter(r) PROVE Lifecycle!Next
      <4>1. Lifecycle!Move(t, "claimed", "dead_letter")
        BY <3>2, <3>3, <3>4 DEF moveToDeadLetter
      <4> QED BY <2>1, <4>1 DEF Lifecycle!Next, Lifecycle!Bury
    <3>5. ASSUME scheduleRetry(r) PROVE Lifecycle!Next
      <4>1. Lifecycle!Move(t, "claimed", "pending")
        BY <3>2, <3>3, <3>5 DEF scheduleRetry
      <4> QED BY <2>1, <4>1 DEF Lifecycle!Next, Lifecycle!Retry
    <3>6. ASSUME relay[r].pc = "sent", markDispatched(r) PROVE Lifecycle!Next
      <4>1. Lifecycle!Move(t, "claimed", "dispatched")
        BY <3>2, <3>3, <3>6 DEF markDispatched
      <4>2. t \in enqueued
        BY <3>6 DEF HandOverInv
      <4> QED BY <2>1, <4>1, <4>2 DEF Lifecycle!Next, Lifecycle!Settle
    <3> QED
      BY <1>4, <3>4, <3>5, <3>6 DEF Close
  <2> QED
    BY <2>2, <2>3
<1>5. ASSUME NEW t \in Tasks, DeleteTask(t)
      PROVE  Lifecycle!Next \/ UNCHANGED Lifecycle!vars
  <2>1. row' = [row EXCEPT ![t] = NoRow] /\ enqueued' = enqueued
    BY <1>5 DEF DeleteTask, history
  <2>2. Lifecycle!Move(t, row[t].status, "absent")
    BY <1>n, <2>1, RowWrite
  <2>3. CASE row[t].status = "absent"
    BY <1>t, <2>1, <2>2, <2>3 DEF Lifecycle!Move, Lifecycle!vars
  <2>4. CASE row[t].status # "absent"
    <3>1. Lifecycle!Delete(t)
      BY <2>2, <2>4 DEF Lifecycle!Delete
    <3> QED BY <3>1 DEF Lifecycle!Next
  <2> QED BY <2>3, <2>4
<1>6. ASSUME NEW t \in Tasks, RequeueById(t) \/ RequeueByTask(t) \/ ClearLease(t)
      PROVE  FALSE
  BY <1>6, <1>t DEF RequeueById, RequeueByTask, ClearLease, Script, HistoryTypeOK
<1>7. ASSUME NEW c \in Cleaners, CleanupDelete(c) PROVE Lifecycle!Next
  <2> DEFINE S == pick[c]
  <2>1. /\ row' = [t \in Tasks |-> IF t \in S THEN NoRow ELSE row[t]]
        /\ enqueued' = enqueued
    BY <1>7 DEF CleanupDelete, history
  <2>2. S \in SUBSET Tasks
    BY <1>t DEF TableTypeOK
  <2>3. \A t \in S : row[t].status \in {"dispatched", "dead_letter", "absent"}
    BY <1>i DEF PickedRows, Terminal
  <2> HIDE DEF S
  <2>4. Lifecycle!Purge(S)
    BY <1>n, <2>1, <2>2, <2>3 DEF Lifecycle!Purge
  <2> QED
    BY <2>2, <2>4 DEF Lifecycle!Next, Lifecycle!Purge
<1>8. ASSUME NEW r \in Relays,
             \/ SelectPending(r) \/ ReadMessage(r) \/ TakeNow(r) \/ Recheck(r) \/ Crash(r)
      PROVE  UNCHANGED Lifecycle!vars
  BY <1>0, <1>8 DEF SelectPending, ReadMessage, TakeNow, Recheck, Crash, rowVars, history
<1>9. ASSUME NEW t \in Tasks, Consume(t) PROVE UNCHANGED Lifecycle!vars
  BY <1>0, <1>9 DEF Consume, rowVars, history
<1>10. ASSUME NEW c \in Cleaners, CleanupSelect(c) PROVE UNCHANGED Lifecycle!vars
  BY <1>0, <1>10 DEF CleanupSelect, rowVars, history
<1>11. ASSUME Tick \/ UNCHANGED vars PROVE UNCHANGED Lifecycle!vars
  BY <1>0, <1>11 DEF Tick, vars, rowVars, history
<1> QED
  BY <1>1, <1>2, <1>3, <1>4, <1>5, <1>6, <1>7, <1>8, <1>9, <1>10, <1>11
  DEF Next, RelayStep

(* The relays, the requests and the cleanup job implement the documented    *)
(* message life cycle: pending, claimed, then dispatched, dead letter or    *)
(* pending again, a settled row only ever deleted, and nothing marked       *)
(* dispatched that the queue did not accept.  It takes relays that finish   *)
(* within their lease and no operator updates; crashes are allowed.         *)
THEOREM LifecycleImplemented ==
  ASSUME Pace = "lease", MaxScripts = 0
  PROVE  Spec => ImplementsLifecycle
<1> DEFINE I == TypeOK /\ HandOverInv /\ LeaseInv /\ scripted = {}
<1>1. Init => I /\ Lifecycle!Init
  <2> SUFFICES ASSUME Init PROVE I /\ Lifecycle!Init
    OBVIOUS
  <2>1. TypeOK
    BY IdleType
    DEF Init, TypeOK, TableTypeOK, RelayTypeOK, HistoryTypeOK, Row, NoRow,
        IdleRelay, Statuses, Time, Null
  <2>2. HandOverInv
    BY DEF Init, HandOverInv, DispatchedReachedQueue, NoSilentLoss, NoRow, IdleRelay
  <2>3. LeaseInv
    BY DEF Init, LeaseInv, LiveRows, InLease, HeldRows, ExclusiveClaim, PickedRows,
           Holds, Working, Present, NoRow, IdleRelay
  <2>4. Lifecycle!Init
    BY DEF Init, Lifecycle!Init, NoRow
  <2> QED
    BY <2>1, <2>2, <2>3, <2>4 DEF Init
<1>2. I /\ [Next]_vars => I'
  <2> SUFFICES ASSUME I, [Next]_vars PROVE I'
    OBVIOUS
  <2>1. TypeOK' /\ HandOverInv' /\ LeaseInv'
    BY TypeInductive, HandOverInductive, LeaseInductive
  <2>2. ASSUME NEW t \in Tasks, RequeueById(t) \/ RequeueByTask(t) \/ ClearLease(t)
        PROVE  FALSE
    BY <2>2 DEF RequeueById, RequeueByTask, ClearLease, Script, TypeOK, HistoryTypeOK
  <2>3. scripted' = scripted
    BY <2>2
    DEF Next, RelayStep, CreateAndEnqueue, SelectPending, ReadMessage, TakeNow,
        ClaimMessage, Dispatch, Close, Recheck, Crash, DeleteTask, Consume,
        CleanupSelect, CleanupDelete, Tick, vars, history
  <2> QED
    BY <2>1, <2>3
<1>3. I /\ [Next]_vars => [Lifecycle!Next]_(Lifecycle!vars)
  BY LifecycleStep
<1> HIDE DEF I
<1> QED
  BY <1>1, <1>2, <1>3, PTL DEF Spec, ImplementsLifecycle, Lifecycle!Spec

-----------------------------------------------------------------------------
(* Strengthening for the retry budget, when every run ends in the period it *)
(* started in.  A run past its read works on an existing task, and its      *)
(* stamp is the present period; a task not yet created was never called     *)
(* for.                                                                     *)
Known  == \A r \in Relays :
            relay[r].pc = "read" \/ Working(r) => task[relay[r].cur] # "none"
Stamps == \A r \in Relays : Working(r) => relay[r].stamp = clock
Unborn == \A t \in Tasks : task[t] = "none" => calls[t] = 0

(* A copy read in this period counts the attempts of the row, or the row    *)
(* is not due any more: whoever claimed it set a lease that ends later, and *)
(* whoever closed it settled it or put the next attempt off.                *)
Copies ==
  \A r \in Relays : \A t \in Tasks \ scripted :
    /\ relay[r].pc \in {"read", "stamped"} /\ relay[r].cur = t
    /\ isDispatchable(row[t], clock)
    => relay[r].mem.attempts = row[t].attempts

(* What a relay that holds t has charged to the message: its own call is    *)
(* not in attempt_count before the closing update.                          *)
Charged(r, t) ==
  /\ relay[r].mem.attempts < MaxAttempts
  /\ calls[t] <= relay[r].mem.attempts + 1 + crashes
  /\ relay[r].pc = "claimed" => calls[t] <= relay[r].mem.attempts + crashes
  /\ \/ row[t].status = "absent"
     \/ /\ row[t].status = "claimed" /\ row[t].claimUntil = clock + LeaseDuration
        /\ row[t].attempts = relay[r].mem.attempts
Charges ==
  \A r \in Relays : \A t \in Tasks \ scripted : Holds(r, t) => Charged(r, t)

(* A relayable row has an attempt left, and if no relay holds it then       *)
(* attempt_count accounts for every call that no crash has hidden.          *)
Room ==
  \A t \in Tasks \ scripted :
    row[t].status \in {"pending", "claimed"} =>
      /\ row[t].attempts < MaxAttempts
      /\ (\A r \in Relays : ~Holds(r, t)) => calls[t] <= row[t].attempts + crashes

BudgetInv == /\ LiveRows /\ Known /\ Stamps /\ Unborn
             /\ Copies /\ Charges /\ ExclusiveClaim /\ Room /\ RetryBudget

(* A closing update settles the row, or counts the attempt and puts the     *)
(* next one off.                                                            *)
LEMMA CloseCounts ==
  ASSUME TypeOK, NEW r \in Relays, Close(r), Present(relay[r].cur)
  PROVE  \E x : /\ row' = [row EXCEPT ![relay[r].cur] = x]
                /\ x.status \in {"pending", "dispatched", "dead_letter"}
                /\ x.status = "pending" =>
                     /\ x.attempts = relay[r].mem.attempts + 1
                     /\ x.attempts < MaxAttempts
                     /\ ~isDispatchable(x, relay[r].stamp)
<1> DEFINE t == relay[r].cur
           m == relay[r].mem
           n == relay[r].stamp
<1>1. m.attempts \in Nat /\ n \in Nat /\ MaxAttempts \in Nat
  BY SettingsAssumption DEF TypeOK, RelayTypeOK, Relay, Row
<1>2. /\ DispatchedRow(m, n).status = "dispatched"
      /\ DeadLetterRow(m, n).status = "dead_letter"
  BY DEF DispatchedRow, DeadLetterRow
<1>3. /\ RetryRow(t, m, n).status = "pending"
      /\ RetryRow(t, m, n).attempts = m.attempts + 1
      /\ ~isDispatchable(RetryRow(t, m, n), n)
  BY <1>1 DEF RetryRow, backoffForAttempt, isDispatchable, Null
<1>4. \/ Update(t, DispatchedRow(m, n))
      \/ Update(t, DeadLetterRow(m, n))
      \/ Update(t, RetryRow(t, m, n)) /\ ~shouldDeadLetter(m)
  BY DEF Close, markDispatched, moveToDeadLetter, scheduleRetry
<1>5. CASE Update(t, DispatchedRow(m, n))
  <2> HIDE DEF t, m, n
  <2> QED BY <1>2, <1>5 DEF Update, t
<1>6. CASE Update(t, DeadLetterRow(m, n))
  <2> HIDE DEF t, m, n
  <2> QED BY <1>2, <1>6 DEF Update, t
<1>7. CASE Update(t, RetryRow(t, m, n)) /\ ~shouldDeadLetter(m)
  <2> DEFINE x == RetryRow(t, m, n)
  <2>1. x.attempts < MaxAttempts
    BY <1>1, <1>3, <1>7 DEF shouldDeadLetter
  <2>2. row' = [row EXCEPT ![t] = x]
    BY <1>7 DEF Update
  <2> HIDE DEF x
  <2> QED BY <1>3, <2>1, <2>2 DEF x
<1> QED
  BY <1>4, <1>5, <1>6, <1>7

LEMMA BudgetInductive ==
  ASSUME Pace = "round"
  PROVE  TypeOK /\ BudgetInv /\ [Next]_vars => BudgetInv'
<1> SUFFICES ASSUME TypeOK, BudgetInv, [Next]_vars PROVE BudgetInv'
  OBVIOUS
<1> USE DEF Present
<1>i. /\ LiveRows /\ Known /\ Stamps /\ Unborn
      /\ Copies /\ Charges /\ ExclusiveClaim /\ Room /\ RetryBudget
  BY DEF BudgetInv
<1>t. /\ clock \in Nat /\ TableTypeOK /\ RelayTypeOK /\ HistoryTypeOK
      /\ LeaseDuration \in Nat /\ MaxAttempts \in Nat \ {0}
  BY SettingsAssumption DEF TypeOK
<1>l. ASSUME NEW r \in Relays
      PROVE  /\ relay[r] \in Relay /\ relay[r].stamp \in Nat
             /\ relay[r].mem.attempts \in Nat
             /\ relay[r].pc \notin {"idle", "next"} => relay[r].cur \in Tasks
  BY <1>t DEF RelayTypeOK, Relay, Row
<1>m. ASSUME NEW t \in Tasks PROVE row[t].attempts \in Nat /\ calls[t] \in Nat
  BY <1>t DEF TableTypeOK, HistoryTypeOK, Row
<1>c. crashes \in Nat
  BY <1>t DEF HistoryTypeOK
<1>n. NoRow.status = "absent" /\ NewRow.status = "pending" /\ NewRow.attempts = 0
  BY DEF NoRow, NewRow
<1>z. \A m, n : m.status = "absent" => ~isDispatchable(m, n)
  BY DEF isDispatchable
(* A step that leaves the table alone and in which r stops working: if r    *)
(* held a message it crashed, or its row is gone.                           *)
<1>q. ASSUME NEW r \in Relays, LetsGo(r),
             UNCHANGED <<clock, row, task, scripted, calls>>,
             crashes' = crashes \/ crashes' = crashes + 1,
             \A t \in Tasks : Holds(r, t) => crashes' = crashes + 1 \/ ~Present(t)
      PROVE  BudgetInv'
  <2>1. LiveRows' /\ Unborn' /\ Known' /\ Stamps'
    BY <1>i, <1>q DEF LiveRows, Unborn, Known, Stamps, LetsGo, Working
  <2>2. Copies' /\ ExclusiveClaim'
    BY <1>i, <1>q DEF Copies, ExclusiveClaim, LetsGo, Holds
  <2>3. Charges'
    <3> SUFFICES ASSUME NEW s \in Relays, NEW t \in Tasks \ scripted', Holds(s, t)'
                 PROVE  Charged(s, t)'
      BY DEF Charges
    <3>1. relay'[s] = relay[s] /\ Holds(s, t)
      BY <1>q DEF LetsGo, Holds
    <3>2. Charged(s, t)
      BY <1>i, <1>q, <3>1 DEF Charges
    <3> QED
      BY <1>q, <1>l, <1>m, <1>c, <3>1, <3>2 DEF Charged
  <2>4. Room'
    <3> SUFFICES ASSUME NEW t \in Tasks \ scripted', row[t].status \in {"pending", "claimed"}
                 PROVE  /\ row[t].attempts < MaxAttempts
                        /\ (\A s \in Relays : ~Holds(s, t)')
                             => calls[t] <= row[t].attempts + crashes'
      BY <1>q DEF Room
    <3>1. row[t].attempts < MaxAttempts
      BY <1>i, <1>q DEF Room
    <3>2. CASE Holds(r, t)
      <4>1. Charged(r, t) /\ crashes' = crashes + 1
        BY <1>i, <1>q, <3>2 DEF Charges
      <4> QED
        BY <1>l, <1>m, <1>c, <3>1, <4>1 DEF Charged
    <3>3. CASE ~Holds(r, t)
      <4>1. (\A s \in Relays : ~Holds(s, t)') => \A s \in Relays : ~Holds(s, t)
        BY <1>q, <3>3 DEF LetsGo, Holds
      <4> QED
        BY <1>i, <1>q, <1>m, <1>c, <3>1, <4>1 DEF Room
    <3> QED
      BY <3>2, <3>3
  <2>5. RetryBudget'
    BY <1>i, <1>q, <1>m, <1>c, <1>t DEF RetryBudget
  <2> QED
    BY <2>1, <2>2, <2>3, <2>4, <2>5 DEF BudgetInv
(* A step in which no relay moves and rows at most disappear. *)
<1>d. ASSUME UNCHANGED <<clock, relay, calls, crashes>>, scripted \subseteq scripted',
             \A t \in Tasks : task'[t] = task[t] \/ task'[t] = "deleted",
             \A t \in Tasks \ scripted' : row'[t] = row[t] \/ row'[t].status = "absent",
             LiveRows'
      PROVE  BudgetInv'
  <2>1. Unborn' /\ Known' /\ Stamps' /\ RetryBudget' /\ ExclusiveClaim'
    <3>1. Unborn' /\ Stamps' /\ RetryBudget' /\ ExclusiveClaim'
      BY <1>i, <1>d DEF Unborn, Stamps, RetryBudget, ExclusiveClaim, Holds, Working
    <3>2. Known'
      BY <1>i, <1>l, <1>d DEF Known, Working
    <3> QED BY <3>1, <3>2
  <2>2. Copies'
    BY <1>i, <1>d, <1>z DEF Copies
  <2>3. Charges'
    <3> SUFFICES ASSUME NEW s \in Relays, NEW t \in Tasks \ scripted', Holds(s, t)'
                 PROVE  Charged(s, t)'
      BY DEF Charges
    <3>1. Holds(s, t) /\ t \in Tasks \ scripted
      BY <1>d DEF Holds
    <3>2. Charged(s, t)
      BY <1>i, <3>1 DEF Charges
    <3> QED
      BY <1>d, <3>2 DEF Charged
  <2>4. Room'
    <3> SUFFICES ASSUME NEW t \in Tasks \ scripted', row'[t].status \in {"pending", "claimed"}
                 PROVE  /\ row'[t].attempts < MaxAttempts
                        /\ (\A s \in Relays : ~Holds(s, t)')
                             => calls'[t] <= row'[t].attempts + crashes'
      BY DEF Room
    <3>1. row'[t] = row[t] /\ t \in Tasks \ scripted
      BY <1>d
    <3>2. \A s \in Relays : Holds(s, t)' = Holds(s, t)
      BY <1>d DEF Holds
    <3> QED
      BY <1>i, <1>d, <3>1, <3>2 DEF Room
  <2> QED
    BY <1>d, <2>1, <2>2, <2>3, <2>4 DEF BudgetInv
<1>1. ASSUME NEW r \in Relays, NEW t \in Tasks, CreateAndEnqueue(r, t)
      PROVE  BudgetInv'
  <2>1. LetsGo(r)
    BY <1>1, <1>t, LetsGoSteps
  <2>2. /\ row' = [row EXCEPT ![t] = NewRow] /\ task' = [task EXCEPT ![t] = "live"]
        /\ UNCHANGED <<clock, scripted, calls, crashes>>
        /\ task[t] = "none" /\ relay[r].pc = "idle"
    BY <1>1 DEF CreateAndEnqueue, history
  <2>3. /\ row'[t] = NewRow /\ \A u \in Tasks : u # t => row'[u] = row[u]
        /\ task'[t] = "live" /\ \A u \in Tasks : u # t => task'[u] = task[u]
    BY <1>t, <2>2 DEF TableTypeOK
  <2>4. \A s \in Relays : ~Holds(s, t) /\ ~Holds(s, t)'
    BY <1>i, <2>1, <2>2 DEF Known, Holds, Working, LetsGo
  <2>5. \A s \in Relays : relay[s].pc \in {"read", "stamped"} => relay[s].cur # t
    BY <1>i, <2>2 DEF Known, Working
  <2>6. LiveRows' /\ Unborn' /\ Stamps' /\ RetryBudget'
    BY <1>i, <2>1, <2>2, <2>3 DEF LiveRows, Unborn, Stamps, RetryBudget, LetsGo, Working
  <2>7. Known'
    BY <1>i, <1>l, <2>1, <2>3 DEF Known, LetsGo, Working
  <2>8. Copies' /\ ExclusiveClaim'
    BY <1>i, <2>1, <2>2, <2>3, <2>5 DEF Copies, ExclusiveClaim, LetsGo, Holds
  <2>9. Charges'
    <3> SUFFICES ASSUME NEW s \in Relays, NEW u \in Tasks \ scripted', Holds(s, u)'
                 PROVE  Charged(s, u)'
      BY DEF Charges
    <3>1. relay'[s] = relay[s] /\ Holds(s, u) /\ u # t
      BY <2>1, <2>4 DEF LetsGo, Holds
    <3>2. Charged(s, u)
      BY <1>i, <2>2, <3>1 DEF Charges
    <3> QED
      BY <2>2, <2>3, <3>1, <3>2 DEF Charged
  <2>10. Room'
    <3> SUFFICES ASSUME NEW u \in Tasks \ scripted', row'[u].status \in {"pending", "claimed"}
                 PROVE  /\ row'[u].attempts < MaxAttempts
                        /\ (\A s \in Relays : ~Holds(s, u)')
                             => calls'[u] <= row'[u].attempts + crashes'
      BY DEF Room
    <3>1. CASE u = t
      BY <1>i, <1>t, <1>c, <1>n, <2>2, <2>3, <3>1 DEF Unborn
    <3>2. CASE u # t
      <4>1. (\A s \in Relays : ~Holds(s, u)') => \A s \in Relays : ~Holds(s, u)
        BY <2>1, <2>2 DEF LetsGo, Holds
      <4> QED
        BY <1>i, <2>2, <2>3, <3>2, <4>1 DEF Room
    <3> QED BY <3>1, <3>2
  <2> QED
    BY <2>6, <2>7, <2>8, <2>9, <2>10 DEF BudgetInv
<1>2. ASSUME NEW r \in Relays, SelectPending(r) PROVE BudgetInv'
  <2>1. LetsGo(r) /\ UNCHANGED <<clock, row, task, scripted, calls, crashes>>
        /\ \A t \in Tasks : ~Holds(r, t)
    BY <1>2, <1>t, LetsGoSteps DEF SelectPending, rowVars, history, Holds
  <2> QED BY <1>q, <2>1
<1>3. ASSUME NEW r \in Relays, ReadMessage(r) PROVE BudgetInv'
  <2>1. PICK i \in relay[r].todo :
          IF Present(i.id)
            THEN Become(r, [relay[r] EXCEPT !.pc = "read", !.cur = i.id,
                              !.mem = row[i.id], !.todo = @ \ {i}])
            ELSE Return(r, i.id, relay[r].todo \ {i})
    BY <1>3 DEF ReadMessage
  <2>2. UNCHANGED <<clock, row, task, scripted, calls, crashes>> /\ relay[r].pc = "next"
    BY <1>3 DEF ReadMessage, rowVars, history
  <2>n. \A t \in Tasks : ~Holds(r, t)
    BY <2>2 DEF Holds
  <2>3. CASE ~Present(i.id)
    <3>1. LetsGo(r)
      BY <1>t, <2>1, <2>3, LetsGoSteps
    <3> QED BY <1>q, <2>2, <2>n, <3>1
  <2>4. CASE Present(i.id)
    <3> DEFINE x == [relay[r] EXCEPT !.pc = "read", !.cur = i.id,
                       !.mem = row[i.id], !.todo = @ \ {i}]
    <3>1. x.pc = "read" /\ x.cur = i.id /\ x.mem = row[i.id]
      BY <1>l DEF Relay
    <3>2. i.id \in Tasks
      BY <1>l DEF Relay
    <3>3. /\ relay'[r].pc = "read" /\ relay'[r].cur = i.id /\ relay'[r].mem = row[i.id]
          /\ \A s \in Relays : s # r => relay'[s] = relay[s]
      <4>1. Become(r, x)
        BY <2>1, <2>4
      <4> HIDE DEF x
      <4> QED
        BY <1>t, <3>1, <4>1, Moves
    <3>4. task[i.id] = "live"
      BY <1>i, <2>4, <3>2 DEF LiveRows
    <3>5. LiveRows' /\ Unborn' /\ Known' /\ Stamps' /\ RetryBudget'
      BY <1>i, <2>2, <3>3, <3>4 DEF LiveRows, Unborn, Known, Stamps, RetryBudget, Working
    <3>6. Copies' /\ ExclusiveClaim'
      BY <1>i, <2>2, <3>3 DEF Copies, ExclusiveClaim, Holds
    <3>7. \A s \in Relays, t \in Tasks :
            Holds(s, t)' = Holds(s, t) /\ (Holds(s, t) => relay'[s] = relay[s])
      BY <2>2, <3>3 DEF Holds
    <3>8. Charges'
      BY <1>i, <2>2, <3>7 DEF Charges, Charged
    <3>9. Room'
      BY <1>i, <2>2, <3>7 DEF Room
    <3> QED
      BY <3>5, <3>6, <3>8, <3>9 DEF BudgetInv
  <2> QED
    BY <2>3, <2>4
<1>4. ASSUME NEW r \in Relays, TakeNow(r) PROVE BudgetInv'
  <2>2. UNCHANGED <<clock, row, task, scripted, calls, crashes>> /\ relay[r].pc = "read"
    BY <1>4 DEF TakeNow, rowVars, history
  <2>n. \A t \in Tasks : ~Holds(r, t)
    BY <2>2 DEF Holds
  <2>3. CASE ~isDispatchable(relay[r].mem, clock)
    <3>1. LetsGo(r)
      BY <1>4, <1>t, <2>3, LetsGoSteps DEF TakeNow
    <3> QED BY <1>q, <2>2, <2>n, <3>1
  <2>4. CASE isDispatchable(relay[r].mem, clock)
    <3> DEFINE x == [relay[r] EXCEPT !.pc = "stamped", !.stamp = clock]
    <3>1. x.pc = "stamped" /\ x.stamp = clock /\ x.cur = relay[r].cur /\ x.mem = relay[r].mem
      BY <1>l DEF Relay
    <3>2. /\ relay'[r].pc = "stamped" /\ relay'[r].stamp = clock
          /\ relay'[r].cur = relay[r].cur /\ relay'[r].mem = relay[r].mem
          /\ \A s \in Relays : s # r => relay'[s] = relay[s]
      <4>1. Become(r, x)
        BY <1>4, <2>4 DEF TakeNow
      <4> HIDE DEF x
      <4> QED
        BY <1>t, <3>1, <4>1, Moves
    <3>5. LiveRows' /\ Unborn' /\ Known' /\ Stamps' /\ RetryBudget'
      BY <1>i, <2>2, <3>2 DEF LiveRows, Unborn, Known, Stamps, RetryBudget, Working
    <3>6. Copies' /\ ExclusiveClaim'
      BY <1>i, <2>2, <3>2 DEF Copies, ExclusiveClaim, Holds
    <3>7. \A s \in Relays, t \in Tasks :
            Holds(s, t)' = Holds(s, t) /\ (Holds(s, t) => relay'[s] = relay[s])
      BY <2>2, <3>2 DEF Holds
    <3>8. Charges'
      BY <1>i, <2>2, <3>7 DEF Charges, Charged
    <3>9. Room'
      BY <1>i, <2>2, <3>7 DEF Room
    <3> QED
      BY <3>5, <3>6, <3>8, <3>9 DEF BudgetInv
  <2> QED
    BY <2>3, <2>4
<1>5. ASSUME NEW r \in Relays, ClaimMessage(r) PROVE BudgetInv'
  <2> DEFINE t == relay[r].cur
             n == relay[r].stamp
  <2>1. UNCHANGED <<clock, task, scripted, calls, crashes>> /\ relay[r].pc = "stamped"
        /\ t \in Tasks
    BY <1>5, <1>l DEF ClaimMessage, history
  <2>n. n = clock /\ \A u \in Tasks : ~Holds(r, u)
    BY <1>i, <2>1 DEF Stamps, Working, Holds
  <2>2. CASE ~Claimable(t, relay[r].mem, n)
    <3>1. LetsGo(r) /\ UNCHANGED row
      BY <1>5, <1>t, <2>2, LetsGoSteps DEF ClaimMessage
    <3> QED BY <1>q, <2>1, <2>n, <3>1
  <2>3. CASE Claimable(t, relay[r].mem, n)
    <3> DEFINE x == ClaimedRow(t, n)
    <3>1. row' = [row EXCEPT ![t] = x] /\ Goto(r, "claimed")
      BY <1>5, <2>3 DEF ClaimMessage
    <3>2. /\ relay'[r].pc = "claimed" /\ relay'[r].cur = t /\ relay'[r].stamp = n
          /\ relay'[r].mem = relay[r].mem
          /\ \A s \in Relays : s # r => relay'[s] = relay[s]
      BY <1>t, <3>1, Moves
    <3>3. /\ x.status = "claimed" /\ x.claimUntil = clock + LeaseDuration
          /\ x.attempts = row[t].attempts
      BY <1>t, <2>1, <2>n DEF ClaimedRow, TableTypeOK, Row
    <3>4. row[t].status \in {"pending", "claimed"} /\ isDispatchable(row[t], clock)
      BY <2>3, <2>n DEF Claimable, isDispatchable
    <3>x. ~isDispatchable(x, clock)
      BY <1>t, <3>3 DEF isDispatchable, Null
    <3> HIDE DEF x
    <3>5. row'[t] = x /\ \A u \in Tasks : u # t => row'[u] = row[u]
      BY <1>t, <2>1, <3>1 DEF TableTypeOK
    (* Nobody else is within a lease on t. *)
    <3>6. ASSUME NEW s \in Relays, t \notin scripted PROVE ~Holds(s, t)
      <4> SUFFICES ASSUME Holds(s, t) PROVE FALSE
        OBVIOUS
      <4>1. row[t].status = "claimed" /\ row[t].claimUntil = clock + LeaseDuration
        BY <1>i, <2>1, <3>4, <3>6 DEF Charges, Charged
      <4> QED
        BY <1>t, <3>4, <4>1 DEF isDispatchable, Null
    <3>7. \A s \in Relays, u \in Tasks : s # r => Holds(s, u)' = Holds(s, u)
      BY <3>2 DEF Holds
    <3>8. LiveRows' /\ Unborn' /\ Known' /\ Stamps' /\ RetryBudget'
      BY <1>i, <2>1, <2>n, <3>2, <3>4, <3>5
      DEF LiveRows, Unborn, Known, Stamps, RetryBudget, Working
    <3>9. Copies'
      BY <1>i, <2>1, <3>2, <3>5, <3>x DEF Copies
    <3>10. ExclusiveClaim'
      BY <1>i, <2>1, <3>2, <3>6 DEF ExclusiveClaim, Holds
    <3>11. t \notin scripted =>
             /\ relay[r].mem.attempts = row[t].attempts
             /\ row[t].attempts < MaxAttempts
             /\ calls[t] <= row[t].attempts + crashes
      BY <1>i, <2>1, <3>4, <3>6 DEF Copies, Room
    <3>12. Charges'
      <4> SUFFICES ASSUME NEW s \in Relays, NEW u \in Tasks \ scripted', Holds(s, u)'
                   PROVE  Charged(s, u)'
        BY DEF Charges
      <4>1. CASE s = r
        <5>1. u = t
          BY <3>2, <4>1 DEF Holds
        <5> QED
          BY <1>l, <1>m, <1>c, <2>1, <3>2, <3>3, <3>5, <3>11, <4>1, <5>1 DEF Charged
      <4>2. CASE s # r
        <5>1. Holds(s, u) /\ u # t
          BY <2>1, <3>6, <3>7, <4>2
        <5>2. Charged(s, u)
          BY <1>i, <2>1, <5>1 DEF Charges
        <5> QED
          BY <2>1, <3>2, <3>5, <4>2, <5>1, <5>2 DEF Charged
      <4> QED BY <4>1, <4>2
    <3>13. Room'
      <4> SUFFICES ASSUME NEW u \in Tasks \ scripted', row'[u].status \in {"pending", "claimed"}
                   PROVE  /\ row'[u].attempts < MaxAttempts
                          /\ (\A s \in Relays : ~Holds(s, u)')
                               => calls'[u] <= row'[u].attempts + crashes'
        BY DEF Room
      <4>1. CASE u = t
        BY <2>1, <3>3, <3>5, <3>11, <4>1
      <4>2. CASE u # t
        <5>1. \A s \in Relays : Holds(s, u)' = Holds(s, u)
          BY <2>1, <3>2, <4>2 DEF Holds
        <5> QED
          BY <1>i, <2>1, <3>5, <4>2, <5>1 DEF Room
      <4> QED BY <4>1, <4>2
    <3> QED
      BY <3>8, <3>9, <3>10, <3>12, <3>13 DEF BudgetInv
  <2> QED
    BY <2>2, <2>3
<1>6. ASSUME NEW r \in Relays, Dispatch(r) PROVE BudgetInv'
  <2> DEFINE t == relay[r].cur
  <2>1. UNCHANGED <<clock, row, task, scripted, crashes>> /\ relay[r].pc = "claimed"
        /\ calls' = [calls EXCEPT ![t] = @ + 1]
    BY <1>6 DEF Dispatch, rowVars
  <2>2. PICK label \in {"sent", "failed"} : Goto(r, label)
    BY <1>6 DEF Dispatch
  <2>3. /\ relay'[r].pc \in {"sent", "failed"} /\ relay'[r].cur = relay[r].cur
        /\ relay'[r].mem = relay[r].mem /\ relay'[r].stamp = relay[r].stamp
        /\ \A s \in Relays : s # r => relay'[s] = relay[s]
    BY <1>t, <2>2, Moves
  <2>4. t \in Tasks /\ Holds(r, t)
    BY <1>l, <2>1 DEF Holds
  <2>5. calls'[t] = calls[t] + 1 /\ \A u \in Tasks : u # t => calls'[u] = calls[u]
    BY <1>t, <2>1, <2>4 DEF HistoryTypeOK
  <2>6. \A s \in Relays : /\ (relay'[s].pc = "read") = (relay[s].pc = "read")
                          /\ (relay'[s].pc = "stamped") = (relay[s].pc = "stamped")
                          /\ Working(s)' = Working(s) /\ relay'[s].stamp = relay[s].stamp
                          /\ relay'[s].cur = relay[s].cur /\ relay'[s].mem = relay[s].mem
                          /\ \A u \in Tasks : Holds(s, u)' = Holds(s, u)
    BY <2>1, <2>3 DEF Working, Holds
  <2>7. t \notin scripted =>
          calls[t] <= relay[r].mem.attempts + crashes /\ relay[r].mem.attempts < MaxAttempts
    BY <1>i, <2>1, <2>4 DEF Charges, Charged
  <2>8. LiveRows' /\ Known' /\ Stamps' /\ Copies' /\ ExclusiveClaim'
    BY <1>i, <2>1, <2>6 DEF LiveRows, Known, Stamps, Copies, ExclusiveClaim
  <2>9. Unborn'
    BY <1>i, <2>1, <2>4, <2>5 DEF Unborn, Known, Working
  <2>10. RetryBudget'
    BY <1>i, <1>t, <1>l, <1>m, <1>c, <2>1, <2>4, <2>5, <2>7 DEF RetryBudget
  <2>11. Charges'
    <3> SUFFICES ASSUME NEW s \in Relays, NEW u \in Tasks \ scripted', Holds(s, u)'
                 PROVE  Charged(s, u)'
      BY DEF Charges
    <3>1. Holds(s, u) /\ Charged(s, u)
      BY <1>i, <2>1, <2>6 DEF Charges
    <3>2. CASE u = t
      <4>1. s = r
        BY <1>i, <2>1, <2>4, <3>1, <3>2 DEF ExclusiveClaim
      <4> QED
        BY <1>l, <1>m, <1>c, <2>1, <2>3, <2>4, <2>5, <2>7, <3>1, <3>2, <4>1 DEF Charged
    <3>3. CASE u # t
      <4>1. relay'[s] = relay[s]
        BY <2>3, <3>1, <3>3 DEF Holds
      <4> QED
        BY <2>1, <2>5, <3>1, <3>3, <4>1 DEF Charged
    <3> QED BY <3>2, <3>3
  <2>12. Room'
    BY <1>i, <2>1, <2>4, <2>5, <2>6 DEF Room
  <2> QED
    BY <2>8, <2>9, <2>10, <2>11, <2>12 DEF BudgetInv
<1>7. ASSUME NEW r \in Relays, Close(r) PROVE BudgetInv'
  <2> DEFINE t == relay[r].cur
  <2>1. LetsGo(r) /\ UNCHANGED <<clock, task, scripted, calls, crashes>>
    BY <1>7, <1>t, LetsGoSteps DEF Close
  <2>2. t \in Tasks /\ Holds(r, t)
    BY <1>7, CloseWrites
  <2>3. CASE ~Present(t)
    <3>1. row' = row
      BY <1>7, <2>3, CloseWrites
    <3>2. \A u \in Tasks : Holds(r, u) => ~Present(u)
      BY <2>3 DEF Holds
    <3> QED BY <1>q, <2>1, <3>1, <3>2
  <2>4. CASE Present(t)
    <3>1. PICK x : /\ row' = [row EXCEPT ![t] = x]
                   /\ x.status \in {"pending", "dispatched", "dead_letter"}
                   /\ x.status = "pending" =>
                        /\ x.attempts = relay[r].mem.attempts + 1
                        /\ x.attempts < MaxAttempts
                        /\ ~isDispatchable(x, relay[r].stamp)
      BY <1>7, <2>4, CloseCounts
    <3>2. row'[t] = x /\ \A u \in Tasks : u # t => row'[u] = row[u]
      BY <1>t, <2>2, <3>1 DEF TableTypeOK
    <3>3. ~isDispatchable(x, clock)
      <4>1. relay[r].stamp = clock
        BY <1>i, <2>2 DEF Stamps, Working, Holds
      <4> QED BY <3>1, <4>1 DEF isDispatchable
    <3>4. \A s \in Relays : s # r /\ t \notin scripted => ~Holds(s, t)
      BY <1>i, <2>2 DEF ExclusiveClaim
    <3>5. LiveRows' /\ Unborn' /\ Known' /\ Stamps' /\ RetryBudget' /\ ExclusiveClaim'
      BY <1>i, <2>1, <2>2, <2>4, <3>2
      DEF LiveRows, Unborn, Known, Stamps, RetryBudget, ExclusiveClaim, LetsGo, Working, Holds
    <3>6. Copies'
      BY <1>i, <2>1, <3>2, <3>3 DEF Copies, LetsGo
    <3>7. Charges'
      <4> SUFFICES ASSUME NEW s \in Relays, NEW u \in Tasks \ scripted', Holds(s, u)'
                   PROVE  Charged(s, u)'
        BY DEF Charges
      <4>1. relay'[s] = relay[s] /\ Holds(s, u) /\ u # t
        BY <2>1, <3>4 DEF LetsGo, Holds
      <4>2. Charged(s, u)
        BY <1>i, <2>1, <4>1 DEF Charges
      <4> QED
        BY <2>1, <3>2, <4>1, <4>2 DEF Charged
    <3>8. Room'
      <4> SUFFICES ASSUME NEW u \in Tasks \ scripted', row'[u].status \in {"pending", "claimed"}
                   PROVE  /\ row'[u].attempts < MaxAttempts
                          /\ (\A s \in Relays : ~Holds(s, u)')
                               => calls'[u] <= row'[u].attempts + crashes'
        BY DEF Room
      <4>1. CASE u = t
        <5>1. calls[t] <= relay[r].mem.attempts + 1 + crashes
          BY <1>i, <2>1, <2>2, <4>1 DEF Charges, Charged
        <5> QED
          BY <2>1, <3>1, <3>2, <4>1, <5>1
      <4>2. CASE u # t
        <5>1. (\A s \in Relays : ~Holds(s, u)') => \A s \in Relays : ~Holds(s, u)
          BY <2>1, <4>2 DEF LetsGo, Holds
        <5> QED
          BY <1>i, <2>1, <3>2, <4>2, <5>1 DEF Room
      <4> QED BY <4>1, <4>2
    <3> QED
      BY <3>5, <3>6, <3>7, <3>8 DEF BudgetInv
  <2> QED
    BY <2>3, <2>4
<1>8. ASSUME NEW r \in Relays, Recheck(r) PROVE BudgetInv'
  <2>1. LetsGo(r) /\ UNCHANGED <<clock, row, task, scripted, calls, crashes>>
        /\ \A t \in Tasks : ~Holds(r, t)
    BY <1>8, <1>t, LetsGoSteps DEF Recheck, rowVars, history, Holds
  <2> QED BY <1>q, <2>1
<1>9. ASSUME NEW r \in Relays, Crash(r) PROVE BudgetInv'
  <2>1. LetsGo(r) /\ UNCHANGED <<clock, row, task, scripted, calls>>
        /\ crashes' = crashes + 1
    BY <1>9, <1>t, LetsGoSteps DEF Crash, rowVars
  <2> QED BY <1>q, <2>1
<1>10. ASSUME NEW t \in Tasks, DeleteTask(t) PROVE BudgetInv'
  <2>1. /\ task' = [task EXCEPT ![t] = "deleted"] /\ row' = [row EXCEPT ![t] = NoRow]
        /\ UNCHANGED <<clock, relay, scripted, calls, crashes>>
    BY <1>10 DEF DeleteTask, history
  <2>2. /\ \A u \in Tasks : task'[u] = task[u] \/ task'[u] = "deleted"
        /\ \A u \in Tasks : row'[u] = row[u] \/ row'[u].status = "absent"
    BY <1>t, <1>n, <2>1 DEF TableTypeOK
  <2>3. LiveRows'
    BY <1>i, <1>t, <1>n, <2>1 DEF LiveRows, TableTypeOK
  <2> QED
    BY <1>d, <2>1, <2>2, <2>3
<1>12. ASSUME NEW t \in Tasks, NEW x, NEW cond, Script(t, cond, x)
       PROVE  BudgetInv'
  <2>1. /\ row' = [row EXCEPT ![t] = x] /\ Present(t)
        /\ scripted' = scripted \cup {t}
        /\ UNCHANGED <<clock, task, relay, calls, crashes>>
    BY <1>12 DEF Script
  <2>2. /\ \A u \in Tasks \ scripted' : row'[u] = row[u] \/ row'[u].status = "absent"
        /\ \A u \in Tasks : task'[u] = task[u] \/ task'[u] = "deleted"
    BY <1>t, <2>1 DEF TableTypeOK
  <2>3. LiveRows'
    BY <1>i, <1>t, <2>1 DEF LiveRows, TableTypeOK
  <2> QED
    BY <1>d, <2>1, <2>2, <2>3
<1>13. ASSUME NEW t \in Tasks, RequeueById(t) \/ RequeueByTask(t) \/ ClearLease(t)
       PROVE  BudgetInv'
  BY <1>13, <1>12 DEF RequeueById, RequeueByTask, ClearLease
<1>15. ASSUME NEW c \in Cleaners, CleanupDelete(c) PROVE BudgetInv'
  <2>1. /\ row' = [t \in Tasks |-> IF t \in pick[c] THEN NoRow ELSE row[t]]
        /\ UNCHANGED <<clock, task, relay, scripted, calls, crashes>>
    BY <1>15 DEF CleanupDelete, history
  <2>2. /\ \A u \in Tasks : row'[u] = row[u] \/ row'[u].status = "absent"
        /\ \A u \in Tasks : task'[u] = task[u] \/ task'[u] = "deleted"
    BY <1>n, <2>1
  <2>3. LiveRows'
    BY <1>i, <2>1, <2>2 DEF LiveRows
  <2> QED
    BY <1>d, <2>1, <2>2, <2>3
<1>16. CASE Tick
  <2>1. /\ UNCHANGED <<row, task, relay, scripted, calls, crashes>>
        /\ \A r \in Relays : relay[r].pc = "idle"
    BY <1>16 DEF Tick, rowVars, history
  <2>2. LiveRows' /\ Unborn' /\ RetryBudget'
    BY <1>i, <2>1 DEF LiveRows, Unborn, RetryBudget
  <2>3. Known' /\ Stamps' /\ Copies' /\ Charges' /\ ExclusiveClaim'
    BY <2>1 DEF Known, Stamps, Copies, Charges, ExclusiveClaim, Holds, Working
  <2>4. Room'
    BY <1>i, <2>1 DEF Room, Holds
  <2> QED
    BY <2>2, <2>3, <2>4 DEF BudgetInv
<1>17. ASSUME UNCHANGED <<clock, row, task, relay, scripted, calls, crashes>>
       PROVE  BudgetInv'
  <2>1. LiveRows'
    BY <1>i, <1>17 DEF LiveRows
  <2> QED
    BY <1>d, <1>17, <2>1
<1>18. ASSUME \/ \E t \in Tasks : Consume(t)
              \/ \E c \in Cleaners : CleanupSelect(c)
              \/ UNCHANGED vars
       PROVE  BudgetInv'
  BY <1>17, <1>18 DEF Consume, CleanupSelect, vars, rowVars, history
<1> QED
  BY <1>1, <1>2, <1>3, <1>4, <1>5, <1>6, <1>7, <1>8, <1>9, <1>10,
     <1>13, <1>15, <1>16, <1>18
  DEF Next, RelayStep

(* MaxAttempts bounds the dispatcher calls of a message, up to one call for *)
(* each crash, if every relay run ends within the period it started in and  *)
(* no operator reset the row: attempt_count, written only by the closing    *)
(* update from a copy read earlier, is never behind by more than that.      *)
THEOREM RetryBudgetHolds ==
  ASSUME Pace = "round"
  PROVE  Spec => []RetryBudget
<1>1. Init => BudgetInv
  BY SettingsAssumption
  DEF Init, BudgetInv, LiveRows, Known, Stamps, Unborn, Copies, Charges,
      ExclusiveClaim, Room, RetryBudget, Holds, Working, Present, NoRow, IdleRelay
<1>2. BudgetInv => RetryBudget
  BY DEF BudgetInv
<1> QED
  BY <1>1, <1>2, TypeCorrect, BudgetInductive, PTL DEF Spec
=============================================================================
